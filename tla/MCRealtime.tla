------------------------------ MODULE MCRealtime ------------------------------
(* The parts of the running system that share no state, one at a time: the hub  *)
(* of the API process, its lifespan with the intraday loop, and the worker.    *)
EXTENDS Realtime, Application, Worker

VARIABLE part

Init ==
    /\ part \in {"hub", "lifespan", "worker"}
    /\ RtInit /\ AppInit /\ WkInit

Next ==
    /\ UNCHANGED part
    /\ \/ part = "hub" /\ RtNext /\ UNCHANGED <<appVars, wkVars>>
       \/ part = "lifespan" /\ AppNext /\ UNCHANGED <<rtVars, wkVars>>
       \/ part = "worker" /\ WkNext /\ UNCHANGED <<rtVars, appVars>>

vars == <<part, rtVars, appVars, wkVars>>
Spec == Init /\ [][Next]_vars /\ RtFairness /\ AppFairness /\ WkFairness

MCAsked == {{Ticks}, Channels \cup {Unlisted}}
=============================================================================
