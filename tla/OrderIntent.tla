----------------------------- MODULE OrderIntent -----------------------------
(***************************************************************************)
(* What submit_order promises about an intent, without records, brokers,   *)
(* retries or crashes: a recorded intent is either refused for good or     *)
(* armed, and an armed one is sent to the broker at most once.             *)
(***************************************************************************)
CONSTANT Cids

VARIABLE stage

Init == stage = [c \in Cids |-> "none"]

Move(c, from, to) ==
    /\ stage[c] = from
    /\ stage' = [stage EXCEPT ![c] = to]

Record(c) == Move(c, "none", "recorded")
Refuse(c) == Move(c, "recorded", "refused")
Arm(c)    == Move(c, "recorded", "armed")
Send(c)   == Move(c, "armed", "sent")

Next == \E c \in Cids : Record(c) \/ Refuse(c) \/ Arm(c) \/ Send(c)

Spec == Init /\ [][Next]_stage

=============================================================================
