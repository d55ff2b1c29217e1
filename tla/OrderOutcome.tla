---------------------------- MODULE OrderOutcome ----------------------------
(***************************************************************************)
(* What the owner of an order is promised about its outcome: the store     *)
(* learns of executed shares late but never invents or forgets any, and an *)
(* order that is closed executes no further share and is never sent again. *)
(***************************************************************************)
EXTENDS Naturals

CONSTANTS Cids, Qty

VARIABLES
    stage,      \* none, recorded, refused, armed, sent, closed
    executed,   \* shares traded at the venue
    known       \* shares the store knows of

vars == <<stage, executed, known>>

Init ==
    /\ stage    = [c \in Cids |-> "none"]
    /\ executed = [c \in Cids |-> 0]
    /\ known    = [c \in Cids |-> 0]

Move(c, from, to) ==
    /\ stage[c] \in from
    /\ stage' = [stage EXCEPT ![c] = to]

Learn(c) == \E n \in known[c]..executed[c] : known' = [known EXCEPT ![c] = n]

Record(c) == Move(c, {"none"}, "recorded") /\ UNCHANGED <<executed, known>>
Refuse(c) == Move(c, {"recorded"}, "refused") /\ UNCHANGED <<executed, known>>
Arm(c)    == Move(c, {"recorded"}, "armed") /\ UNCHANGED <<executed, known>>
Send(c)   == Move(c, {"armed"}, "sent") /\ UNCHANGED <<executed, known>>

Execute(c) ==
    /\ stage[c] = "sent"
    /\ executed[c] < Qty
    /\ executed' = [executed EXCEPT ![c] = @ + 1]
    /\ UNCHANGED <<stage, known>>

Update(c) == stage[c] = "sent" /\ Learn(c) /\ UNCHANGED <<stage, executed>>

(* An armed order that is closed was never sent: the process died first.   *)
Close(c) == Move(c, {"armed", "sent"}, "closed") /\ Learn(c) /\ UNCHANGED executed

Next ==
    \E c \in Cids : \/ Record(c) \/ Refuse(c) \/ Arm(c) \/ Send(c)
                    \/ Execute(c) \/ Update(c) \/ Close(c)

Spec == Init /\ [][Next]_vars

=============================================================================
