--------------------------- MODULE OrderLifecycle ---------------------------
(***************************************************************************)
(* The order life cycle of backend/app/execution/lifecycle.py: the states, *)
(* the declared transitions, and how a broker status is read.  The module  *)
(* is pure: every component that moves an order uses these operators.      *)
(***************************************************************************)
EXTENDS Naturals

PreSubmitStates == {"INTENT_CREATED", "RISK_CHECK_PENDING", "RISK_APPROVED"}

TerminalStates ==
    {"RISK_REJECTED", "FILLED", "CANCELLED", "REJECTED", "EXPIRED"}

OpenStates ==
    PreSubmitStates \union
        {"SUBMITTED", "ACKNOWLEDGED", "PARTIALLY_FILLED", "CANCEL_PENDING", "UNKNOWN"}

BlockedStates == {"UNKNOWN"}

OrderStates == OpenStates \union TerminalStates

LegalTransitions ==
  [ s \in OrderStates |->
      CASE s = "INTENT_CREATED"     -> {"RISK_CHECK_PENDING", "RISK_REJECTED"}
        [] s = "RISK_CHECK_PENDING" -> {"RISK_APPROVED", "RISK_REJECTED"}
        [] s = "RISK_APPROVED"      -> {"SUBMITTED", "RISK_REJECTED", "CANCELLED"}
        [] s = "SUBMITTED"          -> {"ACKNOWLEDGED", "PARTIALLY_FILLED", "FILLED",
                                        "REJECTED", "CANCELLED", "EXPIRED", "UNKNOWN"}
        [] s = "ACKNOWLEDGED"       -> {"PARTIALLY_FILLED", "FILLED", "CANCEL_PENDING",
                                        "CANCELLED", "REJECTED", "EXPIRED", "UNKNOWN"}
        [] s = "PARTIALLY_FILLED"   -> {"PARTIALLY_FILLED", "FILLED", "CANCEL_PENDING",
                                        "CANCELLED", "EXPIRED", "UNKNOWN"}
        [] s = "CANCEL_PENDING"     -> {"CANCELLED", "FILLED", "PARTIALLY_FILLED",
                                        "REJECTED", "UNKNOWN"}
        [] s = "UNKNOWN"            -> {"ACKNOWLEDGED", "PARTIALLY_FILLED", "FILLED",
                                        "CANCELLED", "REJECTED", "EXPIRED"}
        [] OTHER                    -> {} ]

(* assert_transition does not raise.  A blocked order may be left only when *)
(* the caller has queried the broker about it.                              *)
CanTransition(current, new, reconciled) ==
    /\ current \notin TerminalStates
    /\ new \in LegalTransitions[current]
    /\ current \in BlockedStates => reconciled

-----------------------------------------------------------------------------
(* Broker statuses, one per class of _BROKER_STATUS_MAP: the statuses that *)
(* map to one state behave alike and share a representative.  NoStatus is  *)
(* a missing or unrecognised status.                                       *)

NoStatus == "ABSENT"

LiveStatuses == {"OPEN PENDING", "OPEN", "CANCEL PENDING"}

DeadStatuses == {"COMPLETE", "CANCELLED", "REJECTED", "EXPIRED", "PARTIAL"}

BrokerStatuses == LiveStatuses \union DeadStatuses

BrokerStatusMap ==
  [ s \in BrokerStatuses |->
      CASE s = "OPEN PENDING"   -> "SUBMITTED"
        [] s = "OPEN"           -> "ACKNOWLEDGED"
        [] s = "CANCEL PENDING" -> "CANCEL_PENDING"
        [] s = "COMPLETE"       -> "FILLED"
        [] s = "PARTIAL"        -> "PARTIALLY_FILLED"
        [] OTHER                -> s ]

MapBrokerStatus(status, filled, qty) ==
    IF status \notin BrokerStatuses
    THEN "UNKNOWN"
    ELSE LET state == BrokerStatusMap[status] IN
         IF \/ state = "ACKNOWLEDGED" /\ filled > 0
            \/ state = "FILLED" /\ 0 < filled /\ filled < qty
         THEN "PARTIALLY_FILLED"
         ELSE state

(* The states a broker status can establish as final. *)
BrokerTerminal == {"FILLED", "CANCELLED", "REJECTED", "EXPIRED"}

=============================================================================
