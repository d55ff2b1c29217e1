--------------------------- MODULE StartupRecovery ---------------------------
(***************************************************************************)
(* What a start of the process does before it may trade: RecoveryManager      *)
(* (execution/recovery.py) over ReconciliationEngine (reconciliation.py),    *)
(* run by build_execution_stack (bootstrap.py).  It is composed with the     *)
(* execution service: the database rows it reads are the ones the service    *)
(* wrote before the restart, and only its verdict opens the service's gate.  *)
(*                                                                          *)
(* The four fetches of the broker are awaits of their own; its orders may    *)
(* trade between them.  The database does not move meanwhile, because every   *)
(* call is refused while the gate is closed, so it is read where it is       *)
(* compared.  Amounts agree exactly: every order is for one share at price   *)
(* one, and the tolerances for prices and cash do not come into play.        *)
(***************************************************************************)
EXTENDS ExecutionService, Sequences

VARIABLE recovery   \* the run of RecoveryManager.recover of this process

allVars == <<vars, recovery>>

Phases == {"connect", "load", "query", "judge", "resolve", "halt", "done"}

Sources == <<"positions", "orders", "trades", "cash">>

(* recovery holds what the broker's four replies say and which side could not *)
(* be read.  The rest is history: the orders that had traded and those that   *)
(* rested when the recovery began, and whether a recovery reported the kill  *)
(* switch as activated and no operator has released it since.               *)
Started(halted) ==
    [phase |-> "connect", next |-> 1, missing |-> {}, positions |-> 0,
     orders |-> [k \in Keys |-> "none"], trades |-> {}, cash |-> 0,
     verified |-> FALSE, began |-> {}, resting |-> {}, halted |-> halted]

Traded == {k \in Keys : market[k].status = "COMPLETE"}

Resting == {k \in Keys : market[k].status = "OPEN"}

Enter(phase) == recovery' = [recovery EXCEPT !.phase = phase]

(* The report is kept, but nothing decides on it.                           *)
Finish(halted) == recovery' = [Started(halted) EXCEPT !.phase = "done"]

frame == <<durable, records, market, calls, deployment, starts>>

-----------------------------------------------------------------------------
(* ReconciliationEngine: the comparisons                                     *)

Comparable == recovery.missing = {}

OpenStatuses == {"OPEN"}
TerminalStatuses == {"COMPLETE", "REJECTED", "CANCELLED"}

(* classify_order_status; what it does not know is unknown.                 *)
Classified(status) ==
    CASE status \in OpenStatuses     -> "open"
      [] status \in TerminalStatuses -> "terminal"
      [] OTHER                       -> "unknown"

(* reconcile_orders: the open orders with a broker id on both sides.         *)
ReconcileOrders ==
    LET theirs == {k \in Keys : Classified(recovery.orders[k]) = "open"}
        ours   == {k \in Signals : rows[k].attached /\ Classified(rows[k].status) = "open"}
    IN  {<<"MISSING_LOCAL", k>> : k \in theirs \ ours} \cup {<<"MISSING_BROKER", k>> : k \in ours \ theirs}

(* _reconcile_fills, per order.  A trade row whose order has no broker id    *)
(* does not exist: it is synced only after the id was attached.             *)
ReconcileFills ==
    {<<"MISSING_LOCAL", k>> : k \in recovery.trades \ booked}
    \cup {<<"MISSING_BROKER", k>> : k \in booked \ recovery.trades}

(* reconcile_positions, in the one symbol.                                  *)
ReconcilePositions ==
    IF recovery.positions = Net(booked) THEN {} ELSE {<<"MISMATCHED_QTY", NoKey>>}

ReconcileCash ==
    IF recovery.cash = cash THEN {} ELSE {<<"MISMATCHED_CASH", NoKey>>}

(* identify_unknown_orders: every row the vocabulary does not call open or   *)
(* terminal, and every order without a broker id that is not terminal.       *)
UnknownRows ==
    {k \in Signals : /\ rows[k].status # "none"
                     /\ \/ Classified(rows[k].status) = "unknown"
                        \/ ~rows[k].attached /\ Classified(rows[k].status) # "terminal"}

IdentifyUnknown == {<<"UNKNOWN_ORDER_STATE", k>> : k \in UnknownRows}

Discrepancies ==
    (IF Comparable THEN ReconcileOrders \cup ReconcileFills \cup ReconcilePositions \cup ReconcileCash
     ELSE {<<"DATA_UNAVAILABLE", NoKey>>})
    \cup (IF "local" \in recovery.missing THEN {} ELSE IdentifyUnknown)

(* classify: what could not be read outranks what does not match.            *)
Classify ==
    CASE ~Comparable                       -> "UNAVAILABLE"
      [] Comparable /\ Discrepancies # {}  -> "MISMATCH"
      [] OTHER                             -> "OK"

-----------------------------------------------------------------------------
(* RecoveryManager: the sequence                                            *)

(* _run_startup_recovery connects first; without a connection it blocks.     *)
Connect ==
    /\ recovery.phase = "connect"
    /\ \/ /\ gate' = "RECOVERING"
          /\ recovery' = [recovery EXCEPT !.phase = "load", !.began = Traded, !.resting = Resting]
       \/ Fault("unread") /\ gate' = "BLOCKED" /\ Finish(recovery.halted)
    /\ UNCHANGED <<frame, switch>>

(* fetch_local: a source that cannot be read is missing, never empty.        *)
LoadLocal ==
    /\ recovery.phase = "load"
    /\ \E gone \in {{}} \cup (IF Fault("db") THEN {{"local"}} ELSE {}) :
          recovery' = [recovery EXCEPT !.phase = "query", !.next = 1, !.missing = gone]
    /\ UNCHANGED <<frame, switch, gate>>

(* One reply of the broker, as of now.                                      *)
ReplyOf(source) ==
    CASE source = "positions" -> [recovery EXCEPT !.positions = Position]
      [] source = "orders"    -> [recovery EXCEPT !.orders = [k \in Keys |-> market[k].status]]
      [] source = "trades"    -> [recovery EXCEPT !.trades = Traded]
      [] OTHER                -> [recovery EXCEPT !.cash = Opening - Position]

Moved(r) ==
    [r EXCEPT !.next = @ + 1, !.phase = IF r.next = Len(Sources) THEN "judge" ELSE "query"]

(* Slip: a fetch that fails leaves an empty reply.                          *)
QueryOrEmpty ==
    /\ recovery.phase = "query"
    /\ \/ recovery' = Moved(ReplyOf(Sources[recovery.next]))
       \/ Fault("unread") /\ recovery' = Moved(recovery)
    /\ UNCHANGED <<frame, switch, gate>>

(* fetch_broker, one source after the other.                                *)
QueryBroker ==
    /\ recovery.phase = "query"
    /\ \/ recovery' = Moved(ReplyOf(Sources[recovery.next]))
       \/ Fault("unread") /\ recovery' = Moved([recovery EXCEPT !.missing = @ \cup {"broker"}])
    /\ UNCHANGED <<frame, switch, gate>>

(* _finish: the only way into READY is a verdict of OK; otherwise the halt    *)
(* is persisted.  A verdict with findings is first resolved, once.           *)
Judge ==
    /\ recovery.phase = "judge"
    /\ \/ Classify = "OK" /\ gate' = "READY" /\ Finish(recovery.halted)
       \/ Classify # "OK" /\ ~recovery.verified /\ Enter("resolve") /\ UNCHANGED gate
       \/ Classify # "OK" /\ recovery.verified /\ gate' = "BLOCKED" /\ Enter("halt")
    /\ UNCHANGED <<frame, switch>>

(* _resolve_safely: the orders in doubt that have a broker id are looked up   *)
(* at the broker; a definite answer is an action taken.                     *)
Resolvable == {k \in UnknownRows : rows[k].attached /\ Classified(market[k].status) # "unknown"}

(* Slip: the recovery goes round until everything agrees.                   *)
ResolveForever ==
    /\ recovery.phase = "resolve"
    /\ IF Resolvable # {} /\ "local" \notin recovery.missing
       THEN Enter("load") /\ UNCHANGED gate
       ELSE gate' = "BLOCKED" /\ Enter("halt")
    /\ UNCHANGED <<frame, switch>>

(* After an action everything is read and compared once more; the rows are    *)
(* as they were, so resolution alone never unlocks trading.                 *)
ResolveSafely ==
    /\ recovery.phase = "resolve"
    /\ \E known \in SUBSET Resolvable :
          /\ known = Resolvable \/ Fault("unread")
          /\ IF known # {} /\ "local" \notin recovery.missing
             THEN /\ recovery' = [recovery EXCEPT !.phase = "load", !.verified = TRUE]
                  /\ UNCHANGED gate
             ELSE gate' = "BLOCKED" /\ Enter("halt")
    /\ UNCHANGED <<frame, switch>>

(* Slip: a write that raises nothing counts as activation, without reading   *)
(* it back.                                                                 *)
HaltUnverified ==
    /\ recovery.phase = "halt"
    /\ switch' = TRUE \/ (Fault("probe") /\ UNCHANGED switch)
    /\ Finish(TRUE)
    /\ UNCHANGED <<frame, gate>>

(* _activate_kill_switch: set, then read back; a store that fails raises      *)
(* KillSwitchActivationError, whether or not the write took effect.          *)
Halt ==
    /\ recovery.phase = "halt"
    /\ \/ switch' = TRUE /\ Finish(TRUE)
       \/ /\ Fault("probe")
          /\ switch' = TRUE \/ UNCHANGED switch
          /\ Finish(recovery.halted)
    /\ UNCHANGED <<frame, gate>>

Recover == Connect \/ LoadLocal \/ QueryBroker \/ Judge \/ ResolveSafely \/ Halt

-----------------------------------------------------------------------------
(* The composition                                                          *)

(* A new process: the service's restart, and a new RecoveryManager.          *)
Start == Restart /\ recovery' = Started(recovery.halted /\ deployment.redis)

(* The operator's release ends a halt.                                      *)
Release == Deactivate /\ recovery' = [recovery EXCEPT !.halted = FALSE]

StartupInit == Init /\ recovery = Started(FALSE)

Serve ==
    \/ \E c \in Callers : Step(c) \/ Call(c)
    \/ \E k \in Keys : Execute(k)
    \/ Activate

StartupNext == Recover \/ Start \/ Release \/ (Serve /\ UNCHANGED recovery)

StartupSpec == StartupInit /\ [][StartupNext]_allVars

(* The awaits of the recovery return, with an answer or with an exception.   *)
FairStartupSpec == StartupSpec /\ WF_allVars(Recover)

-----------------------------------------------------------------------------
(* Properties                                                               *)

(* The type invariant, and where each state of the manager is found: a gate   *)
(* that is open has had a verdict, one that recovers is before it.           *)
StartupTypeOK ==
    /\ recovery \in [phase : Phases, next : 1..Len(Sources) + 1,
                     missing : SUBSET {"local", "broker"}, positions : Int,
                     orders : [Keys -> {"none"} \cup OpenStatuses \cup TerminalStatuses],
                     trades : SUBSET Keys, cash : Int, verified : BOOLEAN,
                     began : SUBSET Keys, resting : SUBSET Keys, halted : BOOLEAN]
    /\ gate = "READY" => recovery.phase = "done"
    /\ gate = "RECOVERING" <=> recovery.phase \in {"load", "query", "judge", "resolve"}

(* Trading is permitted only if everything that had traded before this start  *)
(* is in the database and nothing else, every order that lived at the broker *)
(* and still does is one the database follows, and no order of the database  *)
(* is in doubt, whatever could not be read.                                 *)
ReadyMeansAgreed ==
    [][gate' = "READY" /\ gate # "READY" =>
          /\ recovery.began \subseteq booked
          /\ booked \subseteq Traded
          /\ \A k \in recovery.resting \cap Resting : k \in Signals /\ rows[k].attached
          /\ \A k \in Signals : rows[k].status \in {"none", "OPEN", "COMPLETE", "REJECTED", "CANCELLED"}]_allVars

(* "The caller is never told a switch was thrown when it was not": a halt     *)
(* that was reported as persisted is in force until an operator releases it, *)
(* over restarts where the switch is durable.                               *)
HaltIsReal == recovery.halted => switch

(* Every start reaches a defined state, trading or blocked, and on its way    *)
(* the gate is where the manager's phase says: open only after a verdict.    *)
StartsAreDecided ==
    /\ []StartupTypeOK
    /\ recovery.phase = "connect" ~> gate \in {"READY", "BLOCKED"} /\ recovery.phase = "done"

=============================================================================
