-------------------------- MODULE ExecutionService --------------------------
(***************************************************************************)
(* ExecutionService (execution/service.py), the one way to the broker, with  *)
(* what it stands between: the kill switches and the trading gate, the       *)
(* database (execution/persistence.py), the order manager and the emergency  *)
(* flatten (execution/order_manager.py), as execution/bootstrap.py and       *)
(* runtime.py assemble them.                                                *)
(*                                                                          *)
(* A call is a coroutine; an action is the stretch between two awaits of the *)
(* database, the order store or the broker.  The order manager's own         *)
(* interleavings are the subject of module OrderManager: here its call is    *)
(* three steps, the gates, the placement and the save of the reply.  An      *)
(* order is for one share at price one, so a trade is the completed order.   *)
(***************************************************************************)
EXTENDS Integers, FiniteSetsExt

CONSTANTS
    Callers,     \* concurrent calls
    Entries,     \* client order ids of buys ...
    Stops,       \* ... and of protective stops, that rest until they trade
    NoKey,       \* the order of an idle call
    Opening,     \* the opening cash of the account
    Faults,      \* lost, unread: replies and books of the broker;
                 \* db: the database; store: the order store; probe: the switch
    Modes,       \* the configurations of a deployment: mode, authorized, redis
    MaxStarts    \* bound on restarts

ASSUME KeysAssumption == Entries \cap Stops = {} /\ NoKey \notin Entries \cup Stops
ASSUME OpeningAssumption == Opening \in Nat
ASSUME ModesAssumption ==
    Modes \subseteq [mode : {"paper", "live"}, authorized : BOOLEAN, redis : BOOLEAN]

(* One flatten order per position size: its id is derived from the session  *)
(* and the position, so the same position gives the same id.                *)
FlatKey(n) == <<"FLAT", n>>
Sizes == 1..Cardinality(Entries)
FlatKeys == {FlatKey(n) : n \in Sizes}

Signals == Entries \cup Stops
Keys == Signals \cup FlatKeys

(* The two kinds of ids have prefixes of their own.                         *)
ASSUME FlatAssumption == Signals \cap FlatKeys = {}

VARIABLES
    deployment,  \* the configuration, chosen once
    rows,        \* durable: the order rows of the database
    booked,      \* durable: the trade rows, by order
    cash,        \* durable: the account's cash
    records,     \* the order manager's records; durable with redis only
    switch,      \* the execution layer's kill switch; durable with redis only
    userStop,    \* durable: UserSettings.kill_switch_active
    gate,        \* has startup reconciliation succeeded?
    market,      \* broker: the last order of each client order id
    calls,       \* the calls in flight
    starts       \* restarts so far

durable == <<rows, booked, cash, userStop>>
system == <<deployment, gate, starts>>
vars == <<deployment, rows, booked, cash, records, switch, userStop, gate, market, calls, starts>>

Row == [status : {"none", "INTENT_CREATED", "SUBMITTED", "BLOCKED_RISK", "UNKNOWN",
                  "OPEN", "COMPLETE", "REJECTED", "CANCELLED"},
        attached : BOOLEAN]

Market == [status : {"none", "OPEN", "COMPLETE", "REJECTED", "CANCELLED"}, sent : Nat]

(* Why a call will record a block.                                          *)
Outcomes == {"none", "BLOCKED_RISK", "AMBIGUOUS"}

Steps == {"claim", "gates", "place", "reply", "resolve", "block", "attach", "sync", "cancel",
          "flatCancel", "flatRead", "flatPlace"}

(* "stopped" is history: a switch was engaged when the call came in.        *)
Frames == [at : Steps, key : Keys \cup {NoKey}, why : Outcomes, stopped : BOOLEAN]

Idle == [at |-> "idle", key |-> NoKey, why |-> "none", stopped |-> FALSE]
Cancelling == [Idle EXCEPT !.at = "cancel"]
Flattening == [Idle EXCEPT !.at = "flatPlace"]

Signed(k) == CASE k \in Entries -> 1 [] k \in Stops -> -1 [] OTHER -> -k[2]

Net(orders) == MapThenSumSet(Signed, orders)

(* What the broker says is held: buys less sells that traded.               *)
Position == Net({k \in Keys : market[k].status = "COMPLETE"})

-----------------------------------------------------------------------------
(* The calls                                                                *)

Go(c, frame) == calls' = [calls EXCEPT ![c] = frame]
At(c, step) == calls[c].at = step
Proceed(c, step) == Go(c, [calls[c] EXCEPT !.at = step])

(* The call is recorded in the audit journal and returns its outcome.       *)
Answer(c) == Go(c, Idle)

Fault(f) == f \in Faults

(* KillSwitch.is_active: the execution layer's store is the only probe that  *)
(* production wires; a probe that raises counts as active.                  *)
SwitchReads(active) == active = switch \/ (active = TRUE /\ Fault("probe"))

(* TradingGate, the mode and, for live, the eligibility report.              *)
GateVerdict(active, permits) ==
    CASE active                                  -> "BLOCKED_KILL_SWITCH"
      [] ~active /\ gate # "READY"               -> "BLOCKED_NOT_RECONCILED"
      [] ~active /\ gate = "READY" /\ deployment.mode = "live" /\ ~permits
                                                 -> "BLOCKED_ELIGIBILITY"
      [] OTHER                                   -> "none"

(* submit_signal and submit_stop: the boundary gates, without an await.     *)
Submit(c, k) ==
    /\ calls[c] = Idle
    /\ \E active, permits \in BOOLEAN :
          /\ SwitchReads(active)
          /\ IF GateVerdict(active, permits) = "none"
             THEN Go(c, [at |-> "claim", key |-> k, why |-> "none",
                         stopped |-> switch \/ userStop])
             ELSE UNCHANGED calls
    /\ UNCHANGED <<durable, records, switch, market, system>>

(* Slip: an intent that never got past its claim may be submitted again.    *)
ClaimRetried(c) ==
    LET k == calls[c].key IN
    /\ At(c, "claim")
    /\ IF rows[k].status \in {"none", "INTENT_CREATED"}
       THEN /\ rows' = [rows EXCEPT ![k].status = "INTENT_CREATED"]
            /\ Proceed(c, "gates")
       ELSE UNCHANGED rows /\ Answer(c)
    /\ UNCHANGED <<booked, cash, userStop, records, switch, market, system>>

(* claim_idempotency_key: the insert wins the key once and for all; a       *)
(* database that fails blocks the order.                                    *)
Claim(c) ==
    LET k == calls[c].key IN
    /\ At(c, "claim")
    /\ \/ /\ rows[k].status = "none"
          /\ rows' = [rows EXCEPT ![k].status = "INTENT_CREATED"]
          /\ Proceed(c, "gates")
       \/ /\ rows[k].status # "none" \/ Fault("db")
          /\ UNCHANGED rows /\ Answer(c)
    /\ UNCHANGED <<booked, cash, userStop, records, switch, market, system>>

(* _persist_block follows, whatever the order manager's reason.             *)
Block(c, why) ==
    Go(c, [at |-> "block", key |-> calls[c].key, why |-> why, stopped |-> calls[c].stopped])

(* submit_order up to its save of SUBMITTED: every gate of validate_order,   *)
(* the kill switch once more, and no order in doubt in the symbol; then the  *)
(* order store takes the record, or raises.                                 *)
Gates(c) ==
    LET k == calls[c].key IN
    /\ At(c, "gates")
    /\ \/ /\ \E j \in Keys \ {k} : records[j] = "UNKNOWN"
          /\ Block(c, "BLOCKED_RISK") /\ UNCHANGED records
       \/ /\ Block(c, "BLOCKED_RISK")
          /\ records' = [records EXCEPT ![k] = "RISK_REJECTED"]
       \/ /\ ~switch
          /\ \A j \in Keys \ {k} : records[j] # "UNKNOWN"
          /\ records' = [records EXCEPT ![k] = "SUBMITTED"]
          /\ Proceed(c, "place")
       \/ Fault("store") /\ Block(c, "BLOCKED_RISK") /\ UNCHANGED records
    /\ UNCHANGED <<durable, switch, market, system>>

(* The broker takes the request: it refuses it, a stop rests, a market order *)
(* trades, in paper at once.  Paper refuses a sell of what is not held.      *)
Replies(k) ==
    IF deployment.mode = "paper" /\ Position + Signed(k) < 0 THEN {"REJECTED"}
    ELSE {"REJECTED"} \cup (IF k \in Stops THEN {"OPEN"}
                            ELSE IF deployment.mode = "paper" THEN {"COMPLETE"}
                            ELSE {"OPEN", "COMPLETE"})

Taken(k) ==
    \E s \in Replies(k) :
       market' = [market EXCEPT ![k] = [status |-> s, sent |-> @.sent + 1]]

(* place_order: the reply, or a lost reply, or a lost request.              *)
Place(c) ==
    LET k == calls[c].key IN
    /\ At(c, "place")
    /\ \/ Taken(k) /\ Proceed(c, "reply") /\ UNCHANGED records
       \/ /\ Fault("lost")
          /\ Taken(k) \/ UNCHANGED market
          /\ records' = [records EXCEPT ![k] = "UNKNOWN"]
          /\ Proceed(c, "resolve")
    /\ UNCHANGED <<durable, switch, system>>

(* The save of the reply.  If the order store fails the error is one of the  *)
(* "other exceptions" of _submit_to_broker.                                 *)
Reply(c) ==
    LET k == calls[c].key IN
    /\ At(c, "reply")
    /\ \/ /\ records' = [records EXCEPT ![k] = "ACKNOWLEDGED"]
          /\ Proceed(c, "attach")
       \/ Fault("store") /\ UNCHANGED records /\ Block(c, "BLOCKED_RISK")
    /\ UNCHANGED <<durable, switch, market, system>>

(* _resolve_unknown: only the order book says what became of the order.     *)
Resolve(c) ==
    LET k == calls[c].key IN
    /\ At(c, "resolve")
    /\ \/ /\ Fault("unread")
          /\ Block(c, "AMBIGUOUS") /\ UNCHANGED records
       \/ /\ market[k].sent = 0
          /\ records' = [records EXCEPT ![k] = "REJECTED"]
          /\ Block(c, "BLOCKED_RISK")
       \/ /\ market[k].sent > 0
          /\ records' = [records EXCEPT ![k] = "ACKNOWLEDGED"]
          /\ Proceed(c, "attach")
    /\ UNCHANGED <<durable, switch, market, system>>

(* record_block; it never raises into the order path.                       *)
RecordBlock(c) ==
    /\ At(c, "block")
    /\ \/ rows' = [rows EXCEPT ![calls[c].key].status =
                     IF calls[c].why = "AMBIGUOUS" THEN "UNKNOWN" ELSE "BLOCKED_RISK"]
       \/ Fault("db") /\ UNCHANGED rows
    /\ Answer(c)
    /\ UNCHANGED <<booked, cash, userStop, records, switch, market, system>>

(* attach_broker_order_id; a failure is logged and nothing is synced.       *)
Attach(c) ==
    /\ At(c, "attach")
    /\ \/ /\ rows' = [rows EXCEPT ![calls[c].key] = [status |-> "SUBMITTED", attached |-> TRUE]]
          /\ Proceed(c, "sync")
       \/ Fault("db") /\ UNCHANGED rows /\ Answer(c)
    /\ UNCHANGED <<booked, cash, userStop, records, switch, market, system>>

(* _apply_fill: the trade and the cash in one transaction.                  *)
Book(k) ==
    /\ booked' = booked \cup {k}
    /\ cash' = cash - Signed(k)

(* Slip: an accepted order is recorded as a filled one.                     *)
SyncAssumingFill(c) ==
    LET k == calls[c].key IN
    /\ At(c, "sync")
    /\ rows' = [rows EXCEPT ![k].status = "COMPLETE"]
    /\ Book(k)
    /\ Answer(c)
    /\ UNCHANGED <<userStop, records, switch, market, system>>

(* sync_from_broker, once, right after the submission: status, then trades,  *)
(* then one transaction.  A trade book that cannot be read is an empty one. *)
Sync(c) ==
    LET k == calls[c].key IN
    /\ At(c, "sync")
    /\ \/ /\ rows' = [rows EXCEPT ![k].status = market[k].status]
          /\ \/ IF market[k].status = "COMPLETE" THEN Book(k) ELSE UNCHANGED <<booked, cash>>
             \/ Fault("unread") /\ UNCHANGED <<booked, cash>>
       \/ /\ Fault("unread")
          /\ rows' = [rows EXCEPT ![k].status = "UNKNOWN"]
          /\ UNCHANGED <<booked, cash>>
       \/ /\ Fault("db")
          /\ UNCHANGED <<rows, booked, cash>>
    /\ Answer(c)
    /\ UNCHANGED <<userStop, records, switch, market, system>>

(* Cancelling a protective stop passes the switch and the gate only.        *)
StartCancel(c, k) ==
    /\ calls[c] = Idle
    /\ records[k] \in {"ACKNOWLEDGED", "CANCEL_PENDING"}
    /\ \E active \in BOOLEAN :
          /\ SwitchReads(active)
          /\ IF GateVerdict(active, TRUE) = "none"
             THEN /\ records' = [records EXCEPT ![k] = "CANCEL_PENDING"]
                  /\ Go(c, [Cancelling EXCEPT !.key = k])
             ELSE UNCHANGED <<records, calls>>
    /\ UNCHANGED <<durable, switch, market, system>>

(* The broker cancels a resting order, or says no, or the reply is lost.    *)
SendCancel(c) ==
    LET k == calls[c].key
        dead == [market EXCEPT ![k].status = "CANCELLED"]
    IN
    /\ At(c, "cancel")
    /\ \/ /\ market[k].status = "OPEN"
          /\ market' = dead
          /\ records' = [records EXCEPT ![k] = "CANCELLED"]
       \/ market[k].status # "OPEN" /\ UNCHANGED <<market, records>>
       \/ /\ Fault("lost")
          /\ UNCHANGED market \/ (market[k].status = "OPEN" /\ market' = dead)
          /\ records' = [records EXCEPT ![k] = "UNKNOWN"]
    /\ Answer(c)
    /\ UNCHANGED <<durable, switch, system>>

-----------------------------------------------------------------------------
(* Emergency flatten: switch, cancels, then the position                     *)

Flatten(c, override) ==
    /\ calls[c] = Idle
    /\ ~switch \/ override
    /\ switch' = TRUE
    /\ Proceed(c, "flatCancel")
    /\ UNCHANGED <<durable, records, market, system>>

(* The resting orders are cancelled together; each may fail on its own.      *)
FlattenCancels(c) ==
    LET resting == {k \in Keys : market[k].status = "OPEN"} IN
    /\ At(c, "flatCancel")
    /\ \E gone \in IF Fault("lost") THEN SUBSET resting ELSE {resting} :
          /\ market' = [k \in Keys |->
                          IF k \in gone THEN [market[k] EXCEPT !.status = "CANCELLED"] ELSE market[k]]
          /\ records' = [k \in Keys |-> IF k \in gone /\ records[k] = "ACKNOWLEDGED"
                                        THEN "CANCELLED" ELSE records[k]]
    /\ Proceed(c, "flatRead")
    /\ UNCHANGED <<durable, switch, system>>

(* Slip: the flatten order does not reserve its client order id.            *)
FlattenUnreserved(c) ==
    /\ At(c, "flatRead")
    /\ IF Position \in Sizes
       THEN /\ records' = [records EXCEPT ![FlatKey(Position)] = "SUBMITTED"]
            /\ Go(c, [Flattening EXCEPT !.key = FlatKey(Position)])
       ELSE UNCHANGED records /\ Answer(c)
    /\ UNCHANGED <<durable, switch, market, system>>

(* The position gives the order its id, reserved once per session.          *)
FlattenReads(c) ==
    /\ At(c, "flatRead")
    /\ IF Position \in Sizes /\ records[FlatKey(Position)] = "none"
       THEN /\ records' = [records EXCEPT ![FlatKey(Position)] = "SUBMITTED"]
            /\ Go(c, [Flattening EXCEPT !.key = FlatKey(Position)])
       ELSE UNCHANGED records /\ Answer(c)
    /\ UNCHANGED <<durable, switch, market, system>>

(* A market order for the whole position.                                   *)
FlattenPlaces(c) ==
    LET k == calls[c].key IN
    /\ At(c, "flatPlace")
    /\ Taken(k)
    /\ records' = [records EXCEPT ![k] = "ACKNOWLEDGED"]
    /\ Answer(c)
    /\ UNCHANGED <<durable, switch, system>>

-----------------------------------------------------------------------------
(* The broker, the operator and the process                                 *)

(* A resting order trades.                                                  *)
Execute(k) ==
    /\ market[k].status = "OPEN"
    /\ deployment.mode = "paper" => Position + Signed(k) >= 0
    /\ market' = [market EXCEPT ![k].status = "COMPLETE"]
    /\ UNCHANGED <<durable, records, switch, calls, system>>

(* The settings page: the database flag and the layer's store, together.  An *)
(* activation whose write raises is refused and the flag rolled back; the     *)
(* switch may be engaged, as its reason is written after it.                *)
Activate ==
    /\ switch' = TRUE
    /\ userStop' = TRUE \/ (Fault("probe") /\ UNCHANGED userStop)
    /\ UNCHANGED <<rows, booked, cash, records, market, calls, system>>

Deactivate ==
    /\ userStop' = FALSE
    /\ switch' = FALSE \/ (Fault("probe") /\ UNCHANGED switch)
    /\ UNCHANGED <<rows, booked, cash, records, market, calls, system>>

(* Slip: the switch of the layer lives in the process, with or without redis.*)
RestartForgetting ==
    /\ starts < MaxStarts /\ starts' = starts + 1
    /\ calls' = [c \in Callers |-> Idle]
    /\ gate' = "BLOCKED" /\ switch' = FALSE
    /\ IF deployment.redis THEN UNCHANGED records ELSE records' = [k \in Keys |-> "none"]
    /\ UNCHANGED <<durable, market, deployment>>

(* The process dies and is started again: without redis the order store and  *)
(* the switch are new; the gate is closed.                                  *)
Restart ==
    /\ starts < MaxStarts /\ starts' = starts + 1
    /\ calls' = [c \in Callers |-> Idle]
    /\ gate' = "BLOCKED"
    /\ IF deployment.redis THEN UNCHANGED <<records, switch>>
       ELSE records' = [k \in Keys |-> "none"] /\ switch' = FALSE
    /\ UNCHANGED <<durable, market, deployment>>

(* Startup recovery opens the gate (module StartupRecovery says when).       *)
OpenGate ==
    /\ gate = "BLOCKED" /\ gate' = "READY"
    /\ UNCHANGED <<durable, records, switch, market, calls, deployment, starts>>

(* A service is only constructed for a mode it is authorized for.           *)
Construct == {d \in Modes : d.mode = "live" => d.authorized}

Init ==
    /\ deployment \in Construct
    /\ rows = [k \in Signals |-> [status |-> "none", attached |-> FALSE]]
    /\ booked = {} /\ cash = Opening
    /\ records = [k \in Keys |-> "none"]
    /\ switch = FALSE /\ userStop = FALSE /\ gate = "BLOCKED"
    /\ market = [k \in Keys |-> [status |-> "none", sent |-> 0]]
    /\ calls = [c \in Callers |-> Idle]
    /\ starts = 0

Step(c) ==
    \/ Claim(c) \/ Gates(c) \/ Place(c) \/ Reply(c) \/ Resolve(c) \/ RecordBlock(c)
    \/ Attach(c) \/ Sync(c) \/ SendCancel(c)
    \/ FlattenCancels(c) \/ FlattenReads(c) \/ FlattenPlaces(c)

Call(c) ==
    \/ \E k \in Signals : Submit(c, k)
    \/ \E k \in Stops : StartCancel(c, k)
    \/ \E override \in BOOLEAN : Flatten(c, override)

Next ==
    \/ \E c \in Callers : Step(c) \/ Call(c)
    \/ \E k \in Keys : Execute(k)
    \/ Activate \/ Deactivate \/ Restart \/ OpenGate

Spec == Init /\ [][Next]_vars

-----------------------------------------------------------------------------
(* Properties                                                               *)

RecordStates == {"none", "SUBMITTED", "ACKNOWLEDGED", "RISK_REJECTED", "REJECTED", "UNKNOWN",
                 "CANCEL_PENDING", "CANCELLED"}

(* The type invariant: rows, records and orders are those of the signals and *)
(* the flatten orders, and a call at work has an order in hand.             *)
TypeOK ==
    /\ deployment \in Modes /\ (deployment.mode = "live" => deployment.authorized)
    /\ rows \in [Signals -> Row] /\ booked \subseteq Signals /\ cash \in Int
    /\ records \in [Keys -> RecordStates]
    /\ switch \in BOOLEAN /\ userStop \in BOOLEAN /\ gate \in {"BLOCKED", "RECOVERING", "READY"}
    /\ market \in [Keys -> Market] /\ starts \in Nat
    /\ calls \in [Callers -> Frames \cup {Idle}]
    /\ \A c \in Callers :
         /\ calls[c].at \in {"claim", "gates", "place", "reply", "resolve", "block", "attach", "sync"}
              => calls[c].key \in Signals
         /\ calls[c].at \in {"cancel", "flatPlace"} => calls[c].key \in Keys

(* The database claim alone makes a submission idempotent: one signal is     *)
(* sent at most once, by however many callers, retries and restarts, also    *)
(* where the order manager's records are forgotten with the process.        *)
OneOrderPerKey == \A k \in Signals : market[k].sent <= 1

(* The database tells the truth about the broker.  Nothing is at the broker  *)
(* that it does not know of; what it books has traded, cash and trades        *)
(* moving together; no row is further than the broker's order; and a row      *)
(* that says BLOCKED_RISK has none ("an order never reached the broker").    *)
BooksAreTrue ==
    /\ TypeOK
    /\ cash = Opening - Net(booked)
    /\ \A k \in Signals :
         /\ market[k].sent > 0 => rows[k].status \notin {"none", "BLOCKED_RISK"}
         /\ k \in booked \/ rows[k].status = "COMPLETE" => market[k].status = "COMPLETE"

(* "Both are now consulted, and either one stops trading" (bootstrap.py): no *)
(* order of a call that came in under an engaged switch is ever placed ...   *)
UserStopHolds == \A c \in Callers : calls[c].at = "place" => ~calls[c].stopped

(* ... which holds where the layer's switch survives a restart.             *)
StopHoldsWithRedis == deployment.redis => UserStopHolds

(* Two flattens of one position do not both sell it: the reservation of the  *)
(* derived order id is taken once, also by calls that overlap or restart.    *)
FlattenSentOnce ==
    deployment.redis => \A n \in Sizes : market[FlatKey(n)].sent <= 1

=============================================================================
