---------------------------- MODULE OrderManager ----------------------------
(***************************************************************************)
(* OrderManager (backend/app/execution/order_manager.py) over the durable  *)
(* RedisOrderStore (lifecycle.py) and a broker that may lose replies.      *)
(*                                                                         *)
(* A worker is one running call of submit_order, cancel_order,             *)
(* monitor_order, handle_fill or recover: an API request, a Celery task or *)
(* the trading loop.  A step runs from one await of the store or of the    *)
(* broker to the next, so workers interleave exactly where the coroutines  *)
(* and processes do.  Every read of the store yields a private copy        *)
(* (rec[p]); a save overwrites the durable record with that copy.          *)
(*                                                                         *)
(* One client order id is one intent to buy Qty shares.                    *)
(***************************************************************************)
EXTENDS OrderLifecycle, FiniteSetsExt

CONSTANTS
    Cids,         \* client order ids (also the broker tags)
    NoCid,        \* what an idle worker works on
    Workers,      \* concurrent calls
    Qty,          \* shares per order
    SymbolOf,     \* the symbol and the strategy of each order
    StrategyOf,
    Ops,          \* what happens: submit, cancel, monitor, fill, kill, crash, recover
    Faults,       \* what the broker link may do: lost, unread, odd, late, later_cancel, ioc
    Exclusive,    \* TRUE: one call at a time per order
    MaxPosition   \* bound: no fill message is handled beyond this position

ASSUME CidsAssumption == NoCid \notin Cids
ASSUME QtyAssumption == Qty \in Nat \ {0}

Symbols == { SymbolOf[c] : c \in Cids }

FillIds == {"immediate", "trade"} \X (1..Qty)

(* OrderRecord: what the store keeps of an intent. *)
Records ==
    [ state   : OrderStates \union {NoStatus},
      boid    : BOOLEAN,             \* the broker order id is known
      filled  : 0..Qty,
      applied : SUBSET FillIds ]

NoRecord  == [state |-> NoStatus, boid |-> FALSE, filled |-> 0, applied |-> {}]
NewRecord == [NoRecord EXCEPT !.state = "INTENT_CREATED"]

BrokerOrders == [status : BrokerStatuses \union {NoStatus}, filled : 0..Qty]
NoOrder      == [status |-> NoStatus, filled |-> 0]

Fills  == [id : FillIds, qty : 1..Qty]
NoFill == [id |-> <<"none", 0>>, qty |-> 0]

VARIABLES
    store,        \* durable: OrderRecord by client order id
    trades,       \* durable: the fills record_trade has logged
    position,     \* durable: shares booked per symbol
    book,         \* broker: the order carrying each tag
    wire,         \* broker: requests sent and not yet landed or lost
    sent,         \* history: how often place_order was called per intent
    pc, cid, rec, fill, seen,   \* each worker: next step and local variables
    phase,        \* running, crashed, recovering at startup, or startup aborted
    todo          \* recover: open records still to reconcile

durable    == <<store, trades, position>>
brokerVars == <<book, wire, sent>>
workerVars == <<pc, cid, rec, fill, seen>>
systemVars == <<phase, todo>>
vars       == <<durable, brokerVars, workerVars, systemVars>>

(* A durable save and where the call goes on after it. *)
SaveThen ==
  [ l \in {"savePending", "saveApproved", "saveSubmitted", "saveAcked",
           "saveAmbiguous", "saveFill", "saveCancelPending", "saveMonitor",
           "saveRecovered", "saveLast"} |->
      CASE l = "savePending"       -> "gates"
        [] l = "saveApproved"      -> "arm"
        [] l = "saveSubmitted"     -> "place"
        [] l = "saveAcked"         -> "poll"
        [] l = "saveAmbiguous"     -> "resolve"
        [] l = "saveFill"          -> "readPosition"
        [] l = "saveCancelPending" -> "sendCancel"
        [] l = "saveMonitor"       -> "monitor"
        [] l = "saveRecovered"     -> "recover"
        [] l = "saveLast"          -> "idle" ]

Labels ==
    DOMAIN SaveThen \union
      {"idle", "existing", "blocking", "gates", "arm", "place", "await", "poll",
       "resolve", "readFill", "logTrade", "readPosition", "writePosition",
       "sendCancel", "monitor", "monitorBlind",
       "recover", "recoverIntent", "recoverOrder"}

FillLabels == {"readFill", "logTrade", "saveFill", "readPosition", "writePosition"}

DurableTypeOK ==
    /\ store    \in [Cids -> Records]
    /\ trades   \subseteq Cids \X FillIds
    /\ position \in [Symbols -> Nat]

BrokerTypeOK ==
    /\ book \in [Cids -> BrokerOrders]
    /\ wire \subseteq Cids
    /\ sent \in [Cids -> Nat]

WorkerTypeOK ==
    /\ pc   \in [Workers -> Labels]
    /\ cid  \in [Workers -> Cids \union {NoCid}]
    /\ rec  \in [Workers -> Records]
    /\ fill \in [Workers -> Fills \union {NoFill}]
    /\ seen \in [Workers -> Nat]

SystemTypeOK ==
    /\ phase \in {"running", "crashed", "recovering", "aborted"}
    /\ todo  \subseteq Cids

(* A call has an order in hand; recover has one only while it works on it,  *)
(* and a fill call has its fill.                                            *)
HandsOK ==
    \A p \in Workers :
        /\ pc[p] \notin {"idle", "recover"} => cid[p] \in Cids
        /\ pc[p] \in FillLabels => fill[p] \in Fills

(* The type invariant: a record never holds more than the order's quantity, *)
(* a fill never more than was ordered, and no call writes without an order. *)
TypeOK == DurableTypeOK /\ BrokerTypeOK /\ WorkerTypeOK /\ SystemTypeOK /\ HandsOK

Init ==
    /\ store      = [c \in Cids |-> NoRecord]
    /\ trades     = {}
    /\ position   = [s \in Symbols |-> 0]
    /\ book       = [c \in Cids |-> NoOrder]
    /\ wire       = {}
    /\ sent       = [c \in Cids |-> 0]
    /\ pc         = [p \in Workers |-> "idle"]
    /\ cid        = [p \in Workers |-> NoCid]
    /\ rec        = [p \in Workers |-> NoRecord]
    /\ fill       = [p \in Workers |-> NoFill]
    /\ seen       = [p \in Workers |-> 0]
    /\ phase      = "running"
    /\ todo       = {}

-----------------------------------------------------------------------------
(* Control of a worker. *)

Goto(p, label) == pc' = [pc EXCEPT ![p] = label]

(* The call continues with record r in its hands. *)
Hold(p, r, label) ==
    /\ rec' = [rec EXCEPT ![p] = r]
    /\ Goto(p, label)
    /\ UNCHANGED <<cid, fill, seen>>

Enter(p, state, label) == Hold(p, [rec[p] EXCEPT !.state = state], label)

(* The call returns or raises: its locals are gone. *)
Return(p) ==
    /\ Goto(p, "idle")
    /\ cid'  = [cid  EXCEPT ![p] = NoCid]
    /\ rec'  = [rec  EXCEPT ![p] = NoRecord]
    /\ fill' = [fill EXCEPT ![p] = NoFill]
    /\ seen' = [seen EXCEPT ![p] = 0]

(* A new call on order c may start. *)
Free(p, c, op) ==
    /\ op \in Ops
    /\ phase = "running"
    /\ pc[p] = "idle"
    /\ Exclusive => \A q \in Workers : cid[q] # c

(* ... and starts with record r, read from the store. *)
Begin(p, c, r, label) ==
    /\ cid' = [cid EXCEPT ![p] = c]
    /\ rec' = [rec EXCEPT ![p] = r]
    /\ Goto(p, label)
    /\ UNCHANGED <<fill, seen>>

(* OrderStore.save, the last effect of the call for most callers. *)
Save(p) ==
    /\ pc[p] \in DOMAIN SaveThen
    /\ store' = [store EXCEPT ![cid[p]] = rec[p]]
    /\ IF SaveThen[pc[p]] = "idle"
       THEN Return(p)
       ELSE Hold(p, rec[p], SaveThen[pc[p]])
    /\ UNCHANGED <<trades, position, brokerVars, systemVars>>

-----------------------------------------------------------------------------
(* What a read of the broker returns about order c: its entry, or an entry *)
(* with a status the map does not know.                                    *)
Views(c) ==
    {book[c]} \union
        (IF "odd" \in Faults THEN {[book[c] EXCEPT !.status = NoStatus]} ELSE {})

Unreadable == "unread" \in Faults

Present(c) == book[c].status # NoStatus

(* get_orders was read and no entry carries the tag.  Unless requests may   *)
(* arrive late, a request on the wire has been decided by then.             *)
Missing(c) == ~Present(c) /\ (c \in wire => "late" \in Faults)

MappedState(view) == MapBrokerStatus(view.status, view.filled, Qty)

Live(c) == book[c].status \in LiveStatuses

-----------------------------------------------------------------------------
(* submit_order *)

(* Slip: a plain SET instead of SET NX. *)
ReserveAnyway(p, c) ==
    /\ Free(p, c, "submit")
    /\ store' = [store EXCEPT ![c] = NewRecord]
    /\ Begin(p, c, NewRecord, "blocking")
    /\ UNCHANGED <<trades, position, brokerVars, systemVars>>

(* reserve: SET NX of the new record. *)
Reserve(p, c) ==
    /\ Free(p, c, "submit")
    /\ store[c] = NoRecord
    /\ store' = [store EXCEPT ![c] = NewRecord]
    /\ Begin(p, c, NewRecord, "blocking")
    /\ UNCHANGED <<trades, position, brokerVars, systemVars>>

(* A retry of the intent: the reservation exists. *)
Resubmit(p, c) ==
    /\ Free(p, c, "submit")
    /\ store[c] # NoRecord
    /\ Begin(p, c, NoRecord, "existing")
    /\ UNCHANGED <<durable, brokerVars, systemVars>>

HandleExistingIntent(p) ==
    /\ pc[p] = "existing"
    /\ IF store[cid[p]].state \in BlockedStates
       THEN Hold(p, store[cid[p]], "resolve")
       ELSE Return(p)
    /\ UNCHANGED <<durable, brokerVars, systemVars>>

Blocks(d, c) ==
    /\ store[d].state \in BlockedStates
    /\ SymbolOf[d] = SymbolOf[c]
    /\ StrategyOf[d] = StrategyOf[c]

(* Slip: the orders in doubt are not looked for. *)
SkipBlocking(p) ==
    /\ pc[p] = "blocking"
    /\ Enter(p, "RISK_CHECK_PENDING", "savePending")
    /\ UNCHANGED <<durable, brokerVars, systemVars>>

CheckBlocking(p) ==
    /\ pc[p] = "blocking"
    /\ IF \E d \in Cids : Blocks(d, cid[p])
       THEN Enter(p, "RISK_REJECTED", "saveLast")
       ELSE Enter(p, "RISK_CHECK_PENDING", "savePending")
    /\ UNCHANGED <<durable, brokerVars, systemVars>>

(* Reference price, trade risk and the safety gates pass or refuse. *)
RunGates(p) ==
    /\ pc[p] = "gates"
    /\ \/ Enter(p, "RISK_APPROVED", "saveApproved")
       \/ Enter(p, "RISK_REJECTED", "saveLast")
    /\ UNCHANGED <<durable, brokerVars, systemVars>>

(* Slip: SUBMITTED is set in memory and saved after the broker call. *)
ArmUnsaved(p) ==
    /\ pc[p] = "arm"
    /\ \/ Enter(p, "SUBMITTED", "place")
       \/ Enter(p, "RISK_REJECTED", "saveLast")
    /\ UNCHANGED <<durable, brokerVars, systemVars>>

(* A triggered order without a trigger, or a broker without stops, is refused. *)
Arm(p) ==
    /\ pc[p] = "arm"
    /\ \/ Enter(p, "SUBMITTED", "saveSubmitted")
       \/ Enter(p, "RISK_REJECTED", "saveLast")
    /\ UNCHANGED <<durable, brokerVars, systemVars>>

PlaceOrder(p) ==
    /\ pc[p] = "place"
    /\ sent' = [sent EXCEPT ![cid[p]] = @ + 1]
    /\ wire' = wire \union {cid[p]}
    /\ Hold(p, rec[p], "await")
    /\ UNCHANGED <<durable, book, systemVars>>

PlaceAccepted(p) ==
    /\ pc[p] = "await"
    /\ Present(cid[p])
    /\ Hold(p, [rec[p] EXCEPT !.boid = TRUE, !.state = "ACKNOWLEDGED"], "saveAcked")
    /\ UNCHANGED <<durable, brokerVars, systemVars>>

(* Slip: an exception is taken for a refusal by the broker. *)
PlaceAssumedRejected(p) ==
    /\ pc[p] = "await"
    /\ Present(cid[p]) => "lost" \in Faults
    /\ cid[p] \in wire => "late" \in Faults
    /\ Enter(p, "REJECTED", "saveLast")
    /\ UNCHANGED <<durable, brokerVars, systemVars>>

(* place_order raised, or returned an empty order id. *)
PlaceAmbiguous(p) ==
    /\ pc[p] = "await"
    /\ Present(cid[p]) => "lost" \in Faults
    /\ cid[p] \in wire => "late" \in Faults
    /\ Enter(p, "UNKNOWN", "saveAmbiguous")
    /\ UNCHANGED <<durable, brokerVars, systemVars>>

(* _apply_any_immediate_fill, up to its call of handle_fill. *)
PollImmediate(p) ==
    /\ pc[p] = "poll"
    /\ LET filled == book[cid[p]].filled IN
       \/ /\ Unreadable \/ filled <= rec[p].filled
          /\ Return(p)
       \/ /\ filled > rec[p].filled
          /\ fill' = [fill EXCEPT ![p] =
                        [id |-> <<"immediate", filled>>, qty |-> filled - rec[p].filled]]
          /\ Goto(p, "readFill")
          /\ UNCHANGED <<cid, rec, seen>>
    /\ UNCHANGED <<durable, brokerVars, systemVars>>

(* Slip: an order book that cannot be read is taken for an empty one. *)
ResolveUnreadAsEmpty(p) ==
    /\ pc[p] = "resolve"
    /\ \/ /\ Unreadable \/ Missing(cid[p])
          /\ Enter(p, "REJECTED", "saveLast")
       \/ /\ Present(cid[p])
          /\ \E view \in Views(cid[p]) :
               LET state == MappedState(view)
                   found == [rec[p] EXCEPT !.boid = TRUE, !.filled = view.filled]
               IN /\ CanTransition("UNKNOWN", state, TRUE)
                  /\ Hold(p, [found EXCEPT !.state = state], "saveLast")
    /\ UNCHANGED <<durable, brokerVars, systemVars>>

(* Slip: an order found at the broker is taken for executed in full. *)
ResolveAsFilled(p) ==
    /\ pc[p] = "resolve"
    /\ \/ /\ Unreadable
          /\ Hold(p, rec[p], "saveLast")
       \/ /\ Missing(cid[p])
          /\ Enter(p, "REJECTED", "saveLast")
       \/ /\ Present(cid[p])
          /\ \E view \in Views(cid[p]) :
               /\ CanTransition("UNKNOWN", MappedState(view), TRUE)
               /\ Hold(p, [rec[p] EXCEPT !.boid = TRUE, !.state = MappedState(view),
                                        !.filled = Qty], "saveLast")
    /\ UNCHANGED <<durable, brokerVars, systemVars>>

(* _resolve_unknown: ask the order book for the tag. *)
ResolveUnknown(p) ==
    /\ pc[p] = "resolve"
    /\ \/ /\ Unreadable
          /\ Hold(p, rec[p], "saveLast")
       \/ /\ Missing(cid[p])
          /\ Enter(p, "REJECTED", "saveLast")
       \/ /\ Present(cid[p])
          /\ \E view \in Views(cid[p]) :
               LET state == MappedState(view)
                   found == [rec[p] EXCEPT !.boid = TRUE]
               IN IF state = "UNKNOWN"
                  THEN Hold(p, found, "saveLast")
                  ELSE IF CanTransition(rec[p].state, state, TRUE)
                  THEN Hold(p, [found EXCEPT !.state = state, !.filled = view.filled],
                            "saveLast")
                  ELSE Return(p)
    /\ UNCHANGED <<durable, brokerVars, systemVars>>

-----------------------------------------------------------------------------
(* handle_fill *)

(* A fill message for trade n of order c: the broker's stream delivers at   *)
(* least once and in any order.                                             *)
HandleFill(p, c, n) ==
    /\ Free(p, c, "fill")
    /\ n <= book[c].filled
    /\ position[SymbolOf[c]] < MaxPosition
    /\ cid'  = [cid  EXCEPT ![p] = c]
    /\ fill' = [fill EXCEPT ![p] = [id |-> <<"trade", n>>, qty |-> 1]]
    /\ Goto(p, "readFill")
    /\ UNCHANGED <<rec, seen, durable, brokerVars, systemVars>>

(* Slip: the fill ids already applied are not consulted. *)
ApplyFillAgain(p) ==
    /\ pc[p] = "readFill"
    /\ LET r == store[cid[p]] IN
       IF /\ r.state \notin BlockedStates \union {NoStatus}
          /\ r.filled + fill[p].qty <= Qty
       THEN Hold(p, [r EXCEPT !.filled = @ + fill[p].qty, !.applied = @ \union {fill[p].id}],
                 "logTrade")
       ELSE Return(p)
    /\ UNCHANGED <<durable, brokerVars, systemVars>>

(* Slip: an over-fill is not refused. *)
ApplyOverFill(p) ==
    /\ pc[p] = "readFill"
    /\ LET r == store[cid[p]] IN
       IF r.state \notin BlockedStates \union {NoStatus} /\ fill[p].id \notin r.applied
       THEN Hold(p, [r EXCEPT !.filled = @ + fill[p].qty, !.applied = @ \union {fill[p].id}],
                 "logTrade")
       ELSE Return(p)
    /\ UNCHANGED <<durable, brokerVars, systemVars>>

(* get_record and apply_fill; a blocked, unknown, duplicate or over-filling *)
(* message changes nothing.                                                 *)
ApplyFill(p) ==
    /\ pc[p] = "readFill"
    /\ LET r == store[cid[p]]
           f == fill[p]
       IN IF /\ r # NoRecord
             /\ r.state \notin BlockedStates
             /\ f.id \notin r.applied
             /\ r.filled + f.qty <= Qty
          THEN Hold(p, [r EXCEPT !.filled = @ + f.qty, !.applied = @ \union {f.id}],
                    "logTrade")
          ELSE Return(p)
    /\ UNCHANGED <<durable, brokerVars, systemVars>>

(* record_trade; a fill already in the log is only reported. *)
LogTrade(p) ==
    /\ pc[p] = "logTrade"
    /\ trades' = trades \union {<<cid[p], fill[p].id>>}
    /\ LET state == IF rec[p].filled = Qty THEN "FILLED" ELSE "PARTIALLY_FILLED"
       IN IF CanTransition(rec[p].state, state, FALSE)
          THEN Enter(p, state, "saveFill")
          ELSE Return(p)
    /\ UNCHANGED <<store, position, brokerVars, systemVars>>

(* RedisOrderStore.apply_position_delta: a GET, then a SET. *)
ReadPosition(p) ==
    /\ pc[p] = "readPosition"
    /\ seen' = [seen EXCEPT ![p] = position[SymbolOf[cid[p]]]]
    /\ Goto(p, "writePosition")
    /\ UNCHANGED <<cid, rec, fill, durable, brokerVars, systemVars>>

WritePosition(p) ==
    /\ pc[p] = "writePosition"
    /\ position' = [position EXCEPT ![SymbolOf[cid[p]]] = seen[p] + fill[p].qty]
    /\ Return(p)
    /\ UNCHANGED <<store, trades, brokerVars, systemVars>>

-----------------------------------------------------------------------------
(* cancel_order *)

(* A blocked or terminal order, or one that cannot be cancelled yet, is     *)
(* refused without a change: only the calls that go on are steps.           *)
CancelOrder(p, c) ==
    /\ Free(p, c, "cancel")
    /\ store[c] # NoRecord
    /\ \/ /\ store[c].state = "CANCEL_PENDING"
          /\ Begin(p, c, store[c], "sendCancel")
       \/ /\ CanTransition(store[c].state, "CANCEL_PENDING", FALSE)
          /\ Begin(p, c, [store[c] EXCEPT !.state = "CANCEL_PENDING"], "saveCancelPending")
    /\ UNCHANGED <<durable, brokerVars, systemVars>>

Cancellable(p) == rec[p].boid /\ Live(cid[p])

CancelTakes(p) ==
    /\ Cancellable(p)
    /\ \E s \in {"CANCELLED"} \union
                   (IF "later_cancel" \in Faults THEN {"CANCEL PENDING"} ELSE {}) :
         book' = [book EXCEPT ![cid[p]].status = s]

(* Slip: the broker's answer is not looked at. *)
SendCancelTrusting(p) ==
    /\ pc[p] = "sendCancel"
    /\ CancelTakes(p) \/ (~Cancellable(p) /\ UNCHANGED book)
    /\ Enter(p, "CANCELLED", "saveLast")
    /\ UNCHANGED <<durable, wire, sent, systemVars>>

SendCancel(p) ==
    /\ pc[p] = "sendCancel"
    /\ \/ /\ CancelTakes(p)                       \* the broker confirms
          /\ Enter(p, "CANCELLED", "saveLast")
       \/ /\ ~Cancellable(p)                      \* the broker declines
          /\ Return(p)
          /\ UNCHANGED book
       \/ /\ "lost" \in Faults                    \* the call fails, in effect or not
          /\ CancelTakes(p) \/ UNCHANGED book
          /\ \/ Enter(p, "UNKNOWN", "saveLast")   \* ... and raises
             \/ Return(p)                         \* ... and is reported as False
    /\ UNCHANGED <<durable, wire, sent, systemVars>>

-----------------------------------------------------------------------------
(* monitor_order *)

MonitorOrder(p, c) ==
    /\ Free(p, c, "monitor")
    /\ store[c].state \in OpenStates
    /\ Begin(p, c, store[c], "monitorBlind")
    /\ UNCHANGED <<durable, brokerVars, systemVars>>

(* get_order_status: without a broker order id the venue knows no order. *)
Polled(p) == IF rec[p].boid THEN Views(cid[p]) ELSE {NoOrder}

MonitorPoll(p) ==
    /\ pc[p] \in {"monitorBlind", "monitor"}
    /\ \E view \in Polled(p) :
         LET state == MappedState(view)
             r     == [rec[p] EXCEPT !.filled = view.filled]
         IN IF CanTransition(r.state, state, r.state \in BlockedStates) /\ state # r.state
            THEN Hold(p, [r EXCEPT !.state = state],
                      IF state \in BrokerTerminal THEN "saveLast" ELSE "saveMonitor")
            ELSE IF state \in BrokerTerminal
                 THEN Return(p)
                 ELSE Hold(p, r, "monitor")
    /\ UNCHANGED <<durable, brokerVars, systemVars>>

(* The deadline passes, without a single answer or after some. *)
MonitorTimeout(p) ==
    /\ \/ /\ pc[p] = "monitorBlind"
          /\ Unreadable
          /\ IF CanTransition(rec[p].state, "UNKNOWN", FALSE)
             THEN Enter(p, "UNKNOWN", "saveLast")
             ELSE Return(p)
       \/ /\ pc[p] = "monitor"
          /\ Return(p)
    /\ UNCHANGED <<durable, brokerVars, systemVars>>

-----------------------------------------------------------------------------
(* One process dies and its call with it, while the others go on. *)
Kill(p) ==
    /\ "kill" \in Ops
    /\ pc[p] # "idle"
    /\ phase = "running"
    /\ Return(p)
    /\ UNCHANGED <<durable, brokerVars, systemVars>>

(* A crash ends every call; the store and the broker remain.                *)
Crash ==
    /\ "crash" \in Ops
    /\ phase # "crashed"
    /\ pc'   = [p \in Workers |-> "idle"]
    /\ cid'  = [p \in Workers |-> NoCid]
    /\ rec'  = [p \in Workers |-> NoRecord]
    /\ fill' = [p \in Workers |-> NoFill]
    /\ seen' = [p \in Workers |-> 0]
    /\ phase' = "crashed"
    /\ todo' = {}
    /\ UNCHANGED <<durable, brokerVars>>

Restart ==
    /\ phase \in {"crashed", "aborted"}
    /\ phase' = IF "recover" \in Ops THEN "recovering" ELSE "running"
    /\ UNCHANGED <<durable, brokerVars, workerVars, todo>>

(* Slip: the orders in doubt are left out of the list. *)
RecoverUnblocked(p) ==
    /\ phase = "recovering"
    /\ \A q \in Workers : pc[q] = "idle"
    /\ Goto(p, "recover")
    /\ todo' = {c \in Cids : store[c].state \in OpenStates \ BlockedStates}
    /\ UNCHANGED <<cid, rec, fill, seen, durable, brokerVars, phase>>

(* recover: list_open, then each open record in turn. *)
RecoverStart(p) ==
    /\ phase = "recovering"
    /\ \A q \in Workers : pc[q] = "idle"
    /\ Goto(p, "recover")
    /\ todo' = {c \in Cids : store[c].state \in OpenStates}
    /\ UNCHANGED <<cid, rec, fill, seen, durable, brokerVars, phase>>

RecoverNext(p, c) ==
    /\ pc[p] = "recover"
    /\ c \in todo
    /\ todo' = todo \ {c}
    /\ Begin(p, c, store[c],
             IF store[c].state \in PreSubmitStates THEN "recoverIntent" ELSE "recoverOrder")
    /\ UNCHANGED <<durable, brokerVars, phase>>

RecoverDone(p) ==
    /\ pc[p] = "recover"
    /\ todo = {}
    /\ phase' = "running"
    /\ Return(p)
    /\ UNCHANGED <<durable, brokerVars, todo>>

(* An intent that stopped before SUBMITTED: closed, unless its tag is at    *)
(* the broker after all (_walk_to_submitted).                               *)
RecoverIntent(p) ==
    /\ pc[p] = "recoverIntent"
    /\ \/ /\ Unreadable \/ Missing(cid[p])
          /\ Enter(p, "RISK_REJECTED", "saveRecovered")
       \/ /\ Present(cid[p])
          /\ Enter(p, "SUBMITTED", "recoverOrder")
    /\ UNCHANGED <<durable, brokerVars, systemVars>>

(* Slip: the transition is not marked as reconciled. *)
SettleUnreconciled(p, r, state) ==
    IF CanTransition(r.state, state, FALSE)
    THEN Hold(p, [r EXCEPT !.state = state], "saveRecovered") /\ UNCHANGED systemVars
    ELSE Return(p) /\ phase' = "aborted" /\ todo' = {}

(* An illegal transition raises out of recover, and startup fails with it. *)
Settle(p, r, state) ==
    IF CanTransition(r.state, state, TRUE)
    THEN Hold(p, [r EXCEPT !.state = state], "saveRecovered") /\ UNCHANGED systemVars
    ELSE Return(p) /\ phase' = "aborted" /\ todo' = {}

RecoverOrder(p) ==
    /\ pc[p] = "recoverOrder"
    /\ \/ /\ Unreadable
          /\ IF rec[p].state = "UNKNOWN"
             THEN Hold(p, rec[p], "recover") /\ UNCHANGED systemVars
             ELSE Settle(p, rec[p], "UNKNOWN")
       \/ /\ Missing(cid[p])
          /\ Settle(p, rec[p], "REJECTED")
       \/ /\ Present(cid[p])
          /\ \E view \in Views(cid[p]) :
               LET state == MappedState(view)
                   r     == [rec[p] EXCEPT !.boid = TRUE, !.filled = view.filled]
               IN IF state = r.state
                  THEN Hold(p, r, "saveRecovered") /\ UNCHANGED systemVars
                  ELSE Settle(p, r, state)
    /\ UNCHANGED <<durable, brokerVars>>

-----------------------------------------------------------------------------
(* The broker (outside the repository). *)

SetOrder(c, status, filled) ==
    /\ book' = [book EXCEPT ![c] = [status |-> status, filled |-> filled]]
    /\ UNCHANGED <<durable, sent, workerVars, systemVars>>

Land(c) ==
    /\ c \in wire
    /\ wire' = wire \ {c}
    /\ \E s \in {"OPEN PENDING", "OPEN", "REJECTED"} : SetOrder(c, s, 0)

Lose(c) ==
    /\ c \in wire
    /\ "lost" \in Faults
    /\ wire' = wire \ {c}
    /\ UNCHANGED <<durable, book, sent, workerVars, systemVars>>

Open(c) ==
    /\ book[c].status = "OPEN PENDING"
    /\ \E s \in {"OPEN", "REJECTED"} : SetOrder(c, s, 0)
    /\ UNCHANGED wire

Execute(c) ==
    /\ book[c].status \in {"OPEN", "CANCEL PENDING"}
    /\ book[c].filled < Qty
    /\ LET filled == book[c].filled + 1 IN
       \E s \in IF filled = Qty THEN {"COMPLETE"}
                ELSE {book[c].status} \union
                       (IF "ioc" \in Faults THEN {"PARTIAL"} ELSE {}) :
          SetOrder(c, s, filled)
    /\ UNCHANGED wire

Finish(c) ==
    /\ \/ /\ book[c].status = "CANCEL PENDING"
          /\ SetOrder(c, "CANCELLED", book[c].filled)
       \/ /\ book[c].status = "OPEN"
          /\ SetOrder(c, "EXPIRED", book[c].filled)
    /\ UNCHANGED wire

-----------------------------------------------------------------------------
(* What a running call does next, and what starts a new one. *)
SubmitStep(p) ==
    \/ HandleExistingIntent(p) \/ CheckBlocking(p) \/ RunGates(p) \/ Arm(p)
    \/ PlaceOrder(p) \/ PlaceAccepted(p) \/ PlaceAmbiguous(p)
    \/ PollImmediate(p) \/ ResolveUnknown(p)

FillStep(p) == ApplyFill(p) \/ LogTrade(p) \/ ReadPosition(p) \/ WritePosition(p)

RecoverStep(p) ==
    \/ RecoverStart(p) \/ RecoverDone(p)
    \/ \E c \in Cids : RecoverNext(p, c)
    \/ RecoverIntent(p) \/ RecoverOrder(p)

Step(p) == \/ Save(p) \/ SubmitStep(p) \/ FillStep(p) \/ RecoverStep(p)
           \/ SendCancel(p) \/ MonitorPoll(p) \/ MonitorTimeout(p)

Call(p) ==
    \E c \in Cids :
        \/ Reserve(p, c) \/ Resubmit(p, c) \/ CancelOrder(p, c) \/ MonitorOrder(p, c)
        \/ \E n \in 1..Qty : HandleFill(p, c, n)

Broker == \E c \in Cids : Land(c) \/ Lose(c) \/ Open(c) \/ Execute(c) \/ Finish(c)

Next == (\E p \in Workers : Step(p) \/ Call(p) \/ Kill(p)) \/ Crash \/ Restart \/ Broker

Spec == Init /\ [][Next]_vars

(* A running call keeps going (the event loop is not starved), its deadline *)
(* passes, a request on the wire is decided and validated, and a service    *)
(* that is down is restarted.  Nobody has to call again, and the market     *)
(* owes nobody a fill.                                                      *)
Fairness ==
    /\ \A p \in Workers : WF_vars(Step(p)) /\ SF_vars(MonitorTimeout(p))
    /\ \A c \in Cids : WF_vars(Land(c)) /\ WF_vars(Open(c))
    /\ WF_vars(Restart)

FairSpec == Spec /\ Fairness

-----------------------------------------------------------------------------
(* Safety *)

(* order_manager.py: "place_order is called at most once per intent", over  *)
(* retries, crashes, recovery and every interleaving of calls.              *)
AtMostOnePlacement == \A c \in Cids : sent[c] <= 1

PastApproval == OrderStates \ (PreSubmitStates \union {"RISK_REJECTED"})

(* Nothing is sent to a broker before a durable record says so: whatever is *)
(* at the broker, or on its way, has a record that reached SUBMITTED.       *)
DurableBeforeBroker ==
    \A c \in Cids :
        Present(c) \/ c \in wire \/ sent[c] > 0 => store[c].state \in PastApproval

(* An order that can still execute is never written off: its record is open *)
(* and so is found by list_open after a restart.                            *)
LiveOrdersTracked ==
    \A c \in Cids : Live(c) => store[c].state \in OpenStates

(* A final state in the store is the broker's final state: REJECTED may     *)
(* also stand for an order the broker has never seen and never will.        *)
TerminalIsTrue ==
    \A c \in Cids :
        /\ store[c].state = "FILLED"    => book[c].status = "COMPLETE"
        /\ store[c].state = "CANCELLED" => book[c].status = "CANCELLED"
        /\ store[c].state = "EXPIRED"   => book[c].status = "EXPIRED"
        /\ store[c].state = "REJECTED"  =>
              book[c].status = "REJECTED" \/ (~Present(c) /\ c \notin wire)

(* The stage of an intent, as its caller sees it: what was sent stays sent,  *)
(* and until then the durable record tells.                                 *)
Stage(c) ==
    IF sent[c] > 0 THEN "sent"
    ELSE IF store[c].state = NoStatus THEN "none"
    ELSE IF store[c].state \in PreSubmitStates THEN "recorded"
    ELSE IF store[c].state = "RISK_REJECTED" THEN "refused"
    ELSE "armed"

Intent == INSTANCE OrderIntent WITH stage <- [c \in Cids |-> Stage(c)]

(* submit_order implements OrderIntent for any number of concurrent calls:  *)
(* retries, kills, crashes and recovery never send an intent twice, send it *)
(* before its durable record is armed, or revive one that was refused.      *)
ImplementsIntent == Intent!Spec

Closed(c) == store[c].state \in TerminalStates \ {"RISK_REJECTED"}

Outcome == INSTANCE OrderOutcome WITH
    stage    <- [c \in Cids |-> IF Closed(c) THEN "closed" ELSE Stage(c)],
    executed <- [c \in Cids |-> book[c].filled],
    known    <- [c \in Cids |-> store[c].filled]

(* The durable record implements OrderOutcome: lost replies, odd answers,   *)
(* cancellations, crashes and recovery never make it claim a share the      *)
(* broker has not executed, forget one it knew, close an order that can     *)
(* still execute, or reopen one (lifecycle.py: "Terminal states are         *)
(* terminal").                                                              *)
ImplementsOutcome == Outcome!Spec

FillQty(id) == IF id[1] = "immediate" THEN id[2] ELSE 1

(* The shares that fills have been booked for, by symbol, according to the  *)
(* records.                                                                 *)
Recorded(s) ==
    MapThenSumSet(LAMBDA c : MapThenSumSet(FillQty, store[c].applied),
                  {c \in Cids : SymbolOf[c] = s})

(* handle_fill: "a duplicate fill message changes neither the order nor the *)
(* position": no fill moves a position twice, whatever is redelivered.      *)
FillsBookedOnce == \A s \in Symbols : position[s] <= Recorded(s)

(* UNKNOWN "can only be left ... meaning the broker's order book was        *)
(* actually queried": a record leaves it with the order's broker id in hand *)
(* if the broker has the order, and as REJECTED if it never will.           *)
UnknownLeftOnEvidence ==
    [][\A c \in Cids :
          store[c].state = "UNKNOWN" /\ store'[c].state # "UNKNOWN" =>
             IF Present(c)
             THEN store'[c].boid
             ELSE store'[c].state = "REJECTED" /\ c \notin wire]_vars

(* While an order is UNKNOWN no new order for its symbol and strategy goes  *)
(* to the broker.                                                           *)
NoOrderBesideUnknown ==
    [][\A c \in Cids : sent'[c] > sent[c] => ~ \E d \in Cids \ {c} : Blocks(d, c)]_vars

(* Startup recovery with a readable order book leaves no order in doubt and *)
(* no intent half way to its submission.                                    *)
RecoveryLeavesNoDoubt ==
    [][phase = "recovering" /\ phase' = "running" =>
          \A c \in Cids : store[c].state \notin BlockedStates \union PreSubmitStates]_vars

(* Liveness *)

(* Everything comes to an end.  Every call returns: the monitor has its     *)
(* deadline, and a submission whose reply is lost asks the order book       *)
(* instead of waiting.  And once crashes stop, startup recovery completes,  *)
(* however the broker moves the orders meanwhile.                           *)
EverythingEnds ==
    /\ \A p \in Workers : pc[p] # "idle" ~> pc[p] = "idle"
    /\ <>[][~Crash]_vars => <>[](phase = "running")

=============================================================================
