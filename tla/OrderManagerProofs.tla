------------------------- MODULE OrderManagerProofs -------------------------
(* What holds of OrderManager for every set of orders, workers, operations *)
(* and faults, and that it implements its two abstract specifications.     *)
EXTENDS OrderManager, Sums, TLAPS

(* A broker status always reads as a state past approval, never as success *)
(* by default and never as a state from before the broker call.            *)
LEMMA MappedPastApproval ==
  ASSUME NEW status, NEW filled, NEW qty
  PROVE  MapBrokerStatus(status, filled, qty) \in PastApproval
BY DEF MapBrokerStatus, BrokerStatusMap, BrokerStatuses, LiveStatuses, DeadStatuses,
       PastApproval, OrderStates, OpenStates, PreSubmitStates, TerminalStates

LEMMA ViewType ==
  ASSUME BrokerTypeOK, NEW c \in Cids, NEW view \in Views(c)
  PROVE  view.filled \in 0..Qty
BY DEF BrokerTypeOK, Views, BrokerOrders

LEMMA PolledType ==
  ASSUME TypeOK, NEW p \in Workers, cid[p] \in Cids, NEW view \in Polled(p)
  PROVE  view.filled \in 0..Qty
<1>1. NoOrder.filled \in 0..Qty
  BY QtyAssumption DEF NoOrder
<1>. QED
  BY <1>1, ViewType DEF Polled, TypeOK

LEMMA PastApprovalStates == PastApproval \subseteq OrderStates
BY DEF PastApproval

LEMMA NoSharesType == 0 \in 0..Qty
BY QtyAssumption

(* Records stay records. *)
LEMMA NoRecordType == NoRecord \in Records /\ NewRecord \in Records
<1>1. 0 \in 0..Qty /\ "INTENT_CREATED" \in OrderStates /\ {} \in SUBSET FillIds
  BY QtyAssumption DEF OrderStates, OpenStates, PreSubmitStates
<1>2. NoRecord \in Records
  BY <1>1 DEF NoRecord, Records
<1>3. NewRecord \in Records
  BY <1>1, <1>2 DEF NewRecord, Records
<1>. QED
  BY <1>2, <1>3

LEMMA SetState ==
  ASSUME NEW r \in Records, NEW s \in OrderStates
  PROVE  [r EXCEPT !.state = s] \in Records
BY DEF Records

LEMMA SetFilled ==
  ASSUME NEW r \in Records, NEW n \in 0..Qty
  PROVE  [r EXCEPT !.filled = n] \in Records
BY DEF Records

LEMMA SetBoid ==
  ASSUME NEW r \in Records
  PROVE  [r EXCEPT !.boid = TRUE] \in Records
BY DEF Records

(* The three ways a worker moves keep its variables in their types. *)
LEMMA HoldType ==
  ASSUME TypeOK, NEW p \in Workers, NEW r \in Records, NEW l \in Labels,
         Hold(p, r, l), cid[p] \in Cids, l \in FillLabels => fill[p] \in Fills
  PROVE  WorkerTypeOK' /\ HandsOK'
BY DEF TypeOK, WorkerTypeOK, HandsOK, Hold, Goto

LEMMA EnterType ==
  ASSUME TypeOK, NEW p \in Workers, NEW s \in OrderStates, NEW l \in Labels,
         Enter(p, s, l), cid[p] \in Cids, l \in FillLabels => fill[p] \in Fills
  PROVE  WorkerTypeOK' /\ HandsOK'
<1>1. rec[p] \in Records
  BY DEF TypeOK, WorkerTypeOK
<1>. QED
  BY <1>1, SetState, HoldType DEF Enter

LEMMA ReturnType ==
  ASSUME TypeOK, NEW p \in Workers, Return(p)
  PROVE  WorkerTypeOK' /\ HandsOK'
<1>1. "idle" \in Labels /\ "idle" \notin FillLabels
  BY DEF Labels, FillLabels
<1>. QED
  BY <1>1, NoRecordType DEF TypeOK, WorkerTypeOK, HandsOK, Return, Goto

LEMMA BeginType ==
  ASSUME TypeOK, NEW p \in Workers, NEW c \in Cids, NEW r \in Records,
         NEW l \in Labels \ FillLabels, Begin(p, c, r, l)
  PROVE  WorkerTypeOK' /\ HandsOK'
BY DEF TypeOK, WorkerTypeOK, HandsOK, Begin, Goto

(* What a step leaves alone keeps its type. *)
LEMMA UnchangedTypes ==
  /\ DurableTypeOK /\ UNCHANGED durable => DurableTypeOK'
  /\ BrokerTypeOK /\ UNCHANGED brokerVars => BrokerTypeOK'
  /\ WorkerTypeOK /\ UNCHANGED workerVars => WorkerTypeOK'
  /\ HandsOK /\ UNCHANGED workerVars => HandsOK'
  /\ SystemTypeOK /\ UNCHANGED systemVars => SystemTypeOK'
BY DEF DurableTypeOK, durable, BrokerTypeOK, brokerVars, WorkerTypeOK, workerVars,
       HandsOK, SystemTypeOK, systemVars

LEMMA InitType == Init => TypeOK
<1>. SUFFICES ASSUME Init PROVE TypeOK
  OBVIOUS
<1>1. DurableTypeOK
  BY NoRecordType DEF Init, DurableTypeOK
<1>2. BrokerTypeOK
  BY QtyAssumption DEF Init, BrokerTypeOK, BrokerOrders, NoOrder
<1>3. WorkerTypeOK
  BY NoRecordType DEF Init, WorkerTypeOK, Labels
<1>4. SystemTypeOK /\ HandsOK
  BY DEF Init, SystemTypeOK, HandsOK, FillLabels
<1>. QED
  BY <1>1, <1>2, <1>3, <1>4 DEF TypeOK

LEMMA SaveType ==
  ASSUME TypeOK, NEW p \in Workers, Save(p)
  PROVE  TypeOK'
<1>1. cid[p] \in Cids /\ rec[p] \in Records /\ (pc[p] = "saveFill" => fill[p] \in Fills)
  BY DEF Save, SaveThen, TypeOK, WorkerTypeOK, HandsOK, FillLabels
<1>2. DurableTypeOK'
  BY <1>1 DEF Save, TypeOK, DurableTypeOK
<1>3. CASE SaveThen[pc[p]] = "idle"
  BY <1>2, <1>3, ReturnType, UnchangedTypes DEF Save, TypeOK
<1>4. CASE SaveThen[pc[p]] # "idle"
  <2>1. SaveThen[pc[p]] \in Labels /\ (SaveThen[pc[p]] \in FillLabels => pc[p] = "saveFill")
    BY DEF Save, SaveThen, Labels, FillLabels
  <2>. QED
    BY <1>1, <1>2, <1>4, <2>1, HoldType, UnchangedTypes DEF Save, TypeOK
<1>. QED
  BY <1>3, <1>4

(* A step of one worker that leaves the store, the broker and the phase alone. *)
LEMMA LocalType ==
  ASSUME TypeOK, UNCHANGED <<durable, brokerVars, systemVars>>, WorkerTypeOK' /\ HandsOK'
  PROVE  TypeOK'
BY UnchangedTypes DEF TypeOK

LEMMA ReturnLocalType ==
  ASSUME TypeOK, NEW p \in Workers, Return(p), UNCHANGED <<durable, brokerVars, systemVars>>
  PROVE  TypeOK'
BY ReturnType, LocalType

LEMMA EnterLocalType ==
  ASSUME TypeOK, NEW p \in Workers, NEW s \in OrderStates, NEW l \in Labels,
         Enter(p, s, l), cid[p] \in Cids, l \in FillLabels => fill[p] \in Fills,
         UNCHANGED <<durable, brokerVars, systemVars>>
  PROVE  TypeOK'
BY EnterType, LocalType

LEMMA HoldLocalType ==
  ASSUME TypeOK, NEW p \in Workers, NEW r \in Records, NEW l \in Labels,
         Hold(p, r, l), cid[p] \in Cids, l \in FillLabels => fill[p] \in Fills,
         UNCHANGED <<durable, brokerVars, systemVars>>
  PROVE  TypeOK'
BY HoldType, LocalType

LEMMA StateNames ==
  /\ {"RISK_REJECTED", "RISK_CHECK_PENDING", "RISK_APPROVED", "SUBMITTED", "ACKNOWLEDGED",
      "UNKNOWN", "REJECTED", "CANCELLED", "CANCEL_PENDING", "FILLED", "PARTIALLY_FILLED",
      "INTENT_CREATED"} \subseteq OrderStates
  /\ PastApproval \subseteq OrderStates
BY DEF OrderStates, OpenStates, PreSubmitStates, TerminalStates, PastApproval

LEMMA LabelNames ==
  /\ {"savePending", "saveApproved", "saveSubmitted", "saveAcked", "saveAmbiguous",
      "saveCancelPending", "saveMonitor", "saveRecovered", "saveLast", "idle", "existing",
      "blocking", "gates", "arm", "place", "await", "poll", "resolve", "sendCancel",
      "monitor", "monitorBlind", "recover", "recoverIntent", "recoverOrder"}
       \subseteq Labels \ FillLabels
  /\ FillLabels \subseteq Labels
BY DEF Labels, FillLabels, SaveThen

LEMMA SubmitType ==
  ASSUME TypeOK, NEW p \in Workers, SubmitStep(p)
  PROVE  TypeOK'
<1>. USE StateNames, LabelNames
<1>1. CASE HandleExistingIntent(p)
  <2>1. cid[p] \in Cids /\ store[cid[p]] \in Records
    BY <1>1 DEF HandleExistingIntent, TypeOK, HandsOK, DurableTypeOK
  <2>. QED
    BY <1>1, <2>1, HoldLocalType, ReturnLocalType DEF HandleExistingIntent
<1>2. CASE CheckBlocking(p)
  BY <1>2, EnterLocalType DEF CheckBlocking, TypeOK, HandsOK
<1>3. CASE RunGates(p)
  BY <1>3, EnterLocalType DEF RunGates, TypeOK, HandsOK
<1>4. CASE Arm(p)
  BY <1>4, EnterLocalType DEF Arm, TypeOK, HandsOK
<1>5. CASE PlaceOrder(p)
  <2>1. cid[p] \in Cids /\ rec[p] \in Records
    BY <1>5 DEF PlaceOrder, TypeOK, HandsOK, WorkerTypeOK
  <2>2. BrokerTypeOK'
    BY <1>5, <2>1 DEF PlaceOrder, TypeOK, BrokerTypeOK
  <2>3. WorkerTypeOK' /\ HandsOK'
    BY <1>5, <2>1, HoldType DEF PlaceOrder
  <2>. QED
    BY <1>5, <2>2, <2>3, UnchangedTypes DEF PlaceOrder, TypeOK
<1>6. CASE PlaceAccepted(p)
  <2>1. cid[p] \in Cids /\ rec[p] \in Records
    BY <1>6 DEF PlaceAccepted, TypeOK, HandsOK, WorkerTypeOK
  <2>2. [rec[p] EXCEPT !.boid = TRUE, !.state = "ACKNOWLEDGED"] \in Records
    BY <2>1 DEF Records
  <2>. QED
    BY <1>6, <2>1, <2>2, HoldLocalType DEF PlaceAccepted
<1>7. CASE PlaceAmbiguous(p)
  BY <1>7, EnterLocalType DEF PlaceAmbiguous, TypeOK, HandsOK
<1>8. CASE PollImmediate(p)
  <2>1. cid[p] \in Cids /\ rec[p] \in Records /\ book[cid[p]].filled \in 0..Qty
    BY <1>8 DEF PollImmediate, TypeOK, HandsOK, WorkerTypeOK, BrokerTypeOK, BrokerOrders
  <2>2. CASE Return(p)
    BY <1>8, <2>2, ReturnLocalType DEF PollImmediate
  <2>3. CASE ~Return(p)
    <3>. DEFINE filled == book[cid[p]].filled
                f == [id |-> <<"immediate", filled>>, qty |-> filled - rec[p].filled]
    <3>1. filled > rec[p].filled /\ fill' = [fill EXCEPT ![p] = f]
             /\ Goto(p, "readFill") /\ UNCHANGED <<cid, rec, seen>>
      BY <1>8, <2>3 DEF PollImmediate
    <3>2. rec[p].filled \in 0..Qty
      BY <2>1 DEF Records
    <3>3. f \in Fills
      BY <2>1, <3>1, <3>2, QtyAssumption DEF Fills, FillIds
    <3>4. WorkerTypeOK' /\ HandsOK'
      BY <2>1, <3>1, <3>3 DEF TypeOK, WorkerTypeOK, HandsOK, Goto, FillLabels
    <3>. QED
      BY <1>8, <3>4, LocalType DEF PollImmediate
  <2>. QED
    BY <2>2, <2>3
<1>9. CASE ResolveUnknown(p)
  <2>1. cid[p] \in Cids /\ rec[p] \in Records /\ TypeOK
    BY <1>9 DEF ResolveUnknown, TypeOK, HandsOK, WorkerTypeOK
  <2>2. UNCHANGED <<durable, brokerVars, systemVars>>
    BY <1>9 DEF ResolveUnknown
  <2>3. CASE Hold(p, rec[p], "saveLast")
    BY <2>1, <2>2, <2>3, HoldLocalType
  <2>4. CASE Enter(p, "REJECTED", "saveLast")
    BY <2>1, <2>2, <2>4, EnterLocalType
  <2>5. ASSUME NEW view \in Views(cid[p]),
               LET state == MappedState(view)
                   found == [rec[p] EXCEPT !.boid = TRUE]
               IN \/ Hold(p, found, "saveLast")
                  \/ Hold(p, [found EXCEPT !.state = state, !.filled = view.filled], "saveLast")
                  \/ Return(p)
        PROVE  TypeOK'
    <3>1. view.filled \in 0..Qty
      BY <2>1, ViewType DEF TypeOK
    <3>2. MappedState(view) \in OrderStates
      BY MappedPastApproval DEF MappedState
    <3>3. [rec[p] EXCEPT !.boid = TRUE] \in Records
      BY <2>1, SetBoid
    <3>4. [[rec[p] EXCEPT !.boid = TRUE] EXCEPT !.state = MappedState(view),
                                               !.filled = view.filled] \in Records
      BY <3>1, <3>2, <3>3 DEF Records
    <3>. QED
      BY <2>1, <2>2, <2>5, <3>3, <3>4, HoldLocalType, ReturnLocalType
  <2>. QED
    BY <1>9, <2>3, <2>4, <2>5 DEF ResolveUnknown
<1>. QED
  BY <1>1, <1>2, <1>3, <1>4, <1>5, <1>6, <1>7, <1>8, <1>9 DEF SubmitStep

LEMMA FillType ==
  ASSUME TypeOK, NEW p \in Workers, FillStep(p)
  PROVE  TypeOK'
<1>. USE StateNames, LabelNames
<1>1. CASE ApplyFill(p)
  <2>1. cid[p] \in Cids /\ store[cid[p]] \in Records /\ fill[p] \in Fills
    BY <1>1 DEF ApplyFill, TypeOK, HandsOK, DurableTypeOK, FillLabels
  <2>2. CASE Return(p)
    BY <1>1, <2>2, ReturnLocalType DEF ApplyFill
  <2>3. CASE ~Return(p)
    <3>. DEFINE r == store[cid[p]]
                applied == [r EXCEPT !.filled = @ + fill[p].qty,
                                     !.applied = @ \union {fill[p].id}]
    <3>1. r.filled + fill[p].qty <= Qty /\ Hold(p, applied, "logTrade")
      BY <1>1, <2>3 DEF ApplyFill
    <3>2. fill[p].qty \in 1..Qty /\ fill[p].id \in FillIds
      BY <2>1 DEF Fills
    <3>3. r.filled \in 0..Qty /\ r.applied \in SUBSET FillIds
      BY <2>1 DEF Records
    <3>4. r.filled + fill[p].qty \in 0..Qty
      BY <3>1, <3>2, <3>3, QtyAssumption
    <3>5. applied \in Records
      BY <2>1, <3>2, <3>3, <3>4 DEF Records
    <3>. QED
      BY <1>1, <2>1, <3>1, <3>5, HoldLocalType DEF ApplyFill, FillLabels
  <2>. QED
    BY <2>2, <2>3
<1>2. CASE LogTrade(p)
  <2>1. cid[p] \in Cids /\ fill[p] \in Fills /\ "saveFill" \in Labels
    BY <1>2 DEF LogTrade, TypeOK, HandsOK, FillLabels
  <2>2. DurableTypeOK'
    BY <1>2, <2>1 DEF LogTrade, TypeOK, DurableTypeOK, Fills
  <2>3. WorkerTypeOK' /\ HandsOK'
    BY <1>2, <2>1, EnterType, ReturnType DEF LogTrade
  <2>. QED
    BY <1>2, <2>2, <2>3, UnchangedTypes DEF LogTrade, TypeOK
<1>3. CASE ReadPosition(p)
  <2>1. cid[p] \in Cids /\ fill[p] \in Fills
    BY <1>3 DEF ReadPosition, TypeOK, HandsOK, FillLabels
  <2>2. position[SymbolOf[cid[p]]] \in Nat
    BY <2>1 DEF TypeOK, DurableTypeOK, Symbols
  <2>3. WorkerTypeOK' /\ HandsOK'
    BY <1>3, <2>1, <2>2
       DEF ReadPosition, TypeOK, WorkerTypeOK, HandsOK, Goto, FillLabels
  <2>. QED
    BY <1>3, <2>3, LocalType DEF ReadPosition
<1>4. CASE WritePosition(p)
  <2>1. cid[p] \in Cids /\ fill[p] \in Fills /\ seen[p] \in Nat
    BY <1>4 DEF WritePosition, TypeOK, HandsOK, FillLabels, WorkerTypeOK
  <2>2. seen[p] + fill[p].qty \in Nat
    BY <2>1, QtyAssumption DEF Fills
  <2>3. DurableTypeOK'
    BY <1>4, <2>2 DEF WritePosition, TypeOK, DurableTypeOK
  <2>. QED
    BY <1>4, <2>3, ReturnType, UnchangedTypes DEF WritePosition, TypeOK
<1>. QED
  BY <1>1, <1>2, <1>3, <1>4 DEF FillStep

LEMMA CancelMonitorType ==
  ASSUME TypeOK, NEW p \in Workers, SendCancel(p) \/ MonitorPoll(p) \/ MonitorTimeout(p)
  PROVE  TypeOK'
<1>. USE StateNames, LabelNames
<1>1. CASE SendCancel(p)
  <2>1. cid[p] \in Cids
    BY <1>1 DEF SendCancel, TypeOK, HandsOK
  <2>2. CancelTakes(p) \/ UNCHANGED book
    BY <1>1 DEF SendCancel
  <2>3. BrokerTypeOK'
    <3>1. CASE UNCHANGED book
      BY <1>1, <3>1 DEF SendCancel, TypeOK, BrokerTypeOK
    <3>2. CASE CancelTakes(p)
      <4>1. PICK s \in {"CANCELLED", "CANCEL PENDING"} :
                   book' = [book EXCEPT ![cid[p]].status = s]
        BY <3>2 DEF CancelTakes
      <4>2. s \in BrokerStatuses
        BY DEF BrokerStatuses, LiveStatuses, DeadStatuses
      <4>3. book' \in [Cids -> BrokerOrders]
        BY <2>1, <4>1, <4>2 DEF TypeOK, BrokerTypeOK, BrokerOrders
      <4>. QED
        BY <1>1, <4>3 DEF SendCancel, TypeOK, BrokerTypeOK
    <3>. QED
      BY <2>2, <3>1, <3>2
  <2>4. WorkerTypeOK' /\ HandsOK'
    BY <1>1, <2>1, EnterType, ReturnType DEF SendCancel
  <2>. QED
    BY <1>1, <2>3, <2>4, UnchangedTypes DEF SendCancel, TypeOK
<1>2. CASE MonitorPoll(p)
  <2>1. cid[p] \in Cids /\ rec[p] \in Records
    BY <1>2 DEF MonitorPoll, TypeOK, HandsOK, WorkerTypeOK
  <2>2. PICK view \in Polled(p) :
           LET state == MappedState(view)
               r     == [rec[p] EXCEPT !.filled = view.filled]
           IN \/ \E l \in {"saveLast", "saveMonitor"} : Hold(p, [r EXCEPT !.state = state], l)
              \/ Return(p)
              \/ Hold(p, r, "monitor")
    BY <1>2 DEF MonitorPoll
  <2>3. view.filled \in 0..Qty
    BY <2>1, PolledType
  <2>4. MappedState(view) \in OrderStates
    BY MappedPastApproval DEF MappedState
  <2>5. [rec[p] EXCEPT !.filled = view.filled] \in Records
    BY <2>1, <2>3, SetFilled
  <2>6. [[rec[p] EXCEPT !.filled = view.filled] EXCEPT !.state = MappedState(view)] \in Records
    BY <2>4, <2>5, SetState
  <2>. QED
    BY <1>2, <2>1, <2>2, <2>5, <2>6, HoldLocalType, ReturnLocalType DEF MonitorPoll
<1>3. CASE MonitorTimeout(p)
  BY <1>3, EnterLocalType, ReturnLocalType DEF MonitorTimeout, TypeOK, HandsOK
<1>. QED
  BY <1>1, <1>2, <1>3

LEMMA SettleType ==
  ASSUME TypeOK, NEW p \in Workers, NEW r \in Records, NEW s \in OrderStates,
         cid[p] \in Cids, Settle(p, r, s), UNCHANGED <<durable, brokerVars>>
  PROVE  TypeOK'
<1>1. CASE Hold(p, [r EXCEPT !.state = s], "saveRecovered") /\ UNCHANGED systemVars
  BY <1>1, SetState, LabelNames, HoldLocalType
<1>2. CASE Return(p) /\ phase' = "aborted" /\ todo' = {}
  BY <1>2, ReturnType, UnchangedTypes DEF TypeOK, SystemTypeOK
<1>. QED
  BY <1>1, <1>2 DEF Settle

LEMMA RecoverType ==
  ASSUME TypeOK, NEW p \in Workers, RecoverStep(p)
  PROVE  TypeOK'
<1>. USE StateNames, LabelNames
<1>1. CASE RecoverStart(p)
  <2>1. WorkerTypeOK' /\ HandsOK'
    BY <1>1 DEF RecoverStart, TypeOK, WorkerTypeOK, HandsOK, Goto, FillLabels
  <2>2. SystemTypeOK'
    BY <1>1 DEF RecoverStart, TypeOK, SystemTypeOK
  <2>. QED
    BY <1>1, <2>1, <2>2, UnchangedTypes DEF RecoverStart, TypeOK
<1>2. CASE RecoverDone(p)
  <2>1. SystemTypeOK'
    BY <1>2 DEF RecoverDone, TypeOK, SystemTypeOK
  <2>. QED
    BY <1>2, <2>1, ReturnType, UnchangedTypes DEF RecoverDone, TypeOK
<1>3. ASSUME NEW c \in Cids, RecoverNext(p, c) PROVE TypeOK'
  <2>1. store[c] \in Records
    BY DEF TypeOK, DurableTypeOK
  <2>2. SystemTypeOK'
    BY <1>3 DEF RecoverNext, TypeOK, SystemTypeOK
  <2>3. WorkerTypeOK' /\ HandsOK'
    BY <1>3, <2>1, BeginType DEF RecoverNext
  <2>. QED
    BY <1>3, <2>2, <2>3, UnchangedTypes DEF RecoverNext, TypeOK
<1>4. CASE RecoverIntent(p)
  BY <1>4, EnterLocalType DEF RecoverIntent, TypeOK, HandsOK
<1>5. CASE RecoverOrder(p)
  <2>1. cid[p] \in Cids /\ rec[p] \in Records
    BY <1>5 DEF RecoverOrder, TypeOK, HandsOK, WorkerTypeOK
  <2>2. UNCHANGED <<durable, brokerVars>>
    BY <1>5 DEF RecoverOrder
  <2>3. CASE Hold(p, rec[p], "recover") /\ UNCHANGED systemVars
    BY <2>1, <2>2, <2>3, HoldLocalType
  <2>4. ASSUME NEW s \in {"UNKNOWN", "REJECTED"}, Settle(p, rec[p], s)
        PROVE  TypeOK'
    BY <2>1, <2>2, <2>4, SettleType
  <2>5. ASSUME NEW view \in Views(cid[p]),
               LET state == MappedState(view)
                   r     == [rec[p] EXCEPT !.boid = TRUE, !.filled = view.filled]
               IN \/ Hold(p, r, "saveRecovered") /\ UNCHANGED systemVars
                  \/ Settle(p, r, state)
        PROVE  TypeOK'
    <3>1. view.filled \in 0..Qty
      BY <2>1, ViewType DEF TypeOK
    <3>2. MappedState(view) \in OrderStates
      BY MappedPastApproval DEF MappedState
    <3>3. [rec[p] EXCEPT !.boid = TRUE, !.filled = view.filled] \in Records
      BY <2>1, <3>1 DEF Records
    <3>. QED
      BY <2>1, <2>2, <2>5, <3>2, <3>3, HoldLocalType, SettleType
  <2>. QED
    BY <1>5, <2>3, <2>4, <2>5 DEF RecoverOrder
<1>. QED
  BY <1>1, <1>2, <1>3, <1>4, <1>5 DEF RecoverStep

LEMMA CallType ==
  ASSUME TypeOK, NEW p \in Workers, Call(p)
  PROVE  TypeOK'
<1>. USE StateNames, LabelNames, NoRecordType
<1>. PICK c \in Cids :
        \/ Reserve(p, c) \/ Resubmit(p, c) \/ CancelOrder(p, c) \/ MonitorOrder(p, c)
        \/ \E n \in 1..Qty : HandleFill(p, c, n)
  BY DEF Call
<1>0. store[c] \in Records
  BY DEF TypeOK, DurableTypeOK
<1>1. CASE Reserve(p, c)
  <2>1. DurableTypeOK'
    BY <1>1 DEF Reserve, TypeOK, DurableTypeOK
  <2>. QED
    BY <1>1, <2>1, BeginType, UnchangedTypes DEF Reserve, TypeOK
<1>2. CASE Resubmit(p, c)
  BY <1>2, BeginType, LocalType DEF Resubmit
<1>3. CASE CancelOrder(p, c)
  <2>1. [store[c] EXCEPT !.state = "CANCEL_PENDING"] \in Records
    BY <1>0, SetState
  <2>. QED
    BY <1>0, <1>3, <2>1, BeginType, LocalType DEF CancelOrder
<1>4. CASE MonitorOrder(p, c)
  BY <1>0, <1>4, BeginType, LocalType DEF MonitorOrder
<1>5. ASSUME NEW n \in 1..Qty, HandleFill(p, c, n) PROVE TypeOK'
  <2>1. [id |-> <<"trade", n>>, qty |-> 1] \in Fills
    BY QtyAssumption DEF Fills, FillIds
  <2>2. WorkerTypeOK' /\ HandsOK'
    BY <1>5, <2>1 DEF HandleFill, TypeOK, WorkerTypeOK, HandsOK, Goto, FillLabels
  <2>. QED
    BY <1>5, <2>2, LocalType DEF HandleFill
<1>. QED
  BY <1>1, <1>2, <1>3, <1>4, <1>5

LEMMA BrokerType ==
  ASSUME TypeOK, Broker
  PROVE  TypeOK'
<1>. PICK c \in Cids : Land(c) \/ Lose(c) \/ Open(c) \/ Execute(c) \/ Finish(c)
  BY DEF Broker
<1>1. book[c] \in BrokerOrders
  BY DEF TypeOK, BrokerTypeOK
<1>2. UNCHANGED <<durable, sent, workerVars, systemVars>>
  BY DEF Land, Lose, Open, Execute, Finish, SetOrder
<1>3. wire' \subseteq Cids
  BY DEF Land, Lose, Open, Execute, Finish, TypeOK, BrokerTypeOK
<1>4. book' \in [Cids -> BrokerOrders]
  <2>1. ASSUME NEW s \in BrokerStatuses, NEW n \in 0..Qty, SetOrder(c, s, n)
        PROVE  book' \in [Cids -> BrokerOrders]
    BY <2>1 DEF SetOrder, TypeOK, BrokerTypeOK, BrokerOrders
  <2>2. CASE Land(c) \/ Open(c)
    <3>1. PICK s \in {"OPEN PENDING", "OPEN", "REJECTED"} : SetOrder(c, s, 0)
      BY <2>2 DEF Land, Open
    <3>2. s \in BrokerStatuses
      BY <3>1 DEF BrokerStatuses, LiveStatuses, DeadStatuses
    <3>3. 0 \in 0..Qty
      BY NoSharesType
    <3>. QED
      BY <2>1, <3>1, <3>2, <3>3
  <2>3. CASE Lose(c)
    BY <2>3 DEF Lose, TypeOK, BrokerTypeOK
  <2>4. CASE Execute(c)
    <3>1. PICK s \in {"COMPLETE", book[c].status, "PARTIAL"} : SetOrder(c, s, book[c].filled + 1)
      BY <2>4 DEF Execute
    <3>2. s \in BrokerStatuses
      <4>1. book[c].status \in BrokerStatuses
        BY <2>4 DEF Execute, BrokerStatuses, LiveStatuses
      <4>. QED
        BY <3>1, <4>1 DEF BrokerStatuses, DeadStatuses
    <3>3. book[c].filled < Qty
      BY <2>4 DEF Execute
    <3>4. book[c].filled \in 0..Qty
      BY <1>1 DEF BrokerOrders
    <3>5. book[c].filled + 1 \in 0..Qty
      BY <3>3, <3>4, QtyAssumption
    <3>. QED
      BY <2>1, <3>1, <3>2, <3>5
  <2>5. CASE Finish(c)
    BY <1>1, <2>1, <2>5 DEF Finish, BrokerOrders, BrokerStatuses, LiveStatuses, DeadStatuses
  <2>. QED
    BY <2>2, <2>3, <2>4, <2>5
<1>. QED
  BY <1>2, <1>3, <1>4, UnchangedTypes DEF TypeOK, BrokerTypeOK

LEMMA NextType == TypeOK /\ [Next]_vars => TypeOK'
<1>. SUFFICES ASSUME TypeOK, [Next]_vars PROVE TypeOK'
  OBVIOUS
<1>1. ASSUME NEW p \in Workers, Step(p) PROVE TypeOK'
  BY <1>1, SaveType, SubmitType, FillType, RecoverType, CancelMonitorType DEF Step
<1>2. ASSUME NEW p \in Workers, Call(p) PROVE TypeOK'
  BY <1>2, CallType
<1>3. ASSUME NEW p \in Workers, Kill(p) PROVE TypeOK'
  BY <1>3, ReturnLocalType DEF Kill
<1>4. CASE Crash
  <2>1. "idle" \in Labels \ FillLabels
    BY LabelNames
  <2>2. WorkerTypeOK' /\ HandsOK'
    BY <1>4, <2>1, NoRecordType DEF Crash, WorkerTypeOK, HandsOK
  <2>3. SystemTypeOK'
    BY <1>4 DEF Crash, SystemTypeOK
  <2>. QED
    BY <1>4, <2>2, <2>3, UnchangedTypes DEF Crash, TypeOK
<1>5. CASE Restart
  <2>1. SystemTypeOK'
    BY <1>5 DEF Restart, TypeOK, SystemTypeOK
  <2>. QED
    BY <1>5, <2>1, UnchangedTypes DEF Restart, TypeOK
<1>6. CASE Broker
  BY <1>6, BrokerType
<1>7. CASE UNCHANGED vars
  BY <1>7, UnchangedTypes DEF vars, TypeOK
<1>. QED
  BY <1>1, <1>2, <1>3, <1>4, <1>5, <1>6, <1>7 DEF Next

(* Whatever the orders, calls and faults: a record never holds more shares  *)
(* than its order, a fill never more than was ordered, and no call writes   *)
(* without an order in hand (OrderRecord.apply_fill refuses an over-fill).  *)
THEOREM TypeCorrect == Spec => []TypeOK
<1>1. Init => TypeOK
  BY InitType
<1>2. TypeOK /\ [Next]_vars => TypeOK'
  BY NextType
<1>. QED
  BY <1>1, <1>2, PTL DEF Spec

-----------------------------------------------------------------------------
(* At most one placement per intent.                                        *)
(*                                                                          *)
(* AtMostOnePlacement is not inductive: it does not say who may still place *)
(* an order, nor what a call in flight will write into the record.  The     *)
(* strengthening does: the call that reserved an intent owns it until it    *)
(* has placed the order or given it up, the owner is unique and nothing has *)
(* been sent while it lasts, and every other call saves only states from    *)
(* after the broker call, so no record is ever taken back to a state from   *)
(* which it would be placed again or closed as never placed.                *)

RecoverLabels == {"recover", "recoverIntent", "recoverOrder", "saveRecovered"}

Owning ==
    {"blocking", "savePending", "gates", "saveApproved", "arm", "saveSubmitted", "place"}

Owns(p) ==
    pc[p] \in Owning \/ (pc[p] = "saveLast" /\ rec[p].state = "RISK_REJECTED")

OrderInv ==
    \A c \in Cids :
        /\ sent[c] <= 1
        /\ sent[c] > 0 => store[c].state \in PastApproval
        /\ Present(c) \/ c \in wire => sent[c] > 0

SoleOwner == \A p, q \in Workers : Owns(p) /\ Owns(q) /\ cid[p] = cid[q] => p = q

(* The owner's intent exists and has not been sent. *)
OwnerInv(p) ==
    Owns(p) =>
        /\ store[cid[p]].state # NoStatus
        /\ sent[cid[p]] = 0
        /\ rec[p].state # NoStatus

(* What a call is about to save, or has saved. *)
SaveInv(p) ==
    /\ pc[p] \in DOMAIN SaveThen =>
          \/ Owns(p)
          \/ rec[p].state \in PastApproval
          \/ pc[p] = "saveRecovered" /\ rec[p].state = "RISK_REJECTED" /\ sent[cid[p]] = 0
    /\ pc[p] \in {"saveSubmitted", "resolve"} => rec[p].state \in PastApproval
    /\ pc[p] = "place" => store[cid[p]].state \in PastApproval

(* Recovery runs alone. *)
AloneInv(p) ==
    /\ pc[p] \in RecoverLabels =>
          phase = "recovering" /\ \A q \in Workers \ {p} : pc[q] = "idle"
    /\ phase # "running" => pc[p] \in RecoverLabels \union {"idle"}
    /\ pc[p] = "recoverIntent" => store[cid[p]].state \in PreSubmitStates

PlacementInv ==
    /\ OrderInv
    /\ SoleOwner
    /\ \A p \in Workers : OwnerInv(p) /\ SaveInv(p) /\ AloneInv(p)

LEMMA StateClasses ==
  /\ {"SUBMITTED", "ACKNOWLEDGED", "PARTIALLY_FILLED", "CANCEL_PENDING", "UNKNOWN",
      "FILLED", "CANCELLED", "REJECTED", "EXPIRED"} \subseteq PastApproval
  /\ NoStatus \notin OrderStates /\ "RISK_REJECTED" \notin PastApproval
  /\ PreSubmitStates \intersect PastApproval = {}
  /\ BlockedStates \subseteq PastApproval
BY DEF PastApproval, OrderStates, OpenStates, PreSubmitStates, TerminalStates, NoStatus,
       BlockedStates

LEMMA InitPlacement == Init => PlacementInv
<1>. SUFFICES ASSUME Init PROVE PlacementInv
  OBVIOUS
<1>1. OrderInv
  BY DEF Init, OrderInv, Present, NoOrder
<1>2. \A p \in Workers : pc[p] = "idle" /\ phase = "running"
  BY DEF Init
<1>. QED
  BY <1>1, <1>2 DEF PlacementInv, SoleOwner, OwnerInv, SaveInv, AloneInv, Owns, Owning,
                    RecoverLabels, SaveThen

(* A step of one call that writes neither the store nor to the broker, and  *)
(* gains no ownership.                                                      *)
LEMMA LocalPlacement ==
  ASSUME TypeOK, PlacementInv, NEW p \in Workers,
         UNCHANGED <<store, brokerVars, phase>>,
         \A q \in Workers \ {p} : pc'[q] = pc[q] /\ cid'[q] = cid[q] /\ rec'[q] = rec[q],
         Owns(p)' => Owns(p) /\ cid'[p] = cid[p] /\ rec'[p].state # NoStatus,
         SaveInv(p)',
         pc[p] \in RecoverLabels \/ pc'[p] \notin RecoverLabels,
         pc[p] \notin RecoverLabels \/ pc'[p] \in RecoverLabels \union {"idle"},
         pc[p] = "idle" => phase = "running" \/ pc'[p] = "idle",
         pc'[p] = "recoverIntent" => store[cid'[p]].state \in PreSubmitStates
  PROVE  PlacementInv'
<1>1. OrderInv'
  BY DEF PlacementInv, OrderInv, brokerVars, Present
<1>2. \A q \in Workers \ {p} : (Owns(q)' <=> Owns(q)) /\ (SaveInv(q) => SaveInv(q)')
                               /\ (OwnerInv(q) => OwnerInv(q)')
  BY DEF Owns, OwnerInv, SaveInv, brokerVars
<1>3. SoleOwner'
  BY <1>2 DEF PlacementInv, SoleOwner
<1>4. OwnerInv(p)'
  BY DEF PlacementInv, OwnerInv, brokerVars
<1>5. \A q \in Workers : AloneInv(q)'
  BY DEF PlacementInv, AloneInv, RecoverLabels
<1>. QED
  BY <1>1, <1>2, <1>3, <1>4, <1>5 DEF PlacementInv

(* A call in hand, not part of recovery, implies that the system runs. *)
LEMMA CallsRun ==
  ASSUME PlacementInv, NEW p \in Workers, pc[p] \notin RecoverLabels \union {"idle"}
  PROVE  phase = "running"
BY DEF PlacementInv, AloneInv

(* The moves of one call, in the form LocalPlacement asks for. *)
LEMMA HoldMoves ==
  ASSUME TypeOK, NEW p \in Workers, NEW r, NEW l, Hold(p, r, l)
  PROVE  /\ \A q \in Workers \ {p} : pc'[q] = pc[q] /\ cid'[q] = cid[q] /\ rec'[q] = rec[q]
         /\ pc'[p] = l /\ rec'[p] = r /\ cid'[p] = cid[p]
BY DEF TypeOK, WorkerTypeOK, Hold, Goto

LEMMA EnterMoves ==
  ASSUME TypeOK, NEW p \in Workers, NEW s, NEW l, Enter(p, s, l)
  PROVE  /\ \A q \in Workers \ {p} : pc'[q] = pc[q] /\ cid'[q] = cid[q] /\ rec'[q] = rec[q]
         /\ pc'[p] = l /\ rec'[p].state = s /\ cid'[p] = cid[p]
<1>1. [rec[p] EXCEPT !.state = s].state = s
  BY DEF TypeOK, WorkerTypeOK, Records
<1>. QED
  BY <1>1, HoldMoves, ZenonT(60) DEF Enter

LEMMA ReturnMoves ==
  ASSUME TypeOK, NEW p \in Workers, Return(p)
  PROVE  /\ \A q \in Workers \ {p} : pc'[q] = pc[q] /\ cid'[q] = cid[q] /\ rec'[q] = rec[q]
         /\ pc'[p] = "idle"
BY DEF TypeOK, WorkerTypeOK, Return, Goto

LEMMA BeginMoves ==
  ASSUME TypeOK, NEW p \in Workers, NEW c, NEW r, NEW l, Begin(p, c, r, l)
  PROVE  /\ \A q \in Workers \ {p} : pc'[q] = pc[q] /\ cid'[q] = cid[q] /\ rec'[q] = rec[q]
         /\ pc'[p] = l /\ rec'[p] = r /\ cid'[p] = c
BY DEF TypeOK, WorkerTypeOK, Begin, Goto

(* A call that returns gives up whatever it owned. *)
LEMMA ReturnPlacement ==
  ASSUME TypeOK, PlacementInv, NEW p \in Workers, Return(p),
         UNCHANGED <<store, brokerVars, phase>>
  PROVE  PlacementInv'
<1>1. ~Owns(p)' /\ SaveInv(p)' /\ pc'[p] = "idle"
  BY ReturnMoves DEF Owns, Owning, SaveInv, SaveThen
<1>. QED
  BY <1>1, ReturnMoves, LocalPlacement DEF RecoverLabels

(* A call that is not the owner goes on, with a record from after the       *)
(* broker call whenever it is about to save one.                            *)
LEMMA ForeignPlacement ==
  ASSUME TypeOK, PlacementInv, NEW p \in Workers, NEW l,
         UNCHANGED <<store, brokerVars, phase>>,
         \A q \in Workers \ {p} : pc'[q] = pc[q] /\ cid'[q] = cid[q] /\ rec'[q] = rec[q],
         pc'[p] = l, l \notin Owning,
         l \in DOMAIN SaveThen \union {"resolve"} => rec'[p].state \in PastApproval,
         pc[p] = "idle" => phase = "running",
         l \in RecoverLabels <=> pc[p] \in RecoverLabels,
         l # "recoverIntent"
  PROVE  PlacementInv'
<1>1. ~Owns(p)'
  BY StateClasses DEF Owns, SaveThen
<1>2. SaveInv(p)'
  BY DEF SaveInv, SaveThen, Owning
<1>. QED
  BY <1>1, <1>2, LocalPlacement DEF RecoverLabels

(* The owner goes on towards the broker call, or gives the intent up. *)
LEMMA OwnerPlacement ==
  ASSUME TypeOK, PlacementInv, NEW p \in Workers, NEW s \in OrderStates, NEW l, Owns(p),
         Enter(p, s, l), UNCHANGED <<store, brokerVars, phase>>,
         l \in Owning \/ (l = "saveLast" /\ s = "RISK_REJECTED"), l # "place",
         l = "saveSubmitted" => s \in PastApproval
  PROVE  PlacementInv'
<1>1. pc'[p] = l /\ rec'[p].state = s /\ cid'[p] = cid[p]
  BY EnterMoves
<1>2. Owns(p)'
  BY <1>1 DEF Owns
<1>3. SaveInv(p)'
  BY <1>1, <1>2 DEF SaveInv, Owning
<1>4. pc[p] \notin RecoverLabels \union {"idle"} /\ l \notin RecoverLabels \union {"idle"}
  BY DEF Owns, Owning, RecoverLabels
<1>5. s # NoStatus
  BY StateClasses
<1>. QED
  BY <1>1, <1>2, <1>3, <1>4, <1>5, EnterMoves, LocalPlacement DEF RecoverLabels

LEMMA SavePlacement ==
  ASSUME TypeOK, PlacementInv, NEW p \in Workers, Save(p)
  PROVE  PlacementInv'
<1>. DEFINE c == cid[p]
<1>1. c \in Cids /\ pc[p] \in DOMAIN SaveThen
  BY DEF Save, SaveThen, TypeOK, HandsOK
<1>2. /\ store' = [store EXCEPT ![c] = rec[p]]
      /\ UNCHANGED <<brokerVars, phase>>
  BY DEF Save, systemVars
<1>3. store'[c] = rec[p] /\ \A d \in Cids \ {c} : store'[d] = store[d]
  BY <1>1, <1>2 DEF TypeOK, DurableTypeOK
<1>4. /\ pc'[p] = SaveThen[pc[p]]
      /\ pc'[p] # "idle" => cid'[p] = c /\ rec'[p] = rec[p]
      /\ \A q \in Workers \ {p} : pc'[q] = pc[q] /\ cid'[q] = cid[q] /\ rec'[q] = rec[q]
  <2>1. CASE SaveThen[pc[p]] = "idle"
    BY <2>1, ReturnMoves DEF Save
  <2>2. CASE SaveThen[pc[p]] # "idle"
    BY <2>2, HoldMoves DEF Save
  <2>. QED
    BY <2>1, <2>2
<1>5. \/ Owns(p) /\ sent[c] = 0
      \/ rec[p].state \in PastApproval
      \/ pc[p] = "saveRecovered" /\ sent[c] = 0
  BY <1>1 DEF PlacementInv, SaveInv, OwnerInv
<1>6. rec[p].state # NoStatus
  BY <1>1, StateClasses DEF PlacementInv, SaveInv, OwnerInv, NoStatus, PastApproval
<1>7. OrderInv'
  BY <1>2, <1>3, <1>5 DEF PlacementInv, OrderInv, brokerVars, Present
<1>8. Owns(p)' => Owns(p) /\ cid'[p] = c
  BY <1>1, <1>4 DEF Owns, Owning, SaveThen
<1>9. \A q \in Workers \ {p} : Owns(q)' <=> Owns(q)
  BY <1>4 DEF Owns
<1>10. SoleOwner'
  BY <1>4, <1>8, <1>9 DEF PlacementInv, SoleOwner
<1>11. \A q \in Workers : OwnerInv(q)'
  BY <1>2, <1>3, <1>4, <1>6, <1>8, <1>9, <1>1
     DEF PlacementInv, OwnerInv, brokerVars, Owns, Owning, TypeOK, WorkerTypeOK, HandsOK
<1>12. SaveInv(p)'
  <2>1. pc'[p] \notin DOMAIN SaveThen
    BY <1>1, <1>4 DEF SaveThen
  <2>2. pc'[p] = "resolve" => pc[p] = "saveAmbiguous"
    BY <1>1, <1>4 DEF SaveThen
  <2>3. pc'[p] = "place" => pc[p] = "saveSubmitted"
    BY <1>1, <1>4 DEF SaveThen
  <2>4. pc[p] \in {"saveAmbiguous", "saveSubmitted"} => rec[p].state \in PastApproval
    BY <1>1 DEF PlacementInv, SaveInv, Owns, Owning
  <2>5. pc'[p] # "saveSubmitted"
    BY <1>1, <1>4 DEF SaveThen
  <2>. QED
    BY <1>3, <1>4, <2>1, <2>2, <2>3, <2>4, <2>5 DEF SaveInv, SaveThen
<1>13. ASSUME NEW q \in Workers \ {p} PROVE SaveInv(q)'
  <2>1. pc[q] = "place" /\ cid[q] = c => rec[p].state \in PastApproval
    <3>. SUFFICES ASSUME pc[q] = "place", cid[q] = c PROVE rec[p].state \in PastApproval
      OBVIOUS
    <3>1. Owns(q) /\ ~Owns(p)
      BY DEF PlacementInv, SoleOwner, Owns, Owning
    <3>2. pc[p] # "saveRecovered"
      BY DEF PlacementInv, AloneInv, RecoverLabels
    <3>. QED
      BY <1>5, <3>1, <3>2
  <2>2. pc[q] = "place" => cid[q] \in Cids
    BY DEF TypeOK, HandsOK
  <2>. QED
    BY <1>2, <1>3, <1>4, <1>9, <2>1, <2>2 DEF PlacementInv, SaveInv, brokerVars
<1>14. pc'[p] \in RecoverLabels <=> pc[p] \in RecoverLabels
  BY <1>1, <1>4 DEF SaveThen, RecoverLabels
<1>15. ASSUME NEW q \in Workers PROVE AloneInv(q)'
  <2>1. pc'[q] # "recoverIntent" \/ (q # p /\ pc[q] = "recoverIntent")
    BY <1>1, <1>4 DEF SaveThen
  <2>2. q # p => pc[q] # "recoverIntent"
    BY <1>1 DEF PlacementInv, AloneInv, RecoverLabels, SaveThen
  <2>3. pc[p] \in RecoverLabels \/ phase = "running"
    BY <1>1, CallsRun DEF SaveThen
  <2>. QED
    BY <1>2, <1>4, <1>14, <2>1, <2>2, <2>3 DEF PlacementInv, AloneInv, RecoverLabels
<1>. QED
  BY <1>7, <1>10, <1>11, <1>12, <1>13, <1>15 DEF PlacementInv

LEMMA SubmitPlacement ==
  ASSUME TypeOK, PlacementInv, NEW p \in Workers, SubmitStep(p)
  PROVE  PlacementInv'
<1>. USE StateNames
<1>1. CASE HandleExistingIntent(p)
  <2>1. CASE Return(p)
    BY <1>1, <2>1, ReturnPlacement DEF HandleExistingIntent, systemVars, durable
  <2>2. CASE store[cid[p]].state \in BlockedStates /\ Hold(p, store[cid[p]], "resolve")
    BY <1>1, <2>2, HoldMoves, ForeignPlacement, StateClasses, CallsRun
       DEF HandleExistingIntent, systemVars, durable, Owning, RecoverLabels
  <2>. QED
    BY <1>1, <2>1, <2>2 DEF HandleExistingIntent
<1>2. CASE CheckBlocking(p)
  BY <1>2, OwnerPlacement DEF CheckBlocking, systemVars, durable, Owns, Owning
<1>3. CASE RunGates(p)
  BY <1>3, OwnerPlacement DEF RunGates, systemVars, durable, Owns, Owning
<1>4. CASE Arm(p)
  BY <1>4, OwnerPlacement, StateClasses DEF Arm, systemVars, durable, Owns, Owning
<1>5. CASE PlaceOrder(p)
  <2>. DEFINE c == cid[p]
  <2>1. c \in Cids /\ Owns(p) /\ sent[c] = 0 /\ store[c].state \in PastApproval
    BY <1>5 DEF PlaceOrder, TypeOK, HandsOK, PlacementInv, OwnerInv, SaveInv, Owns, Owning
  <2>2. /\ sent' = [sent EXCEPT ![c] = 1]
        /\ wire' = wire \union {c}
        /\ UNCHANGED <<store, book, phase>>
    BY <1>5, <2>1 DEF PlaceOrder, durable, systemVars
  <2>3. /\ pc'[p] = "await"
        /\ \A q \in Workers \ {p} : pc'[q] = pc[q] /\ cid'[q] = cid[q] /\ rec'[q] = rec[q]
    BY <1>5, HoldMoves DEF PlaceOrder
  <2>4. OrderInv'
    BY <2>1, <2>2 DEF PlacementInv, OrderInv, Present, TypeOK, BrokerTypeOK
  <2>5. ~Owns(p)' /\ \A q \in Workers \ {p} : Owns(q)' <=> Owns(q)
    BY <2>3 DEF Owns, Owning
  <2>6. SoleOwner'
    BY <2>3, <2>5 DEF PlacementInv, SoleOwner
  <2>7. \A q \in Workers : OwnerInv(q)'
    BY <2>1, <2>2, <2>3, <2>5
       DEF PlacementInv, SoleOwner, OwnerInv, TypeOK, BrokerTypeOK, WorkerTypeOK
  <2>8. phase = "running"
    BY <1>5, CallsRun DEF PlaceOrder, RecoverLabels
  <2>9. \A q \in Workers : pc[q] # "saveRecovered"
    BY <2>8 DEF PlacementInv, AloneInv, RecoverLabels
  <2>10. \A q \in Workers : SaveInv(q)'
    BY <2>2, <2>3, <2>5, <2>9 DEF PlacementInv, SaveInv, SaveThen
  <2>11. \A q \in Workers : AloneInv(q)'
    BY <2>2, <2>3, <2>8 DEF PlacementInv, AloneInv, RecoverLabels
  <2>. QED
    BY <2>4, <2>6, <2>7, <2>10, <2>11 DEF PlacementInv
<1>6. CASE PlaceAccepted(p)
  <2>. DEFINE r == [rec[p] EXCEPT !.boid = TRUE, !.state = "ACKNOWLEDGED"]
  <2>1. r.state \in PastApproval
    BY StateClasses DEF TypeOK, WorkerTypeOK, Records
  <2>2. UNCHANGED <<store, brokerVars, phase>> /\ pc[p] = "await" /\ Hold(p, r, "saveAcked")
    BY <1>6 DEF PlaceAccepted, systemVars, durable
  <2>. HIDE DEF r
  <2>. QED
    BY <2>1, <2>2, HoldMoves, ForeignPlacement DEF Owning, RecoverLabels
<1>7. CASE PlaceAmbiguous(p)
  BY <1>7, EnterMoves, ForeignPlacement, StateClasses
     DEF PlaceAmbiguous, systemVars, durable, Owning, RecoverLabels
<1>8. CASE PollImmediate(p)
  <2>1. UNCHANGED <<store, brokerVars, phase>> /\ pc[p] = "poll"
    BY <1>8 DEF PollImmediate, systemVars, durable
  <2>2. CASE Return(p)
    BY <2>1, <2>2, ReturnPlacement
  <2>3. CASE Goto(p, "readFill") /\ UNCHANGED <<cid, rec>>
    BY <2>1, <2>3, ForeignPlacement
       DEF Goto, Owning, RecoverLabels, SaveThen, TypeOK, WorkerTypeOK
  <2>. QED
    BY <1>8, <2>2, <2>3 DEF PollImmediate
<1>9. CASE ResolveUnknown(p)
  <2>1. UNCHANGED <<store, brokerVars, phase>> /\ pc[p] = "resolve" /\ rec[p] \in Records
    BY <1>9 DEF ResolveUnknown, systemVars, durable, TypeOK, WorkerTypeOK
  <2>2. rec[p].state \in PastApproval
    BY <2>1 DEF PlacementInv, SaveInv
  <2>3. CASE Return(p)
    BY <2>1, <2>3, ReturnPlacement
  <2>4. ASSUME NEW r \in Records, r.state \in PastApproval, Hold(p, r, "saveLast")
        PROVE  PlacementInv'
    BY <2>1, <2>4, HoldMoves, ForeignPlacement DEF Owning, RecoverLabels
  <2>5. CASE Enter(p, "REJECTED", "saveLast")
    BY <2>1, <2>5, EnterMoves, ForeignPlacement, StateClasses DEF Owning, RecoverLabels
  <2>6. ASSUME NEW view \in Views(cid[p]),
               LET state == MappedState(view)
                   found == [rec[p] EXCEPT !.boid = TRUE]
               IN \/ Hold(p, found, "saveLast")
                  \/ Hold(p, [found EXCEPT !.state = state, !.filled = view.filled], "saveLast")
        PROVE  PlacementInv'
    <3>. DEFINE found == [rec[p] EXCEPT !.boid = TRUE]
                moved == [found EXCEPT !.state = MappedState(view), !.filled = view.filled]
    <3>0. cid[p] \in Cids
      BY <2>1 DEF TypeOK, HandsOK
    <3>1. view.filled \in 0..Qty
      BY <3>0, ViewType DEF TypeOK
    <3>2. MappedState(view) \in PastApproval
      BY MappedPastApproval DEF MappedState
    <3>3. found \in Records /\ found.state \in PastApproval
      BY <2>1, <2>2, SetBoid DEF Records
    <3>4. moved \in Records /\ moved.state \in PastApproval
      BY <3>1, <3>2, <3>3 DEF Records
    <3>. QED
      BY <2>4, <2>6, <3>3, <3>4
  <2>. QED
    BY <1>9, <2>1, <2>2, <2>3, <2>4, <2>5, <2>6 DEF ResolveUnknown
<1>. QED
  BY <1>1, <1>2, <1>3, <1>4, <1>5, <1>6, <1>7, <1>8, <1>9 DEF SubmitStep

LEMMA FillPlacement ==
  ASSUME TypeOK, PlacementInv, NEW p \in Workers, FillStep(p)
  PROVE  PlacementInv'
<1>1. UNCHANGED <<store, brokerVars, phase>> /\ pc[p] \in FillLabels
  BY DEF FillStep, ApplyFill, LogTrade, ReadPosition, WritePosition, durable, systemVars,
         FillLabels
<1>2. pc[p] \notin RecoverLabels \union {"idle"}
  BY <1>1 DEF FillLabels, RecoverLabels
<1>3. CASE Return(p)
  BY <1>1, <1>3, ReturnPlacement
<1>4. CASE ApplyFill(p) /\ ~Return(p)
  <2>1. PICK r : Hold(p, r, "logTrade")
    BY <1>4 DEF ApplyFill
  <2>. QED
    BY <1>1, <1>2, <2>1, HoldMoves, ForeignPlacement DEF Owning, RecoverLabels, SaveThen
<1>5. CASE LogTrade(p) /\ ~Return(p)
  <2>1. PICK s \in {"FILLED", "PARTIALLY_FILLED"} : Enter(p, s, "saveFill")
    BY <1>5 DEF LogTrade
  <2>2. s \in PastApproval
    BY <2>1, StateClasses
  <2>. QED
    BY <1>1, <1>2, <2>1, <2>2, EnterMoves, ForeignPlacement DEF Owning, RecoverLabels
<1>6. CASE ReadPosition(p)
  BY <1>1, <1>2, <1>6, ForeignPlacement
     DEF ReadPosition, Goto, Owning, RecoverLabels, SaveThen, TypeOK, WorkerTypeOK
<1>7. CASE WritePosition(p)
  BY <1>3, <1>7 DEF WritePosition
<1>. QED
  BY <1>3, <1>4, <1>5, <1>6, <1>7 DEF FillStep

LEMMA MonitorPlacement ==
  ASSUME TypeOK, PlacementInv, NEW p \in Workers, MonitorPoll(p) \/ MonitorTimeout(p)
  PROVE  PlacementInv'
<1>. USE StateNames
<1>1. UNCHANGED <<store, brokerVars, phase>> /\ pc[p] \in {"monitorBlind", "monitor"}
  BY DEF MonitorPoll, MonitorTimeout, durable, systemVars
<1>2. CASE Return(p)
  BY <1>1, <1>2, ReturnPlacement
<1>3. CASE MonitorPoll(p) /\ ~Return(p)
  <2>1. PICK view \in Polled(p) :
           LET state == MappedState(view)
               r     == [rec[p] EXCEPT !.filled = view.filled]
           IN \/ \E l \in {"saveLast", "saveMonitor"} : Hold(p, [r EXCEPT !.state = state], l)
              \/ Hold(p, r, "monitor")
    BY <1>3 DEF MonitorPoll
  <2>. DEFINE state == MappedState(view)
              r     == [rec[p] EXCEPT !.filled = view.filled]
              moved == [r EXCEPT !.state = state]
  <2>2. state \in PastApproval
    BY MappedPastApproval DEF MappedState
  <2>3. moved.state = state
    BY DEF TypeOK, WorkerTypeOK, Records
  <2>. HIDE DEF state, r, moved
  <2>4. ASSUME NEW l \in {"saveLast", "saveMonitor"}, Hold(p, moved, l) PROVE PlacementInv'
    BY <1>1, <2>2, <2>3, <2>4, HoldMoves, ForeignPlacement DEF Owning, RecoverLabels
  <2>5. CASE Hold(p, r, "monitor")
    BY <1>1, <2>5, HoldMoves, ForeignPlacement DEF Owning, RecoverLabels, SaveThen
  <2>. QED
    BY <2>1, <2>4, <2>5 DEF state, r, moved
<1>4. CASE MonitorTimeout(p) /\ ~Return(p)
  <2>1. Enter(p, "UNKNOWN", "saveLast") /\ "UNKNOWN" \in PastApproval
    BY <1>4, StateClasses DEF MonitorTimeout
  <2>. QED
    BY <1>1, <2>1, EnterMoves, ForeignPlacement DEF Owning, RecoverLabels
<1>. QED
  BY <1>2, <1>3, <1>4

(* The broker moves orders it has; none appears that was not on the wire. *)
LEMMA BrokerPlacement ==
  ASSUME TypeOK, PlacementInv,
         UNCHANGED <<store, sent, pc, cid, rec, phase>>,
         wire' \subseteq wire,
         \A c \in Cids : Present(c)' => Present(c) \/ c \in wire
  PROVE  PlacementInv'
<1>1. OrderInv'
  BY DEF PlacementInv, OrderInv
<1>2. SoleOwner'
  BY DEF PlacementInv, SoleOwner, Owns
<1>3. ASSUME NEW p \in Workers PROVE OwnerInv(p)' /\ SaveInv(p)' /\ AloneInv(p)'
  BY DEF PlacementInv, OwnerInv, SaveInv, AloneInv, Owns
<1>. QED
  BY <1>1, <1>2, <1>3 DEF PlacementInv

LEMMA BrokerStepPlacement ==
  ASSUME TypeOK, PlacementInv, Broker
  PROVE  PlacementInv'
<1>1. PICK c \in Cids : Land(c) \/ Lose(c) \/ Open(c) \/ Execute(c) \/ Finish(c)
  BY DEF Broker
<1>2. UNCHANGED <<store, sent, pc, cid, rec, phase>> /\ wire' \subseteq wire
  BY <1>1 DEF Land, Lose, Open, Execute, Finish, SetOrder, durable, workerVars, systemVars
<1>3. \A d \in Cids \ {c} : book'[d] = book[d]
  BY <1>1 DEF Land, Lose, Open, Execute, Finish, SetOrder, TypeOK, BrokerTypeOK
<1>4. c \in wire \/ Present(c) \/ UNCHANGED book
  BY <1>1 DEF Land, Lose, Open, Execute, Finish, Present, NoStatus
<1>. QED
  BY <1>2, <1>3, <1>4, BrokerPlacement DEF Present

LEMMA SendCancelPlacement ==
  ASSUME TypeOK, PlacementInv, NEW p \in Workers, SendCancel(p)
  PROVE  PlacementInv'
<1>. USE StateNames
<1>1. UNCHANGED <<store, wire, sent, phase>> /\ pc[p] = "sendCancel" /\ cid[p] \in Cids
  BY DEF SendCancel, durable, systemVars, TypeOK, HandsOK
<1>2. \A c \in Cids : Present(c)' => Present(c)
  BY <1>1 DEF SendCancel, CancelTakes, Cancellable, Live, LiveStatuses, Present, NoStatus,
              TypeOK, BrokerTypeOK
<1>3. \/ Return(p)
      \/ \E s \in {"CANCELLED", "UNKNOWN"} : Enter(p, s, "saveLast")
  BY DEF SendCancel
<1>4. /\ \A q \in Workers \ {p} : pc'[q] = pc[q] /\ cid'[q] = cid[q] /\ rec'[q] = rec[q]
      /\ pc'[p] = "idle" \/ (pc'[p] = "saveLast" /\ rec'[p].state \in PastApproval)
  BY <1>3, ReturnMoves, EnterMoves, StateClasses
<1>5. OrderInv'
  BY <1>1, <1>2 DEF PlacementInv, OrderInv
<1>6. ~Owns(p)' /\ \A q \in Workers \ {p} : Owns(q)' <=> Owns(q)
  BY <1>4, StateClasses DEF Owns, Owning
<1>7. SoleOwner'
  BY <1>4, <1>6 DEF PlacementInv, SoleOwner
<1>8. ASSUME NEW q \in Workers PROVE OwnerInv(q)' /\ SaveInv(q)' /\ AloneInv(q)'
  BY <1>1, <1>4, <1>6 DEF PlacementInv, OwnerInv, SaveInv, AloneInv, RecoverLabels, SaveThen
<1>. QED
  BY <1>5, <1>7, <1>8 DEF PlacementInv

(* A step of recovery, which works on one order while every other call is   *)
(* over, and saves a record from after the broker call or closes an intent  *)
(* that was never sent.                                                     *)
LEMMA RecoveringPlacement ==
  ASSUME TypeOK, PlacementInv, NEW p \in Workers, NEW l \in RecoverLabels \union {"idle"},
         pc[p] \in RecoverLabels \/ \A q \in Workers : pc[q] = "idle",
         UNCHANGED <<store, brokerVars>>,
         \A q \in Workers \ {p} : pc'[q] = pc[q] /\ cid'[q] = cid[q] /\ rec'[q] = rec[q],
         pc'[p] = l,
         l # "idle" => phase' = "recovering",
         l = "saveRecovered" =>
            \/ rec'[p].state \in PastApproval
            \/ rec'[p].state = "RISK_REJECTED" /\ sent[cid'[p]] = 0,
         l = "recoverIntent" => store[cid'[p]].state \in PreSubmitStates
  PROVE  PlacementInv'
<1>1. \A q \in Workers \ {p} : pc[q] = "idle"
  BY DEF PlacementInv, AloneInv
<1>2. OrderInv'
  BY DEF PlacementInv, OrderInv, brokerVars, Present
<1>3. \A q \in Workers : ~Owns(q)'
  BY <1>1 DEF Owns, Owning, RecoverLabels
<1>4. ASSUME NEW q \in Workers PROVE OwnerInv(q)' /\ SaveInv(q)' /\ AloneInv(q)'
  BY <1>1, <1>3 DEF OwnerInv, SaveInv, AloneInv, RecoverLabels, SaveThen, brokerVars
<1>. QED
  BY <1>2, <1>3, <1>4 DEF PlacementInv, SoleOwner

LEMMA SettlePlacement ==
  ASSUME TypeOK, PlacementInv, NEW p \in Workers, NEW r \in Records, NEW s \in PastApproval,
         pc[p] = "recoverOrder", Settle(p, r, s), UNCHANGED <<store, brokerVars>>
  PROVE  PlacementInv'
<1>1. phase = "recovering"
  BY DEF PlacementInv, AloneInv, RecoverLabels
<1>2. CASE Hold(p, [r EXCEPT !.state = s], "saveRecovered") /\ UNCHANGED systemVars
  <2>. DEFINE settled == [r EXCEPT !.state = s]
  <2>1. settled.state \in PastApproval
    BY DEF Records
  <2>2. Hold(p, settled, "saveRecovered") /\ UNCHANGED phase
    BY <1>2 DEF systemVars
  <2>. HIDE DEF settled
  <2>. QED
    BY <1>1, <2>1, <2>2, HoldMoves, RecoveringPlacement DEF RecoverLabels, systemVars
<1>3. CASE Return(p)
  BY <1>3, ReturnMoves, RecoveringPlacement DEF RecoverLabels
<1>. QED
  BY <1>2, <1>3 DEF Settle

LEMMA RecoverPlacement ==
  ASSUME TypeOK, PlacementInv, NEW p \in Workers, RecoverStep(p)
  PROVE  PlacementInv'
<1>. USE StateNames
<1>1. CASE RecoverStart(p)
  BY <1>1, RecoveringPlacement
     DEF RecoverStart, durable, Goto, RecoverLabels, TypeOK, WorkerTypeOK
<1>2. CASE RecoverDone(p)
  BY <1>2, ReturnMoves, RecoveringPlacement DEF RecoverDone, durable, RecoverLabels
<1>3. ASSUME NEW c \in Cids, RecoverNext(p, c) PROVE PlacementInv'
  <2>1. UNCHANGED <<store, brokerVars, phase>> /\ pc[p] = "recover" /\ phase = "recovering"
    BY <1>3 DEF RecoverNext, durable, PlacementInv, AloneInv, RecoverLabels
  <2>2. CASE /\ store[c].state \in PreSubmitStates
             /\ Begin(p, c, store[c], "recoverIntent")
    BY <2>1, <2>2, BeginMoves, RecoveringPlacement DEF RecoverLabels
  <2>3. CASE Begin(p, c, store[c], "recoverOrder")
    BY <2>1, <2>3, BeginMoves, RecoveringPlacement DEF RecoverLabels
  <2>. QED
    BY <1>3, <2>2, <2>3 DEF RecoverNext
<1>4. CASE RecoverIntent(p)
  <2>1. /\ UNCHANGED <<store, brokerVars, phase>>
        /\ pc[p] = "recoverIntent" /\ phase = "recovering"
    BY <1>4 DEF RecoverIntent, durable, systemVars, PlacementInv, AloneInv, RecoverLabels
  <2>2. cid[p] \in Cids /\ store[cid[p]].state \in PreSubmitStates /\ sent[cid[p]] \in Nat
    BY <2>1 DEF PlacementInv, AloneInv, TypeOK, HandsOK, BrokerTypeOK
  <2>3. sent[cid[p]] = 0
    BY <2>2, StateClasses DEF PlacementInv, OrderInv
  <2>4. CASE Enter(p, "RISK_REJECTED", "saveRecovered")
    BY <2>1, <2>3, <2>4, EnterMoves, RecoveringPlacement DEF RecoverLabels
  <2>5. CASE Enter(p, "SUBMITTED", "recoverOrder")
    BY <2>1, <2>5, EnterMoves, RecoveringPlacement DEF RecoverLabels
  <2>. QED
    BY <1>4, <2>4, <2>5 DEF RecoverIntent
<1>5. CASE RecoverOrder(p)
  <2>1. /\ UNCHANGED <<store, brokerVars>> /\ pc[p] = "recoverOrder" /\ phase = "recovering"
        /\ rec[p] \in Records /\ cid[p] \in Cids
    BY <1>5 DEF RecoverOrder, durable, PlacementInv, AloneInv, RecoverLabels,
                TypeOK, WorkerTypeOK, HandsOK
  <2>2. CASE Hold(p, rec[p], "recover") /\ UNCHANGED systemVars
    BY <2>1, <2>2, HoldMoves, RecoveringPlacement DEF RecoverLabels, systemVars
  <2>3. ASSUME NEW s \in {"UNKNOWN", "REJECTED"}, Settle(p, rec[p], s) PROVE PlacementInv'
    BY <2>1, <2>3, SettlePlacement, StateClasses
  <2>4. ASSUME NEW view \in Views(cid[p]),
               LET state == MappedState(view)
                   r     == [rec[p] EXCEPT !.boid = TRUE, !.filled = view.filled]
               IN IF state = r.state
                  THEN Hold(p, r, "saveRecovered") /\ UNCHANGED systemVars
                  ELSE Settle(p, r, state)
        PROVE  PlacementInv'
    <3>. DEFINE state == MappedState(view)
                r     == [rec[p] EXCEPT !.boid = TRUE, !.filled = view.filled]
    <3>1. view.filled \in 0..Qty
      BY <2>1, ViewType DEF TypeOK
    <3>2. state \in PastApproval
      BY MappedPastApproval DEF MappedState
    <3>3. r \in Records
      BY <2>1, <3>1 DEF Records
    <3>. HIDE DEF state, r
    <3>4. CASE Settle(p, r, state)
      BY <2>1, <3>2, <3>3, <3>4, SettlePlacement
    <3>5. CASE state = r.state /\ Hold(p, r, "saveRecovered") /\ UNCHANGED systemVars
      BY <2>1, <3>2, <3>5, HoldMoves, RecoveringPlacement DEF RecoverLabels, systemVars
    <3>. QED
      BY <2>4, <3>4, <3>5 DEF state, r
  <2>. QED
    BY <1>5, <2>2, <2>3, <2>4 DEF RecoverOrder
<1>. QED
  BY <1>1, <1>2, <1>3, <1>4, <1>5 DEF RecoverStep

LEMMA ReservePlacement ==
  ASSUME TypeOK, PlacementInv, NEW p \in Workers, NEW c \in Cids, Reserve(p, c)
  PROVE  PlacementInv'
<1>1. /\ UNCHANGED <<brokerVars, phase>> /\ store[c].state = NoStatus
      /\ phase = "running" /\ pc[p] = "idle"
  BY DEF Reserve, systemVars, NoRecord, Free
<1>2. store'[c].state = "INTENT_CREATED" /\ \A d \in Cids \ {c} : store'[d] = store[d]
  BY DEF Reserve, NewRecord, NoRecord, TypeOK, DurableTypeOK
<1>3. /\ \A q \in Workers \ {p} : pc'[q] = pc[q] /\ cid'[q] = cid[q] /\ rec'[q] = rec[q]
      /\ pc'[p] = "blocking" /\ rec'[p] = NewRecord /\ cid'[p] = c
  BY BeginMoves DEF Reserve
<1>4. NewRecord.state = "INTENT_CREATED" /\ NoStatus # "INTENT_CREATED"
  BY DEF NewRecord, NoRecord, NoStatus
<1>5. NoStatus \notin PastApproval /\ NoStatus \notin PreSubmitStates
  BY StateClasses DEF PastApproval, OrderStates, OpenStates
<1>6. sent[c] = 0 /\ sent[c] \in Nat
  BY <1>1, <1>5 DEF PlacementInv, OrderInv, TypeOK, BrokerTypeOK
<1>7. OrderInv'
  BY <1>1, <1>2, <1>6 DEF PlacementInv, OrderInv, brokerVars, Present
<1>8. Owns(p)' /\ \A q \in Workers \ {p} : (Owns(q)' <=> Owns(q)) /\ (Owns(q) => cid[q] # c)
  BY <1>1, <1>3 DEF Owns, Owning, PlacementInv, OwnerInv
<1>9. SoleOwner'
  BY <1>3, <1>8 DEF PlacementInv, SoleOwner
<1>10. ASSUME NEW q \in Workers PROVE OwnerInv(q)'
  <2>1. Owns(q) => cid[q] \in Cids
    BY DEF Owns, Owning, TypeOK, HandsOK
  <2>. QED
    BY <1>1, <1>2, <1>3, <1>4, <1>6, <1>8, <2>1 DEF PlacementInv, OwnerInv, brokerVars
<1>11. ASSUME NEW q \in Workers PROVE SaveInv(q)'
  <2>1. CASE q = p
    BY <1>3, <2>1 DEF SaveInv, SaveThen
  <2>2. CASE q # p
    <3>1. pc[q] = "place" => cid[q] \in Cids \ {c}
      BY <1>8, <2>2 DEF Owns, Owning, TypeOK, HandsOK
    <3>. QED
      BY <1>1, <1>2, <1>3, <1>8, <2>2, <3>1 DEF PlacementInv, SaveInv, brokerVars
  <2>. QED
    BY <2>1, <2>2
<1>12. ASSUME NEW q \in Workers PROVE AloneInv(q)'
  BY <1>1, <1>3 DEF PlacementInv, AloneInv, RecoverLabels
<1>. QED
  BY <1>7, <1>9, <1>10, <1>11, <1>12 DEF PlacementInv

LEMMA CallPlacement ==
  ASSUME TypeOK, PlacementInv, NEW p \in Workers, Call(p)
  PROVE  PlacementInv'
<1>1. PICK c \in Cids :
        \/ Reserve(p, c) \/ Resubmit(p, c) \/ CancelOrder(p, c) \/ MonitorOrder(p, c)
        \/ \E n \in 1..Qty : HandleFill(p, c, n)
  BY DEF Call
<1>2. pc[p] = "idle" /\ phase = "running" /\ UNCHANGED <<brokerVars, phase>>
  BY <1>1 DEF Reserve, Resubmit, CancelOrder, MonitorOrder, HandleFill, Free, systemVars
<1>3. CASE Reserve(p, c)
  BY <1>3, ReservePlacement
<1>4. CASE Resubmit(p, c)
  BY <1>2, <1>4, BeginMoves, ForeignPlacement
     DEF Resubmit, durable, Owning, RecoverLabels, SaveThen
<1>5. CASE CancelOrder(p, c)
  <2>1. UNCHANGED store
    BY <1>5 DEF CancelOrder, durable
  <2>2. CASE Begin(p, c, store[c], "sendCancel")
    BY <1>2, <2>1, <2>2, BeginMoves, ForeignPlacement DEF Owning, RecoverLabels, SaveThen
  <2>3. CASE Begin(p, c, [store[c] EXCEPT !.state = "CANCEL_PENDING"], "saveCancelPending")
    <3>. DEFINE r == [store[c] EXCEPT !.state = "CANCEL_PENDING"]
    <3>1. r.state \in PastApproval
      BY StateClasses DEF TypeOK, DurableTypeOK, Records
    <3>2. Begin(p, c, r, "saveCancelPending")
      BY <2>3
    <3>. HIDE DEF r
    <3>. QED
      BY <1>2, <2>1, <3>1, <3>2, BeginMoves, ForeignPlacement DEF Owning, RecoverLabels
  <2>. QED
    BY <1>5, <2>2, <2>3 DEF CancelOrder
<1>6. CASE MonitorOrder(p, c)
  BY <1>2, <1>6, BeginMoves, ForeignPlacement
     DEF MonitorOrder, durable, Owning, RecoverLabels, SaveThen
<1>7. ASSUME NEW n \in 1..Qty, HandleFill(p, c, n) PROVE PlacementInv'
  BY <1>2, <1>7, ForeignPlacement
     DEF HandleFill, durable, Goto, Owning, RecoverLabels, SaveThen, TypeOK, WorkerTypeOK
<1>. QED
  BY <1>1, <1>3, <1>4, <1>5, <1>6, <1>7

LEMMA NextPlacement == TypeOK /\ PlacementInv /\ [Next]_vars => PlacementInv'
<1>. SUFFICES ASSUME TypeOK, PlacementInv, [Next]_vars PROVE PlacementInv'
  OBVIOUS
<1>1. ASSUME NEW p \in Workers, Step(p) PROVE PlacementInv'
  BY <1>1, SavePlacement, SubmitPlacement, FillPlacement, RecoverPlacement,
     SendCancelPlacement, MonitorPlacement DEF Step
<1>2. ASSUME NEW p \in Workers, Call(p) PROVE PlacementInv'
  BY <1>2, CallPlacement
<1>3. ASSUME NEW p \in Workers, Kill(p) PROVE PlacementInv'
  BY <1>3, ReturnPlacement DEF Kill, durable, systemVars
<1>4. CASE Crash
  <2>1. OrderInv'
    BY <1>4 DEF Crash, PlacementInv, OrderInv, durable, brokerVars, Present
  <2>2. \A p \in Workers : pc'[p] = "idle"
    BY <1>4 DEF Crash
  <2>3. \A p \in Workers : ~Owns(p)' /\ SaveInv(p)' /\ AloneInv(p)'
    BY <2>2 DEF Owns, Owning, SaveInv, SaveThen, AloneInv, RecoverLabels
  <2>. QED
    BY <2>1, <2>3 DEF PlacementInv, SoleOwner, OwnerInv
<1>5. CASE Restart
  <2>1. \A p \in Workers : pc[p] = "idle"
    BY <1>5 DEF Restart, PlacementInv, AloneInv, TypeOK, SystemTypeOK
  <2>2. UNCHANGED <<store, brokerVars, pc, cid, rec>>
    BY <1>5 DEF Restart, durable, workerVars
  <2>3. OrderInv'
    BY <2>2 DEF PlacementInv, OrderInv, brokerVars, Present
  <2>4. \A p \in Workers : ~Owns(p)' /\ SaveInv(p)' /\ AloneInv(p)'
    BY <2>1, <2>2 DEF Owns, Owning, SaveInv, SaveThen, AloneInv, RecoverLabels
  <2>. QED
    BY <2>3, <2>4 DEF PlacementInv, SoleOwner, OwnerInv
<1>6. CASE Broker
  BY <1>6, BrokerStepPlacement
<1>7. CASE UNCHANGED vars
  BY <1>7, BrokerPlacement DEF vars, durable, brokerVars, workerVars, systemVars, Present
<1>. QED
  BY <1>1, <1>2, <1>3, <1>4, <1>5, <1>6, <1>7 DEF Next

LEMMA PlacementCorrect == Spec => []PlacementInv
<1>1. Init => PlacementInv
  BY InitPlacement
<1>2. TypeOK /\ PlacementInv /\ [Next]_vars => PlacementInv'
  BY NextPlacement
<1>. QED
  BY <1>1, <1>2, TypeCorrect, PTL DEF Spec

(* submit_order never calls place_order twice for one intent, whatever      *)
(* retries, crashes, recoveries and faults there are, for any number of     *)
(* calls on the same intent at once.                                        *)
THEOREM PlacedAtMostOnce == Spec => []AtMostOnePlacement
<1>1. PlacementInv => AtMostOnePlacement
  BY DEF PlacementInv, OrderInv, AtMostOnePlacement
<1>. QED
  BY <1>1, PlacementCorrect, PTL

(* The durable record is ahead of the broker: no order is at the broker, or *)
(* on its way, without a record that reached SUBMITTED before the call and  *)
(* was never taken back to a state from before it.                          *)
THEOREM DurableFirst == Spec => []DurableBeforeBroker
<1>1. PlacementInv => DurableBeforeBroker
  BY DEF PlacementInv, OrderInv, DurableBeforeBroker
<1>. QED
  BY <1>1, PlacementCorrect, PTL


-----------------------------------------------------------------------------
(* Fills and positions                                                      *)

(* One call at a time for an order, of finitely many: a stale save would    *)
(* forget a fill that another call has booked.                              *)
OneCallPerOrder == Exclusive /\ IsFiniteSet(Cids)

AtPosition == {"readPosition", "writePosition"}

(* Between these labels a call holds a copy of its order's record.          *)
Copying ==
    DOMAIN SaveThen \union
      {"blocking", "gates", "arm", "place", "await", "resolve", "logTrade", "sendCancel",
       "monitor", "monitorBlind", "recoverIntent", "recoverOrder"}

(* The copy a call at label l has has the fills of the store, and the one   *)
(* in hand; a fill is known by an id of no fewer shares.                    *)
CopyOK(s, l, r, f) ==
    /\ l \in Copying \ {"logTrade", "saveFill"} => r.applied = s
    /\ l \in {"logTrade", "saveFill"} => f.id \notin s /\ r.applied = s \union {f.id}
    /\ l \in FillLabels => f.qty <= FillQty(f.id)

(* Calls, and what recovery is still to see, are of different orders.       *)
ApartOK ==
    /\ \A p \in Workers : pc[p] = "idle" => cid[p] = NoCid
    /\ \A p, q \in Workers : cid[p] \in Cids /\ cid[p] = cid[q] => p = q
    /\ phase # "recovering" => todo = {}
    /\ \A p \in Workers : cid[p] \notin todo

Shares(A) == MapThenSumSet(FillQty, A)

(* The shares of c that a call has saved and not yet brought to the position. *)
Bringing(c, l, o) == {p \in Workers : l[p] \in AtPosition /\ o[p] = c}
Brought(P, f) == IF P = {} THEN 0 ELSE f[CHOOSE p \in P : TRUE].qty
Pending(c, l, o, f) == Brought(Bringing(c, l, o), f)

(* What the position may hold of each order.                                *)
Worth == [c \in Cids |-> Shares(store[c].applied) - Pending(c, pc, cid, fill)]

OfSymbol(s) == {c \in Cids : SymbolOf[c] = s}
Total(f, C) == SumFunctionOnSet(f, C)

FillsInv ==
    /\ ApartOK
    /\ \A p \in Workers :
          cid[p] \in Cids => CopyOK(store[cid[p]].applied, pc[p], rec[p], fill[p])
    /\ \A s \in Symbols : position[s] <= Total(Worth, OfSymbol(s))
    /\ \A p \in Workers :
          pc[p] = "writePosition" => seen[p] <= Total(Worth, OfSymbol(SymbolOf[cid[p]]))

(* The sums of this section are those of Sums.                              *)
LEMMA TotalSums ==
  ASSUME NEW f, NEW C, IsFiniteSet(C)
  PROVE  \E g : Summing(f, C, g) /\ Total(f, C) = g[C]
BY SumSums DEF Total

QtyOf == [i \in FillIds |-> FillQty(i)]

LEMMA SharesTotal ==
  ASSUME NEW A, A \subseteq FillIds, IsFiniteSet(A)
  PROVE  Shares(A) = Total(QtyOf, A)
<1>. DEFINE F(g) == [s \in SUBSET A |->
                       IF s = {} THEN 0
                       ELSE LET x == CHOOSE y \in s : TRUE IN FillQty(x) + g[s \ {x}]]
            E(g) == [s \in SUBSET A |->
                       IF s = {} THEN 0
                       ELSE LET x == CHOOSE y \in s : TRUE IN QtyOf[x] + g[s \ {x}]]
<1>1. ASSUME NEW g PROVE F(g) = E(g)
  <2>1. ASSUME NEW s \in SUBSET A, s # {}
        PROVE  FillQty(CHOOSE y \in s : TRUE) = QtyOf[CHOOSE y \in s : TRUE]
    <3>1. (CHOOSE y \in s : TRUE) \in FillIds
      BY <2>1
    <3>. QED
      BY <3>1 DEF QtyOf
  <2>2. ASSUME NEW s \in SUBSET A PROVE F(g)[s] = E(g)[s]
    BY <2>1
  <2>3. F(g) = [s \in SUBSET A |-> F(g)[s]] /\ E(g) = [s \in SUBSET A |-> E(g)[s]]
    OBVIOUS
  <2>. HIDE DEF F, E
  <2>. QED
    BY <2>2, <2>3
<1>2. Shares(A) = (CHOOSE g : g = F(g))[A]
  BY DEF Shares, MapThenSumSet, MapThenFoldSet
<1>3. Total(QtyOf, A) = (CHOOSE g : g = E(g))[A]
  BY DEF Total, SumFunctionOnSet, FoldFunctionOnSet, MapThenFoldSet
<1>4. \A g : g = F(g) <=> g = E(g)
  <2>. HIDE DEF F, E
  <2>. QED
    BY <1>1
<1>. HIDE DEF F, E
<1>5. (CHOOSE g : g = F(g)) = (CHOOSE g : g = E(g))
  BY <1>4
<1>. QED
  BY <1>2, <1>3, <1>5

LEMMA FillIdsFinite == IsFiniteSet(FillIds)
<1>1. IsFiniteSet(1..Qty)
  BY FS_Interval, QtyAssumption
<1>2. ASSUME NEW x, NEW y PROVE IsFiniteSet({x, y})
  <2>1. IsFiniteSet({x})
    BY FS_Singleton
  <2>2. IsFiniteSet({x} \union {y})
    BY <2>1, FS_AddElement
  <2>3. {x} \union {y} = {x, y}
    OBVIOUS
  <2>. QED
    BY <2>2, <2>3, Zenon
<1>3. IsFiniteSet({"immediate", "trade"})
  BY <1>2, Zenon
<1>. QED
  BY <1>1, <1>3, FS_Product DEF FillIds

LEMMA FillQtyType == \A i \in FillIds : FillQty(i) \in Nat /\ 1 <= FillQty(i)
BY QtyAssumption DEF FillIds, FillQty

LEMMA SharesType ==
  ASSUME NEW A \in SUBSET FillIds
  PROVE  Shares(A) \in Int
<1>1. IsFiniteSet(A)
  BY FillIdsFinite, FS_Subset
<1>2. Whole(QtyOf, A)
  <2>1. \A i \in FillIds : QtyOf[i] \in Int
    BY FillQtyType DEF QtyOf
  <2>. QED
    BY <2>1 DEF Whole
<1>3. PICK g : Summing(QtyOf, A, g) /\ Total(QtyOf, A) = g[A]
  BY <1>1, TotalSums
<1>. QED
  BY <1>1, <1>2, <1>3, SharesTotal, SummingTyped

LEMMA SharesAdd ==
  ASSUME NEW A \in SUBSET FillIds, NEW i \in FillIds \ A
  PROVE  Shares(A \union {i}) = Shares(A) + FillQty(i)
<1>. DEFINE B == A \union {i}
<1>1. IsFiniteSet(A) /\ IsFiniteSet(B) /\ B \in SUBSET FillIds
  BY FillIdsFinite, FS_Subset
<1>2. Whole(QtyOf, B)
  <2>1. \A j \in FillIds : QtyOf[j] \in Int
    BY FillQtyType DEF QtyOf
  <2>. QED
    BY <1>1, <2>1 DEF Whole
<1>3. PICK g : Summing(QtyOf, A, g) /\ Total(QtyOf, A) = g[A]
  BY <1>1, TotalSums
<1>4. PICK h : Summing(QtyOf, B, h) /\ Total(QtyOf, B) = h[B]
  BY <1>1, TotalSums
<1>5. h[B] = QtyOf[i] + g[A]
  BY <1>1, <1>2, <1>3, <1>4, SummingAdds
<1>6. QtyOf[i] = FillQty(i) /\ FillQty(i) \in Int
  BY FillQtyType DEF QtyOf
<1>7. Shares(A) = g[A] /\ Shares(B) = h[B] /\ Shares(A) \in Int
  BY <1>1, <1>3, <1>4, SharesTotal, SharesType
<1>. QED
  BY <1>5, <1>6, <1>7

LEMMA SharesNone == Shares({}) = 0
<1>1. PICK g : Summing(QtyOf, {}, g) /\ Total(QtyOf, {}) = g[{}]
  BY FS_EmptySet, TotalSums
<1>. QED
  BY <1>1, FS_EmptySet, SharesTotal, SummingAt

(* What a call still has to bring to the position.                          *)
LEMMA PendingNone ==
  ASSUME NEW l, NEW o, NEW f, NEW c,
         \A q \in Workers : ~(l[q] \in AtPosition /\ o[q] = c)
  PROVE  Pending(c, l, o, f) = 0
BY DEF Pending, Bringing, Brought

LEMMA PendingType ==
  ASSUME NEW c, NEW l, NEW o, NEW f, \A q \in Workers : l[q] \in AtPosition => f[q] \in Fills
  PROVE  Pending(c, l, o, f) \in Nat
<1>. DEFINE P == {q \in Workers : l[q] \in AtPosition /\ o[q] = c}
            p == CHOOSE q \in P : TRUE
<1>1. CASE P = {}
  BY <1>1 DEF Pending, Bringing, Brought
<1>2. CASE P # {}
  <2>1. p \in P
    BY <1>2
  <2>2. f[p].qty \in 1..Qty
    BY <2>1 DEF Fills
  <2>3. f[p].qty \in Nat
    BY <2>2, QtyAssumption
  <2>4. Pending(c, l, o, f) = f[p].qty
    BY <1>2 DEF Pending, Bringing, Brought
  <2>. QED
    BY <2>3, <2>4
<1>. QED
  BY <1>1, <1>2

LEMMA PositionLabels ==
  /\ AtPosition \subseteq FillLabels /\ AtPosition \cap Copying = {}
  /\ "idle" \notin AtPosition /\ "idle" \notin Copying
BY DEF AtPosition, FillLabels, Copying, SaveThen

(* Totals grow with what they add up.                                       *)
LEMMA TotalType ==
  ASSUME NEW f, NEW C, IsFiniteSet(C), Whole(f, C)
  PROVE  Total(f, C) \in Int
BY TotalSums, SummingTyped

LEMMA TotalBelow ==
  ASSUME NEW f, NEW e, NEW C, IsFiniteSet(C), Whole(f, C), Whole(e, C), \A c \in C : f[c] <= e[c]
  PROVE  Total(f, C) <= Total(e, C)
<1>1. PICK g : Summing(f, C, g) /\ Total(f, C) = g[C]
  BY TotalSums
<1>2. PICK h : Summing(e, C, h) /\ Total(e, C) = h[C]
  BY TotalSums
<1>3. g[C] <= h[C]
  BY <1>1, <1>2, SummingBelow
<1>. QED
  BY <1>1, <1>2, <1>3

LEMMA TotalRaised ==
  ASSUME NEW f, NEW e, NEW C, IsFiniteSet(C), Whole(f, C), Whole(e, C), \A c \in C : f[c] <= e[c],
         NEW k \in C, NEW n \in Int, f[k] + n <= e[k]
  PROVE  Total(f, C) + n <= Total(e, C)
<1>1. PICK g : Summing(f, C, g) /\ Total(f, C) = g[C]
  BY TotalSums
<1>2. PICK h : Summing(e, C, h) /\ Total(e, C) = h[C]
  BY TotalSums
<1>3. g[C] + n <= h[C]
  BY <1>1, <1>2, SummingRaised
<1>. QED
  BY <1>1, <1>2, <1>3

LEMMA TotalNothing ==
  ASSUME NEW f, NEW C, IsFiniteSet(C), Whole(f, C), \A c \in C : 0 <= f[c]
  PROVE  0 <= Total(f, C)
<1>1. PICK g : Summing(f, C, g) /\ Total(f, C) = g[C]
  BY TotalSums
<1>2. 0 <= g[C]
  BY <1>1, SummingNothing
<1>. QED
  BY <1>1, <1>2

(* What is added up is a whole number, before a step and after it.          *)
WorthOf(st, l, o, f) == [c \in Cids |-> Shares(st[c].applied) - Pending(c, l, o, f)]

LEMMA WorthWhole ==
  ASSUME NEW st, NEW l, NEW o, NEW f,
         \A c \in Cids : st[c].applied \in SUBSET FillIds,
         \A q \in Workers : l[q] \in AtPosition => f[q] \in Fills
  PROVE  \A c \in Cids : /\ WorthOf(st, l, o, f)[c] = Shares(st[c].applied) - Pending(c, l, o, f)
                         /\ WorthOf(st, l, o, f)[c] \in Int
                         /\ Shares(st[c].applied) \in Int /\ Pending(c, l, o, f) \in Nat
<1>. TAKE c \in Cids
<1>1. Shares(st[c].applied) \in Int /\ Pending(c, l, o, f) \in Nat
  BY SharesType, PendingType
<1>2. WorthOf(st, l, o, f)[c] = Shares(st[c].applied) - Pending(c, l, o, f)
  BY DEF WorthOf
<1>. QED
  BY <1>1, <1>2

LEMMA WorthNow ==
  /\ TypeOK => \A c \in Cids : /\ Worth[c] = Shares(store[c].applied) - Pending(c, pc, cid, fill)
                               /\ Worth[c] \in Int
                               /\ Shares(store[c].applied) \in Int /\ Pending(c, pc, cid, fill) \in Nat
  /\ TypeOK' => \A c \in Cids : /\ Worth'[c] = Shares(store'[c].applied) - Pending(c, pc', cid', fill')
                                /\ Worth'[c] \in Int
                                /\ Shares(store'[c].applied) \in Int /\ Pending(c, pc', cid', fill') \in Nat
<1>1. ASSUME TypeOK
      PROVE  /\ \A c \in Cids : store[c].applied \in SUBSET FillIds
             /\ \A q \in Workers : pc[q] \in AtPosition => fill[q] \in Fills
  BY <1>1, PositionLabels DEF TypeOK, DurableTypeOK, HandsOK, Records
<1>2. ASSUME TypeOK'
      PROVE  /\ \A c \in Cids : store'[c].applied \in SUBSET FillIds
             /\ \A q \in Workers : pc'[q] \in AtPosition => fill'[q] \in Fills
  BY <1>2, PositionLabels DEF TypeOK, DurableTypeOK, HandsOK, Records
<1>3. Worth = WorthOf(store, pc, cid, fill) /\ Worth' = WorthOf(store', pc', cid', fill')
  BY DEF Worth, WorthOf
<1>. QED
  BY <1>1, <1>2, <1>3, WorthWhole

LEMMA SymbolsFinite ==
  ASSUME OneCallPerOrder
  PROVE  \A s \in Symbols : IsFiniteSet(OfSymbol(s)) /\ OfSymbol(s) \subseteq Cids
<1>1. \A s \in Symbols : OfSymbol(s) \subseteq Cids
  BY DEF OfSymbol
<1>. QED
  BY <1>1, FS_Subset DEF OneCallPerOrder

LEMMA TotalsGrow ==
  ASSUME OneCallPerOrder, TypeOK, TypeOK', \A c \in Cids : Worth[c] <= Worth'[c], NEW s \in Symbols
  PROVE  /\ Total(Worth, OfSymbol(s)) \in Int /\ Total(Worth', OfSymbol(s)) \in Int
         /\ Total(Worth, OfSymbol(s)) <= Total(Worth', OfSymbol(s))
<1>1. IsFiniteSet(OfSymbol(s)) /\ OfSymbol(s) \subseteq Cids
  BY SymbolsFinite
<1>2. Whole(Worth, OfSymbol(s)) /\ Whole(Worth', OfSymbol(s))
  BY <1>1, WorthNow DEF Whole
<1>. QED
  BY <1>1, <1>2, TotalType, TotalBelow

-----------------------------------------------------------------------------
(* A step of a call                                                         *)

CopiesOK ==
    \A p \in Workers : cid[p] \in Cids => CopyOK(store[cid[p]].applied, pc[p], rec[p], fill[p])

(* No order is worth less, and what is newly read or written is covered.    *)
LEMMA GrownFills ==
  ASSUME OneCallPerOrder, TypeOK, TypeOK', FillsInv, ApartOK', CopiesOK',
         \A c \in Cids : Worth[c] <= Worth'[c],
         \A s \in Symbols : position'[s] = position[s] \/ position'[s] <= Total(Worth', OfSymbol(s)),
         \A p \in Workers :
            pc'[p] = "writePosition" =>
              \/ pc[p] = "writePosition" /\ seen'[p] = seen[p] /\ cid'[p] = cid[p]
              \/ seen'[p] <= Total(Worth', OfSymbol(SymbolOf[cid'[p]]))
  PROVE  FillsInv'
<1>1. \A s \in Symbols :
         /\ Total(Worth, OfSymbol(s)) \in Int /\ Total(Worth', OfSymbol(s)) \in Int
         /\ Total(Worth, OfSymbol(s)) <= Total(Worth', OfSymbol(s))
  BY TotalsGrow
<1>2. ASSUME NEW s \in Symbols PROVE position'[s] <= Total(Worth', OfSymbol(s))
  <2>1. position[s] \in Nat /\ position[s] <= Total(Worth, OfSymbol(s))
    BY DEF FillsInv, TypeOK, DurableTypeOK
  <2>. QED
    BY <1>1, <2>1
<1>3. ASSUME NEW p \in Workers, pc'[p] = "writePosition"
      PROVE  seen'[p] <= Total(Worth', OfSymbol(SymbolOf[cid'[p]]))
  <2>. SUFFICES ASSUME pc[p] = "writePosition", seen'[p] = seen[p], cid'[p] = cid[p]
                PROVE  seen'[p] <= Total(Worth', OfSymbol(SymbolOf[cid'[p]]))
    BY <1>3
  <2>1. cid[p] \in Cids
    BY DEF TypeOK, HandsOK
  <2>2. SymbolOf[cid[p]] \in Symbols
    BY <2>1 DEF Symbols
  <2>3. seen[p] \in Nat /\ seen[p] <= Total(Worth, OfSymbol(SymbolOf[cid[p]]))
    BY DEF FillsInv, TypeOK, WorkerTypeOK
  <2>. QED
    BY <1>1, <2>2, <2>3
<1>. QED
  BY <1>2, <1>3 DEF FillsInv, CopiesOK

(* A step that saves no fill and brings none to the position.               *)
LEMMA QuietWorth ==
  ASSUME TypeOK, TypeOK', ApartOK, ApartOK',
         \A c \in Cids : store'[c].applied = store[c].applied,
         \A p \in Workers :
            pc'[p] \in AtPosition =>
              pc[p] \in AtPosition /\ cid'[p] = cid[p] /\ fill'[p].qty = fill[p].qty
  PROVE  \A c \in Cids : Worth[c] <= Worth'[c]
<1>. SUFFICES ASSUME NEW c \in Cids PROVE Worth[c] <= Worth'[c]
  OBVIOUS
<1>1. Pending(c, pc', cid', fill') <= Pending(c, pc, cid, fill)
  <2>1. CASE \A q \in Workers : ~(pc'[q] \in AtPosition /\ cid'[q] = c)
    <3>1. Pending(c, pc', cid', fill') = 0
      BY <2>1, PendingNone
    <3>2. Pending(c, pc, cid, fill) \in Nat
      BY WorthNow
    <3>. QED
      BY <3>1, <3>2
  <2>2. ASSUME NEW p \in Workers, pc'[p] \in AtPosition, cid'[p] = c
        PROVE  Pending(c, pc', cid', fill') <= Pending(c, pc, cid, fill)
    <3>1. pc[p] \in AtPosition /\ cid[p] = c /\ fill'[p].qty = fill[p].qty
      BY <2>2
    <3>2. \A q \in Workers : (cid[q] = c => q = p) /\ (cid'[q] = c => q = p)
      BY <2>2, <3>1 DEF ApartOK
    <3>3. Pending(c, pc', cid', fill') = fill'[p].qty
      <4>1. {q \in Workers : pc'[q] \in AtPosition /\ cid'[q] = c} = {p}
        BY <2>2, <3>2
      <4>. QED
        BY <4>1 DEF Pending, Bringing, Brought
    <3>4. Pending(c, pc, cid, fill) = fill[p].qty
      <4>1. {q \in Workers : pc[q] \in AtPosition /\ cid[q] = c} = {p}
        BY <3>1, <3>2
      <4>. QED
        BY <4>1 DEF Pending, Bringing, Brought
    <3>5. Pending(c, pc, cid, fill) \in Nat
      BY WorthNow
    <3>. QED
      BY <3>1, <3>3, <3>4, <3>5
  <2>. QED
    BY <2>1, <2>2
<1>. QED
  BY <1>1, WorthNow

LEMMA WorkerFills ==
  ASSUME OneCallPerOrder, TypeOK, TypeOK', FillsInv, ApartOK', NEW p \in Workers,
         UNCHANGED position, \A c \in Cids : store'[c].applied = store[c].applied,
         \A q \in Workers \ {p} : /\ pc'[q] = pc[q] /\ cid'[q] = cid[q] /\ rec'[q] = rec[q]
                                  /\ fill'[q] = fill[q] /\ seen'[q] = seen[q],
         pc'[p] \notin AtPosition,
         cid'[p] \in Cids => CopyOK(store'[cid'[p]].applied, pc'[p], rec'[p], fill'[p])
  PROVE  FillsInv'
<1>1. \A c \in Cids : Worth[c] <= Worth'[c]
  BY QuietWorth DEF FillsInv
<1>2. CopiesOK'
  BY DEF CopiesOK, FillsInv
<1>3. \A q \in Workers : pc'[q] = "writePosition" =>
         pc[q] = "writePosition" /\ seen'[q] = seen[q] /\ cid'[q] = cid[q]
  BY DEF AtPosition
<1>. QED
  BY <1>1, <1>2, <1>3, GrownFills

(* The ways a call moves.                                                   *)
LEMMA HoldFills ==
  ASSUME OneCallPerOrder, TypeOK, TypeOK', FillsInv, NEW p \in Workers, NEW r, NEW l,
         Hold(p, r, l), l # "idle", l \notin AtPosition,
         UNCHANGED <<position, phase, todo>>, \A c \in Cids : store'[c].applied = store[c].applied,
         cid[p] \in Cids => CopyOK(store[cid[p]].applied, l, r, fill[p])
  PROVE  FillsInv'
<1>1. /\ \A q \in Workers \ {p} : /\ pc'[q] = pc[q] /\ cid'[q] = cid[q] /\ rec'[q] = rec[q]
                                  /\ fill'[q] = fill[q] /\ seen'[q] = seen[q]
      /\ pc'[p] = l /\ rec'[p] = r /\ cid'[p] = cid[p] /\ fill'[p] = fill[p] /\ cid' = cid
  BY DEF TypeOK, WorkerTypeOK, Hold, Goto
<1>2. ApartOK'
  BY <1>1 DEF FillsInv, ApartOK
<1>. QED
  BY <1>1, <1>2, WorkerFills

LEMMA EnterFills ==
  ASSUME OneCallPerOrder, TypeOK, TypeOK', FillsInv, NEW p \in Workers, NEW s, NEW l,
         Enter(p, s, l), l \notin FillLabels \union {"idle"}, pc[p] \in Copying \ FillLabels,
         cid[p] \in Cids,
         UNCHANGED <<store, position, phase, todo>>
  PROVE  FillsInv'
<1>1. rec[p].applied = store[cid[p]].applied
  BY DEF FillsInv, CopyOK, FillLabels
<1>2. [rec[p] EXCEPT !.state = s].applied = rec[p].applied
  BY DEF TypeOK, WorkerTypeOK, Records
<1>3. CopyOK(store[cid[p]].applied, l, [rec[p] EXCEPT !.state = s], fill[p])
  BY <1>1, <1>2 DEF CopyOK, FillLabels
<1>. QED
  BY <1>3, HoldFills, PositionLabels DEF Enter

LEMMA ReturnFills ==
  ASSUME OneCallPerOrder, TypeOK, TypeOK', FillsInv, NEW p \in Workers, Return(p),
         UNCHANGED position, \A c \in Cids : store'[c].applied = store[c].applied,
         UNCHANGED <<todo, phase>> \/ todo' = {}
  PROVE  FillsInv'
<1>1. /\ \A q \in Workers \ {p} : /\ pc'[q] = pc[q] /\ cid'[q] = cid[q] /\ rec'[q] = rec[q]
                                  /\ fill'[q] = fill[q] /\ seen'[q] = seen[q]
      /\ pc'[p] = "idle" /\ cid'[p] = NoCid
  BY DEF TypeOK, WorkerTypeOK, Return, Goto
<1>2. todo \subseteq Cids /\ NoCid \notin Cids
  BY CidsAssumption DEF TypeOK, SystemTypeOK
<1>3. ApartOK'
  BY <1>1, <1>2 DEF FillsInv, ApartOK
<1>. QED
  BY <1>1, <1>2, <1>3, WorkerFills, PositionLabels

LEMMA BeginFills ==
  ASSUME OneCallPerOrder, TypeOK, TypeOK', FillsInv, NEW p \in Workers, NEW c \in Cids, NEW r, NEW l,
         Begin(p, c, r, l), l \notin FillLabels \union {"idle"},
         UNCHANGED <<position, phase>>, \A d \in Cids : store'[d].applied = store[d].applied,
         \A q \in Workers \ {p} : cid[q] # c,
         c \notin todo', todo' \subseteq todo,
         l \in Copying => r.applied = store[c].applied
  PROVE  FillsInv'
<1>1. /\ \A q \in Workers \ {p} : /\ pc'[q] = pc[q] /\ cid'[q] = cid[q] /\ rec'[q] = rec[q]
                                  /\ fill'[q] = fill[q] /\ seen'[q] = seen[q]
      /\ pc'[p] = l /\ rec'[p] = r /\ cid'[p] = c /\ fill'[p] = fill[p]
  BY DEF TypeOK, WorkerTypeOK, Begin, Goto
<1>2. ApartOK'
  BY <1>1 DEF FillsInv, ApartOK
<1>3. CopyOK(store'[c].applied, l, r, fill[p])
  BY DEF CopyOK, FillLabels
<1>. QED
  BY <1>1, <1>2, <1>3, WorkerFills, PositionLabels

(* The copy is changed in anything but its fills.                           *)
LEMMA RestateFills ==
  ASSUME OneCallPerOrder, TypeOK, TypeOK', FillsInv, NEW p \in Workers, NEW r, NEW l,
         Hold(p, r, l), r.applied = rec[p].applied,
         l \notin FillLabels \union {"idle"}, pc[p] \in Copying \ FillLabels, cid[p] \in Cids,
         UNCHANGED <<store, position, phase, todo>>
  PROVE  FillsInv'
<1>1. rec[p].applied = store[cid[p]].applied
  BY DEF FillsInv, CopyOK, FillLabels
<1>2. CopyOK(store[cid[p]].applied, l, r, fill[p])
  BY <1>1 DEF CopyOK, FillLabels
<1>. QED
  BY <1>2, HoldFills, PositionLabels

LEMMA SameFills ==
  ASSUME NEW r \in Records
  PROVE  /\ \A s : [r EXCEPT !.state = s].applied = r.applied
         /\ [r EXCEPT !.boid = TRUE].applied = r.applied
         /\ \A n : [r EXCEPT !.filled = n].applied = r.applied
         /\ \A s : [r EXCEPT !.boid = TRUE, !.state = s].applied = r.applied
         /\ \A n : [r EXCEPT !.boid = TRUE, !.filled = n].applied = r.applied
         /\ \A s, n : [[r EXCEPT !.boid = TRUE] EXCEPT !.state = s, !.filled = n].applied = r.applied
         /\ \A s, n : [[r EXCEPT !.filled = n] EXCEPT !.state = s].applied = r.applied
         /\ \A s, n : [[r EXCEPT !.boid = TRUE, !.filled = n] EXCEPT !.state = s].applied = r.applied
BY DEF Records

(* The fill is saved: it is pending now.                                    *)
LEMMA SaveFillFills ==
  ASSUME OneCallPerOrder, TypeOK, TypeOK', FillsInv, NEW p \in Workers, Save(p), pc[p] = "saveFill"
  PROVE  FillsInv'
<1>. DEFINE c == cid[p]
<1>1. /\ c \in Cids /\ fill[p] \in Fills /\ Hold(p, rec[p], "readPosition")
      /\ store' = [store EXCEPT ![c] = rec[p]] /\ UNCHANGED <<position, phase, todo>>
  BY DEF Save, SaveThen, TypeOK, HandsOK, FillLabels, systemVars
<1>2. /\ fill[p].id \notin store[c].applied /\ rec[p].applied = store[c].applied \union {fill[p].id}
      /\ fill[p].qty <= FillQty(fill[p].id)
  BY <1>1 DEF FillsInv, CopyOK, FillLabels
<1>3. /\ pc' = [pc EXCEPT ![p] = "readPosition"] /\ cid' = cid /\ fill' = fill /\ seen' = seen
      /\ rec' = [rec EXCEPT ![p] = rec[p]]
  BY <1>1 DEF Hold, Goto
<1>4. pc \in [Workers -> Labels] /\ rec \in [Workers -> Records] /\ store \in [Cids -> Records]
  BY DEF TypeOK, WorkerTypeOK, DurableTypeOK
<1>5. ApartOK'
  BY <1>1, <1>3, <1>4 DEF FillsInv, ApartOK
<1>6. \A q \in Workers \ {p} : cid[q] # c
  BY <1>1 DEF FillsInv, ApartOK
<1>7. \A d \in Cids \ {c} : store'[d] = store[d]
  BY <1>1, <1>4
<1>8. store'[c] = rec[p] /\ store[c] \in Records
  BY <1>1, <1>4
<1>9. CopiesOK'
  <2>. SUFFICES ASSUME NEW q \in Workers, cid[q] \in Cids
                PROVE  CopyOK(store'[cid[q]].applied, pc'[q], rec'[q], fill[q])
    BY <1>3 DEF CopiesOK
  <2>1. CASE q = p
    <3>1. pc'[p] = "readPosition"
      BY <1>3, <1>4
    <3>2. "readPosition" \notin Copying /\ "readPosition" \notin {"logTrade", "saveFill"}
      BY DEF Copying, SaveThen
    <3>. QED
      BY <1>2, <2>1, <3>1, <3>2 DEF CopyOK
  <2>2. CASE q # p
    <3>1. store'[cid[q]] = store[cid[q]] /\ pc'[q] = pc[q] /\ rec'[q] = rec[q]
      BY <1>3, <1>4, <1>6, <1>7, <2>2
    <3>. QED
      BY <3>1 DEF FillsInv
  <2>. QED
    BY <2>1, <2>2
<1>10. \A d \in Cids \ {c} : Worth[d] <= Worth'[d]
  <2>. TAKE d \in Cids \ {c}
  <2>. DEFINE At(q) == pc[q] \in AtPosition /\ cid[q] = d
              After(q) == pc'[q] \in AtPosition /\ cid'[q] = d
  <2>1. \A q \in Workers : At(q) <=> After(q)
    <3>. TAKE q \in Workers
    <3>1. q # p => pc'[q] = pc[q]
      BY <1>3, <1>4
    <3>2. cid'[q] = cid[q] /\ cid[p] # d
      BY <1>3
    <3>. QED
      BY <3>1, <3>2
  <2>2. Pending(d, pc', cid', fill') = Pending(d, pc, cid, fill)
    <3>1. Bringing(d, pc', cid') = Bringing(d, pc, cid)
      BY <2>1 DEF Bringing
    <3>. QED
      BY <1>3, <3>1 DEF Pending
  <2>. QED
    BY <1>7, <2>2, WorthNow
<1>11. Worth[c] <= Worth'[c]
  <2>1. {q \in Workers : pc[q] \in AtPosition /\ cid[q] = c} = {}
    BY <1>6 DEF AtPosition
  <2>2. {q \in Workers : pc'[q] \in AtPosition /\ cid'[q] = c} = {p}
    BY <1>3, <1>4, <1>6 DEF AtPosition
  <2>3. Pending(c, pc, cid, fill) = 0 /\ Pending(c, pc', cid', fill') = fill[p].qty
    BY <1>3, <2>1, <2>2 DEF Pending, Bringing, Brought
  <2>4. /\ Worth[c] = Shares(store[c].applied) - Pending(c, pc, cid, fill) /\ Shares(store[c].applied) \in Int
        /\ Worth'[c] = Shares(store'[c].applied) - Pending(c, pc', cid', fill')
    BY <1>1, WorthNow
  <2>5. Shares(store'[c].applied) = Shares(store[c].applied) + FillQty(fill[p].id)
    <3>1. store[c].applied \in SUBSET FillIds /\ fill[p].id \in FillIds \ store[c].applied
      BY <1>1, <1>2, <1>8 DEF Records, Fills
    <3>. QED
      BY <1>2, <1>8, <3>1, SharesAdd
  <2>6. fill[p].qty \in Nat /\ FillQty(fill[p].id) \in Nat
    <3>1. fill[p].qty \in 1..Qty /\ fill[p].id \in FillIds
      BY <1>1 DEF Fills
    <3>. QED
      BY <3>1, FillQtyType, QtyAssumption
  <2>. QED
    BY <1>2, <2>3, <2>4, <2>5, <2>6
<1>12. \A q \in Workers : pc'[q] = "writePosition" => pc[q] = "writePosition"
  BY <1>3, <1>4
<1>. QED
  BY <1>1, <1>3, <1>5, <1>9, <1>10, <1>11, <1>12, GrownFills

LEMMA SaveFills ==
  ASSUME OneCallPerOrder, TypeOK, TypeOK', FillsInv, NEW p \in Workers, Save(p)
  PROVE  FillsInv'
<1>1. CASE pc[p] = "saveFill"
  BY <1>1, SaveFillFills
<1>2. CASE pc[p] # "saveFill"
  <2>1. /\ pc[p] \in Copying \ FillLabels /\ cid[p] \in Cids
        /\ SaveThen[pc[p]] \notin FillLabels
    BY <1>2 DEF Save, SaveThen, Copying, FillLabels, TypeOK, HandsOK
  <2>2. rec[p].applied = store[cid[p]].applied
    BY <2>1 DEF FillsInv, CopyOK, FillLabels
  <2>3. /\ store' = [store EXCEPT ![cid[p]] = rec[p]] /\ UNCHANGED <<position, phase, todo>>
    BY DEF Save, systemVars
  <2>4. \A c \in Cids : store'[c].applied = store[c].applied
    BY <2>2, <2>3 DEF TypeOK, DurableTypeOK
  <2>5. CASE SaveThen[pc[p]] = "idle"
    BY <2>3, <2>4, <2>5, ReturnFills DEF Save
  <2>6. CASE SaveThen[pc[p]] # "idle"
    <3>1. CopyOK(store[cid[p]].applied, SaveThen[pc[p]], rec[p], fill[p])
      BY <2>1, <2>2 DEF CopyOK, FillLabels
    <3>. QED
      BY <2>1, <2>3, <2>4, <2>6, <3>1, HoldFills, PositionLabels DEF Save
  <2>. QED
    BY <2>5, <2>6
<1>. QED
  BY <1>1, <1>2

LEMMA SubmitFills ==
  ASSUME OneCallPerOrder, TypeOK, TypeOK', FillsInv, NEW p \in Workers, SubmitStep(p)
  PROVE  FillsInv'
<1>1. /\ UNCHANGED <<store, position, phase, todo>>
      /\ \A c \in Cids : store'[c].applied = store[c].applied
      /\ cid[p] \in Cids /\ rec[p] \in Records
  BY DEF SubmitStep, HandleExistingIntent, CheckBlocking, RunGates, Arm, PlaceOrder, PlaceAccepted,
     PlaceAmbiguous, PollImmediate, ResolveUnknown, durable, systemVars, TypeOK, HandsOK, WorkerTypeOK
<1>2. pc[p] \in {"blocking", "gates", "arm", "place", "await", "resolve"} => pc[p] \in Copying \ FillLabels
  BY DEF Copying, FillLabels
<1>3. {"savePending", "saveLast", "saveApproved", "saveSubmitted", "await", "saveAcked", "saveAmbiguous",
       "resolve"} \cap (FillLabels \union {"idle"}) = {}
  BY DEF FillLabels
<1>4. CASE HandleExistingIntent(p)
  <2>1. CASE Hold(p, store[cid[p]], "resolve")
    <3>1. CopyOK(store[cid[p]].applied, "resolve", store[cid[p]], fill[p])
      BY DEF CopyOK, FillLabels
    <3>. QED
      BY <1>1, <2>1, <3>1, HoldFills DEF AtPosition
  <2>. QED
    BY <1>1, <1>4, <2>1, ReturnFills DEF HandleExistingIntent
<1>5. CASE CheckBlocking(p)
  BY <1>1, <1>2, <1>3, <1>5, EnterFills DEF CheckBlocking
<1>6. CASE RunGates(p)
  BY <1>1, <1>2, <1>3, <1>6, EnterFills DEF RunGates
<1>7. CASE Arm(p)
  BY <1>1, <1>2, <1>3, <1>7, EnterFills DEF Arm
<1>8. CASE PlaceOrder(p)
  BY <1>1, <1>2, <1>3, <1>8, RestateFills DEF PlaceOrder
<1>9. CASE PlaceAccepted(p)
  BY <1>1, <1>2, <1>3, <1>9, RestateFills, SameFills DEF PlaceAccepted
<1>10. CASE PlaceAmbiguous(p)
  BY <1>1, <1>2, <1>3, <1>10, EnterFills DEF PlaceAmbiguous
<1>11. CASE PollImmediate(p)
  <2>1. CASE Return(p)
    BY <1>1, <2>1, ReturnFills
  <2>2. CASE ~Return(p)
    <3>. DEFINE n == book[cid[p]].filled
                f == [id |-> <<"immediate", n>>, qty |-> n - rec[p].filled]
    <3>1. /\ fill' = [fill EXCEPT ![p] = f] /\ Goto(p, "readFill") /\ UNCHANGED <<cid, rec, seen>>
      BY <1>11, <2>2 DEF PollImmediate
    <3>2. /\ \A q \in Workers \ {p} : pc'[q] = pc[q] /\ fill'[q] = fill[q]
          /\ pc'[p] = "readFill" /\ fill'[p] = f
      BY <3>1 DEF TypeOK, WorkerTypeOK, Goto
    <3>3. ApartOK'
      BY <1>1, <3>1, <3>2 DEF FillsInv, ApartOK
    <3>4. f.qty <= FillQty(f.id)
      <4>1. n \in 0..Qty /\ rec[p].filled \in 0..Qty
        BY <1>1 DEF TypeOK, BrokerTypeOK, BrokerOrders, Records
      <4>2. n - rec[p].filled <= n
        BY <4>1, QtyAssumption
      <4>3. FillQty(f.id) = n
        BY DEF FillQty
      <4>. QED
        BY <4>2, <4>3
    <3>5. "readFill" \notin Copying
      BY DEF Copying, SaveThen
    <3>. HIDE DEF f
    <3>6. CopyOK(store'[cid'[p]].applied, pc'[p], rec'[p], fill'[p])
      BY <3>2, <3>4, <3>5 DEF CopyOK
    <3>. QED
      BY <1>1, <3>1, <3>2, <3>3, <3>6, WorkerFills DEF AtPosition
  <2>. QED
    BY <2>1, <2>2
<1>12. CASE ResolveUnknown(p)
  <2>1. pc[p] \in Copying \ FillLabels
    BY <1>2, <1>12 DEF ResolveUnknown
  <2>2. CASE Hold(p, rec[p], "saveLast")
    BY <1>1, <1>3, <2>1, <2>2, RestateFills
  <2>3. CASE Enter(p, "REJECTED", "saveLast")
    BY <1>1, <1>3, <2>1, <2>3, EnterFills
  <2>4. CASE Return(p)
    BY <1>1, <2>4, ReturnFills
  <2>5. CASE Hold(p, [rec[p] EXCEPT !.boid = TRUE], "saveLast")
    BY <1>1, <1>3, <2>1, <2>5, RestateFills, SameFills
  <2>6. ASSUME NEW view, Hold(p, [[rec[p] EXCEPT !.boid = TRUE] EXCEPT !.state = MappedState(view),
                                   !.filled = view.filled], "saveLast")
        PROVE  FillsInv'
    <3>. DEFINE r == [[rec[p] EXCEPT !.boid = TRUE] EXCEPT !.state = MappedState(view),
                                                          !.filled = view.filled]
    <3>1. r.applied = rec[p].applied
      BY <1>1 DEF Records
    <3>. HIDE DEF r
    <3>. QED
      BY <1>1, <1>3, <2>1, <2>6, <3>1, RestateFills DEF r
  <2>. QED
    BY <1>12, <2>2, <2>3, <2>4, <2>5, <2>6 DEF ResolveUnknown
<1>. QED
  BY <1>4, <1>5, <1>6, <1>7, <1>8, <1>9, <1>10, <1>11, <1>12 DEF SubmitStep

LEMMA ApplyFills ==
  ASSUME OneCallPerOrder, TypeOK, TypeOK', FillsInv, NEW p \in Workers, ApplyFill(p) \/ LogTrade(p)
  PROVE  FillsInv'
<1>1. /\ UNCHANGED <<store, position, phase, todo>>
      /\ \A c \in Cids : store'[c].applied = store[c].applied
      /\ cid[p] \in Cids /\ rec[p] \in Records /\ store[cid[p]] \in Records
      /\ pc[p] \in FillLabels
  BY DEF ApplyFill, LogTrade, durable, systemVars, TypeOK, HandsOK, WorkerTypeOK, DurableTypeOK, FillLabels
<1>2. CopyOK(store[cid[p]].applied, pc[p], rec[p], fill[p])
  BY <1>1 DEF FillsInv
<1>3. CASE Return(p)
  BY <1>1, <1>3, ReturnFills
<1>4. CASE ApplyFill(p) /\ ~Return(p)
  <2>. DEFINE r == store[cid[p]]
              s == [r EXCEPT !.filled = @ + fill[p].qty, !.applied = @ \union {fill[p].id}]
  <2>1. fill[p].id \notin r.applied /\ Hold(p, s, "logTrade") /\ pc[p] = "readFill"
    BY <1>4 DEF ApplyFill
  <2>2. s.applied = r.applied \union {fill[p].id}
    BY <1>1 DEF Records
  <2>. HIDE DEF s
  <2>3. CopyOK(r.applied, "logTrade", s, fill[p])
    BY <1>1, <1>2, <2>1, <2>2 DEF CopyOK, FillLabels
  <2>. QED
    BY <1>1, <2>1, <2>3, HoldFills DEF AtPosition
<1>5. CASE LogTrade(p) /\ ~Return(p)
  <2>1. PICK x : Enter(p, x, "saveFill") /\ pc[p] = "logTrade"
    BY <1>5 DEF LogTrade
  <2>2. [rec[p] EXCEPT !.state = x].applied = rec[p].applied
    BY <1>1, SameFills
  <2>3. CopyOK(store[cid[p]].applied, "saveFill", [rec[p] EXCEPT !.state = x], fill[p])
    BY <1>1, <1>2, <2>1, <2>2 DEF CopyOK, FillLabels
  <2>. QED
    BY <1>1, <2>1, <2>3, HoldFills DEF AtPosition, Enter
<1>. QED
  BY <1>3, <1>4, <1>5

LEMMA ReadFills ==
  ASSUME OneCallPerOrder, TypeOK, TypeOK', FillsInv, NEW p \in Workers, ReadPosition(p)
  PROVE  FillsInv'
<1>. DEFINE c == cid[p]
<1>1. /\ pc[p] = "readPosition" /\ c \in Cids /\ UNCHANGED <<store, position, phase, todo, cid, rec, fill>>
      /\ pc' = [pc EXCEPT ![p] = "writePosition"] /\ seen' = [seen EXCEPT ![p] = position[SymbolOf[c]]]
  BY DEF ReadPosition, Goto, durable, systemVars, TypeOK, HandsOK
<1>2. /\ \A q \in Workers \ {p} : pc'[q] = pc[q] /\ seen'[q] = seen[q]
      /\ pc'[p] = "writePosition" /\ seen'[p] = position[SymbolOf[c]]
  BY <1>1 DEF TypeOK, WorkerTypeOK
<1>3. ApartOK'
  BY <1>1, <1>2 DEF FillsInv, ApartOK
<1>4. CopiesOK'
  <2>. SUFFICES ASSUME NEW q \in Workers, cid[q] \in Cids
                PROVE  CopyOK(store[cid[q]].applied, pc'[q], rec[q], fill[q])
    BY <1>1 DEF CopiesOK
  <2>1. CopyOK(store[cid[q]].applied, pc[q], rec[q], fill[q])
    BY DEF FillsInv
  <2>2. CASE q = p
    <3>1. "writePosition" \notin Copying \union {"logTrade", "saveFill"} /\ "readPosition" \in FillLabels
      BY DEF Copying, SaveThen, FillLabels
    <3>. QED
      BY <1>1, <1>2, <2>1, <2>2, <3>1 DEF CopyOK
  <2>. QED
    BY <1>2, <2>1, <2>2
<1>5. \A d \in Cids : Worth[d] <= Worth'[d]
  <2>1. \A q \in Workers : pc'[q] \in AtPosition => pc[q] \in AtPosition
    BY <1>1, <1>2 DEF AtPosition
  <2>. QED
    BY <1>1, <1>3, <2>1, QuietWorth DEF FillsInv
<1>6. \A q \in Workers :
        pc'[q] = "writePosition" =>
          \/ pc[q] = "writePosition" /\ seen'[q] = seen[q] /\ cid'[q] = cid[q]
          \/ seen'[q] <= Total(Worth', OfSymbol(SymbolOf[cid'[q]]))
  <2>1. SymbolOf[c] \in Symbols
    BY <1>1 DEF Symbols
  <2>2. /\ Total(Worth, OfSymbol(SymbolOf[c])) \in Int /\ Total(Worth', OfSymbol(SymbolOf[c])) \in Int
        /\ Total(Worth, OfSymbol(SymbolOf[c])) <= Total(Worth', OfSymbol(SymbolOf[c]))
    BY <1>5, <2>1, TotalsGrow
  <2>3. position[SymbolOf[c]] \in Nat /\ position[SymbolOf[c]] <= Total(Worth, OfSymbol(SymbolOf[c]))
    BY <2>1 DEF FillsInv, TypeOK, DurableTypeOK
  <2>4. seen'[p] <= Total(Worth', OfSymbol(SymbolOf[c]))
    BY <1>2, <2>2, <2>3
  <2>. QED
    BY <1>1, <1>2, <2>4
<1>. QED
  BY <1>1, <1>3, <1>4, <1>5, <1>6, GrownFills

(* The fill reaches the position: its order is worth that much more.        *)
LEMMA WriteFills ==
  ASSUME OneCallPerOrder, TypeOK, TypeOK', FillsInv, NEW p \in Workers, WritePosition(p)
  PROVE  FillsInv'
<1>. DEFINE c == cid[p]
            s == SymbolOf[c]
            n == fill[p].qty
<1>1. /\ pc[p] = "writePosition" /\ c \in Cids /\ fill[p] \in Fills /\ Return(p)
      /\ UNCHANGED <<store, phase, todo>> /\ position' = [position EXCEPT ![s] = seen[p] + n]
  BY DEF WritePosition, systemVars, TypeOK, HandsOK, FillLabels
<1>2. /\ \A q \in Workers \ {p} : /\ pc'[q] = pc[q] /\ cid'[q] = cid[q] /\ rec'[q] = rec[q]
                                  /\ fill'[q] = fill[q] /\ seen'[q] = seen[q]
      /\ pc'[p] = "idle" /\ cid'[p] = NoCid
  BY <1>1 DEF TypeOK, WorkerTypeOK, Return, Goto
<1>3. ApartOK'
  <2>1. NoCid \notin todo /\ NoCid \notin Cids
    BY CidsAssumption DEF TypeOK, SystemTypeOK
  <2>. QED
    BY <1>1, <1>2, <2>1 DEF FillsInv, ApartOK
<1>4. CopiesOK'
  BY <1>1, <1>2, CidsAssumption DEF CopiesOK, FillsInv
<1>5. \A d \in Cids : Worth[d] <= Worth'[d]
  <2>1. \A q \in Workers : pc'[q] \in AtPosition =>
          pc[q] \in AtPosition /\ cid'[q] = cid[q] /\ fill'[q].qty = fill[q].qty
    BY <1>2, PositionLabels
  <2>. QED
    BY <1>1, <1>3, <2>1, QuietWorth DEF FillsInv
<1>6. n \in Nat
  <2>1. n \in 1..Qty
    BY <1>1 DEF Fills
  <2>. QED
    BY <2>1, QtyAssumption
<1>7. Worth[c] + n <= Worth'[c]
  <2>1. \A q \in Workers \ {p} : cid[q] # c
    BY <1>1 DEF FillsInv, ApartOK
  <2>2. Bringing(c, pc, cid) = {p} /\ Bringing(c, pc', cid') = {}
    <3>1. \A q \in Workers : cid'[q] # c
      BY <1>1, <1>2, <2>1, CidsAssumption
    <3>. QED
      BY <1>1, <2>1, <3>1 DEF Bringing, AtPosition
  <2>3. Pending(c, pc, cid, fill) = n /\ Pending(c, pc', cid', fill') = 0
    BY <2>2 DEF Pending, Brought
  <2>4. /\ Worth[c] = Shares(store[c].applied) - Pending(c, pc, cid, fill) /\ Shares(store[c].applied) \in Int
        /\ Worth'[c] = Shares(store'[c].applied) - Pending(c, pc', cid', fill')
    BY <1>1, WorthNow
  <2>. QED
    BY <1>1, <1>6, <2>3, <2>4
<1>8. position'[s] <= Total(Worth', OfSymbol(s))
  <2>1. s \in Symbols /\ c \in OfSymbol(s)
    BY <1>1 DEF Symbols, OfSymbol
  <2>2. IsFiniteSet(OfSymbol(s)) /\ OfSymbol(s) \subseteq Cids
    BY <2>1, SymbolsFinite
  <2>3. Whole(Worth, OfSymbol(s)) /\ Whole(Worth', OfSymbol(s))
    BY <2>2, WorthNow DEF Whole
  <2>4. Total(Worth, OfSymbol(s)) + n <= Total(Worth', OfSymbol(s))
    BY <1>5, <1>6, <1>7, <2>1, <2>2, <2>3, TotalRaised
  <2>5. Total(Worth, OfSymbol(s)) \in Int /\ Total(Worth', OfSymbol(s)) \in Int
    BY <1>5, <2>1, TotalsGrow
  <2>6. seen[p] \in Nat /\ seen[p] <= Total(Worth, OfSymbol(s))
    BY <1>1 DEF FillsInv, TypeOK, WorkerTypeOK
  <2>7. position'[s] = seen[p] + n
    BY <1>1, <2>1 DEF TypeOK, DurableTypeOK
  <2>. HIDE DEF s, n
  <2>. QED
    BY <1>6, <2>4, <2>5, <2>6, <2>7
<1>9. \A t \in Symbols : position'[t] = position[t] \/ position'[t] <= Total(Worth', OfSymbol(t))
  BY <1>1, <1>8 DEF TypeOK, DurableTypeOK
<1>10. \A q \in Workers : pc'[q] = "writePosition" =>
          pc[q] = "writePosition" /\ seen'[q] = seen[q] /\ cid'[q] = cid[q]
  BY <1>2
<1>. QED
  BY <1>3, <1>4, <1>5, <1>9, <1>10, GrownFills

LEMMA FollowFills ==
  ASSUME OneCallPerOrder, TypeOK, TypeOK', FillsInv, NEW p \in Workers,
         SendCancel(p) \/ MonitorPoll(p) \/ MonitorTimeout(p)
  PROVE  FillsInv'
<1>1. /\ UNCHANGED <<store, position, phase, todo>>
      /\ \A c \in Cids : store'[c].applied = store[c].applied
      /\ pc[p] \in {"sendCancel", "monitor", "monitorBlind"}
      /\ cid[p] \in Cids /\ rec[p] \in Records
  BY DEF SendCancel, MonitorPoll, MonitorTimeout, durable, systemVars, TypeOK, HandsOK, WorkerTypeOK
<1>2. pc[p] \in Copying \ FillLabels
  BY <1>1 DEF Copying, FillLabels
<1>3. {"saveLast", "saveMonitor", "monitor"} \cap (FillLabels \union {"idle"}) = {}
  BY DEF FillLabels
<1>4. CASE Return(p)
  BY <1>1, <1>4, ReturnFills
<1>5. ASSUME NEW x, Enter(p, x, "saveLast") PROVE FillsInv'
  BY <1>1, <1>2, <1>3, <1>5, EnterFills
<1>6. CASE SendCancel(p)
  BY <1>4, <1>5, <1>6 DEF SendCancel
<1>7. CASE MonitorTimeout(p)
  BY <1>4, <1>5, <1>7 DEF MonitorTimeout
<1>8. CASE MonitorPoll(p)
  <2>1. PICK n :
          LET r == [rec[p] EXCEPT !.filled = n]
          IN \/ Return(p)
             \/ Hold(p, r, "monitor")
             \/ \E x, l : l \in {"saveLast", "saveMonitor"} /\ Hold(p, [r EXCEPT !.state = x], l)
    BY <1>8 DEF MonitorPoll
  <2>. DEFINE r == [rec[p] EXCEPT !.filled = n]
  <2>2. r.applied = rec[p].applied /\ \A x : [r EXCEPT !.state = x].applied = rec[p].applied
    BY <1>1 DEF Records
  <2>. HIDE DEF r
  <2>3. CASE Hold(p, r, "monitor")
    BY <1>1, <1>2, <1>3, <2>2, <2>3, RestateFills
  <2>4. ASSUME NEW x, NEW l \in {"saveLast", "saveMonitor"}, Hold(p, [r EXCEPT !.state = x], l)
        PROVE  FillsInv'
    BY <1>1, <1>2, <1>3, <2>2, <2>4, RestateFills
  <2>. QED
    BY <1>4, <2>1, <2>3, <2>4 DEF r
<1>. QED
  BY <1>6, <1>7, <1>8

LEMMA RecoverFills ==
  ASSUME OneCallPerOrder, TypeOK, TypeOK', FillsInv, NEW p \in Workers, RecoverStep(p)
  PROVE  FillsInv'
<1>1. CASE RecoverStart(p)
  <2>1. /\ UNCHANGED <<store, position, phase, cid, rec, fill, seen>> /\ phase = "recovering"
        /\ pc' = [pc EXCEPT ![p] = "recover"] /\ \A q \in Workers : pc[q] = "idle"
    BY <1>1 DEF RecoverStart, Goto, durable
  <2>2. /\ \A q \in Workers : q # p => pc'[q] = pc[q]
        /\ pc'[p] = "recover" /\ \A q \in Workers : cid[q] = NoCid
    BY <2>1 DEF FillsInv, ApartOK, TypeOK, WorkerTypeOK
  <2>3. ApartOK'
    BY <2>1, <2>2, CidsAssumption DEF ApartOK, TypeOK, SystemTypeOK
  <2>. QED
    BY <2>1, <2>2, <2>3, CidsAssumption, WorkerFills DEF AtPosition
<1>2. CASE RecoverDone(p)
  <2>1. Return(p) /\ todo' = {} /\ UNCHANGED <<store, position>>
    BY <1>2 DEF RecoverDone, durable
  <2>. QED
    BY <2>1, ReturnFills
<1>3. ASSUME NEW c \in Cids, RecoverNext(p, c) PROVE FillsInv'
  <2>1. /\ \A q \in Workers : cid[q] # c
        /\ UNCHANGED <<store, position, phase>> /\ todo' = todo \ {c}
    BY <1>3 DEF RecoverNext, FillsInv, ApartOK, durable
  <2>2. PICK l : Begin(p, c, store[c], l) /\ l \in {"recoverIntent", "recoverOrder"}
    BY <1>3 DEF RecoverNext
  <2>3. l \notin FillLabels \union {"idle"}
    BY <2>2 DEF FillLabels
  <2>. QED
    BY <2>1, <2>2, <2>3, BeginFills
<1>4. ASSUME RecoverIntent(p) \/ RecoverOrder(p)
      PROVE  /\ UNCHANGED <<store, position>> /\ cid[p] \in Cids /\ rec[p] \in Records
             /\ pc[p] \in Copying \ FillLabels
  BY <1>4 DEF RecoverIntent, RecoverOrder, durable, TypeOK, HandsOK, WorkerTypeOK, Copying, FillLabels
<1>5. {"saveRecovered", "recoverOrder", "recover"} \cap (FillLabels \union {"idle"}) = {}
  BY DEF FillLabels
<1>6. CASE RecoverIntent(p)
  <2>1. UNCHANGED <<phase, todo>>
    BY <1>6 DEF RecoverIntent, systemVars
  <2>. QED
    BY <1>4, <1>5, <1>6, <2>1, EnterFills DEF RecoverIntent
<1>7. CASE RecoverOrder(p)
  <2>1. CASE Return(p) /\ todo' = {}
    BY <1>4, <1>7, <2>1, ReturnFills
  <2>2. ASSUME NEW r, NEW l \in {"recover", "saveRecovered"}, Hold(p, r, l), UNCHANGED systemVars,
               r.applied = rec[p].applied
        PROVE  FillsInv'
    <3>1. UNCHANGED <<phase, todo>>
      BY <2>2 DEF systemVars
    <3>. QED
      BY <1>4, <1>5, <1>7, <2>2, <3>1, RestateFills
  <2>3. ASSUME NEW r, NEW x, Settle(p, r, x), r \in Records, r.applied = rec[p].applied
        PROVE  FillsInv'
    <3>1. [r EXCEPT !.state = x].applied = rec[p].applied
      BY <2>3, SameFills
    <3>. QED
      BY <2>1, <2>2, <2>3, <3>1 DEF Settle
  <2>4. ASSUME NEW view \in Views(cid[p]),
               LET state == MappedState(view)
                   r     == [rec[p] EXCEPT !.boid = TRUE, !.filled = view.filled]
               IN IF state = r.state
                  THEN Hold(p, r, "saveRecovered") /\ UNCHANGED systemVars
                  ELSE Settle(p, r, state)
        PROVE  FillsInv'
    <3>. DEFINE r == [rec[p] EXCEPT !.boid = TRUE, !.filled = view.filled]
    <3>1. view.filled \in 0..Qty
      BY <1>4, <1>7, ViewType DEF TypeOK
    <3>2. r \in Records /\ r.applied = rec[p].applied
      BY <1>4, <1>7, <3>1 DEF Records
    <3>3. \/ Hold(p, r, "saveRecovered") /\ UNCHANGED systemVars
          \/ Settle(p, r, MappedState(view))
      BY <2>4
    <3>. HIDE DEF r
    <3>. QED
      BY <2>2, <2>3, <3>2, <3>3
  <2>5. rec[p] \in Records
    BY <1>4, <1>7
  <2>6. \/ Hold(p, rec[p], "recover") /\ UNCHANGED systemVars
        \/ \E x : Settle(p, rec[p], x)
        \/ \E view \in Views(cid[p]) :
               LET state == MappedState(view)
                   r     == [rec[p] EXCEPT !.boid = TRUE, !.filled = view.filled]
               IN IF state = r.state
                  THEN Hold(p, r, "saveRecovered") /\ UNCHANGED systemVars
                  ELSE Settle(p, r, state)
    BY <1>7 DEF RecoverOrder
  <2>. QED
    BY <2>2, <2>3, <2>4, <2>5, <2>6
<1>. QED
  BY <1>1, <1>2, <1>3, <1>6, <1>7 DEF RecoverStep

LEMMA CallFills ==
  ASSUME OneCallPerOrder, TypeOK, TypeOK', FillsInv, NEW p \in Workers, Call(p)
  PROVE  FillsInv'
<1>1. PICK c \in Cids : \/ Reserve(p, c) \/ Resubmit(p, c) \/ CancelOrder(p, c) \/ MonitorOrder(p, c)
                        \/ \E n \in 1..Qty : HandleFill(p, c, n)
  BY DEF Call
<1>2. /\ \A q \in Workers : cid[q] # c
      /\ c \notin todo /\ UNCHANGED <<position, phase, todo>>
  BY <1>1 DEF Reserve, Resubmit, CancelOrder, MonitorOrder, HandleFill, Free, OneCallPerOrder,
     FillsInv, ApartOK, durable, systemVars
<1>3. {"blocking", "existing", "sendCancel", "saveCancelPending", "monitorBlind"}
        \cap (FillLabels \union {"idle"}) = {}
  BY DEF FillLabels
<1>4. store[c] \in Records /\ \A d \in Cids : store[d] \in Records
  BY DEF TypeOK, DurableTypeOK
<1>5. CASE Reserve(p, c)
  <2>1. store' = [store EXCEPT ![c] = NewRecord] /\ store[c] = NoRecord /\ Begin(p, c, NewRecord, "blocking")
    BY <1>5 DEF Reserve
  <2>2. NewRecord.applied = NoRecord.applied
    BY DEF NewRecord, NoRecord
  <2>3. \A d \in Cids : store'[d].applied = store[d].applied
    BY <2>1, <2>2 DEF TypeOK, DurableTypeOK
  <2>. QED
    BY <1>2, <1>3, <2>1, <2>2, <2>3, BeginFills
<1>6. CASE Resubmit(p, c)
  <2>1. Begin(p, c, NoRecord, "existing") /\ UNCHANGED store /\ "existing" \notin Copying
    BY <1>6 DEF Resubmit, durable, Copying, SaveThen
  <2>. QED
    BY <1>2, <1>3, <2>1, BeginFills
<1>7. CASE CancelOrder(p, c)
  <2>1. UNCHANGED store /\ \/ Begin(p, c, store[c], "sendCancel")
                           \/ Begin(p, c, [store[c] EXCEPT !.state = "CANCEL_PENDING"], "saveCancelPending")
    BY <1>7 DEF CancelOrder, durable
  <2>2. [store[c] EXCEPT !.state = "CANCEL_PENDING"].applied = store[c].applied
    BY <1>4, SameFills
  <2>. QED
    BY <1>2, <1>3, <2>1, <2>2, BeginFills
<1>8. CASE MonitorOrder(p, c)
  <2>1. UNCHANGED store /\ Begin(p, c, store[c], "monitorBlind")
    BY <1>8 DEF MonitorOrder, durable
  <2>. QED
    BY <1>2, <1>3, <2>1, BeginFills
<1>9. ASSUME NEW n \in 1..Qty, HandleFill(p, c, n) PROVE FillsInv'
  <2>1. /\ UNCHANGED <<store, rec, seen>> /\ cid' = [cid EXCEPT ![p] = c]
        /\ fill' = [fill EXCEPT ![p] = [id |-> <<"trade", n>>, qty |-> 1]]
        /\ pc' = [pc EXCEPT ![p] = "readFill"]
    BY <1>9 DEF HandleFill, Goto, durable
  <2>2. /\ \A q \in Workers \ {p} : pc'[q] = pc[q] /\ cid'[q] = cid[q] /\ fill'[q] = fill[q]
        /\ pc'[p] = "readFill" /\ cid'[p] = c /\ fill'[p] = [id |-> <<"trade", n>>, qty |-> 1]
    BY <2>1 DEF TypeOK, WorkerTypeOK
  <2>3. ApartOK'
    BY <1>2, <2>2 DEF FillsInv, ApartOK
  <2>4. fill'[p].qty = 1 /\ FillQty(fill'[p].id) = 1 /\ "readFill" \notin Copying
    BY <2>2 DEF FillQty, Copying, SaveThen
  <2>5. CopyOK(store'[cid'[p]].applied, pc'[p], rec'[p], fill'[p])
    BY <2>2, <2>4 DEF CopyOK
  <2>. QED
    BY <1>2, <2>1, <2>2, <2>3, <2>5, WorkerFills DEF AtPosition
<1>. QED
  BY <1>1, <1>5, <1>6, <1>7, <1>8, <1>9

LEMMA CrashFills ==
  ASSUME OneCallPerOrder, TypeOK, TypeOK', FillsInv, Crash
  PROVE  FillsInv'
<1>1. /\ UNCHANGED <<store, position>> /\ todo' = {}
      /\ \A p \in Workers : pc'[p] = "idle" /\ cid'[p] = NoCid
  BY DEF Crash, durable
<1>2. ApartOK' /\ CopiesOK'
  BY <1>1, CidsAssumption DEF ApartOK, CopiesOK
<1>3. \A c \in Cids : Worth[c] <= Worth'[c]
  BY <1>1, <1>2, QuietWorth, PositionLabels DEF FillsInv
<1>. QED
  BY <1>1, <1>2, <1>3, GrownFills

LEMMA InitFills == OneCallPerOrder /\ Init => FillsInv
<1>. SUFFICES ASSUME OneCallPerOrder, Init PROVE FillsInv
  OBVIOUS
<1>1. /\ \A p \in Workers : pc[p] = "idle" /\ cid[p] = NoCid
      /\ todo = {} /\ \A s \in Symbols : position[s] = 0
  BY DEF Init
<1>2. ApartOK
  BY <1>1, CidsAssumption DEF ApartOK
<1>3. TypeOK
  BY InitType
<1>4. ASSUME NEW c \in Cids PROVE Worth[c] = 0
  <2>1. store[c].applied = {} /\ Shares(store[c].applied) = 0
    BY SharesNone DEF Init, NoRecord
  <2>2. Pending(c, pc, cid, fill) = 0
    <3>1. Bringing(c, pc, cid) = {}
      BY <1>1, PositionLabels DEF Bringing
    <3>. QED
      BY <3>1 DEF Pending, Brought
  <2>3. Worth[c] = Shares(store[c].applied) - Pending(c, pc, cid, fill)
    BY <1>3, WorthNow
  <2>. QED
    BY <2>1, <2>2, <2>3
<1>5. ASSUME NEW s \in Symbols PROVE position[s] <= Total(Worth, OfSymbol(s))
  <2>1. IsFiniteSet(OfSymbol(s)) /\ OfSymbol(s) \subseteq Cids
    BY SymbolsFinite
  <2>2. Whole(Worth, OfSymbol(s)) /\ \A c \in OfSymbol(s) : 0 <= Worth[c]
    BY <1>4, <2>1 DEF Whole
  <2>3. 0 <= Total(Worth, OfSymbol(s))
    BY <2>1, <2>2, TotalNothing
  <2>. QED
    BY <1>1, <2>3
<1>. QED
  BY <1>1, <1>2, <1>5, CidsAssumption DEF FillsInv

LEMMA NextFills == OneCallPerOrder /\ TypeOK /\ FillsInv /\ [Next]_vars => FillsInv'
<1>. SUFFICES ASSUME OneCallPerOrder, TypeOK, FillsInv, [Next]_vars PROVE FillsInv'
  OBVIOUS
<1>1. TypeOK'
  BY NextType
<1>2. ASSUME NEW p \in Workers, Step(p) PROVE FillsInv'
  <2>1. CASE Save(p)
    BY <1>1, <2>1, SaveFills
  <2>2. CASE SubmitStep(p)
    BY <1>1, <2>2, SubmitFills
  <2>3. CASE FillStep(p)
    BY <1>1, <2>3, ApplyFills, ReadFills, WriteFills DEF FillStep
  <2>4. CASE RecoverStep(p)
    BY <1>1, <2>4, RecoverFills
  <2>5. CASE SendCancel(p) \/ MonitorPoll(p) \/ MonitorTimeout(p)
    BY <1>1, <2>5, FollowFills
  <2>. QED
    BY <1>2, <2>1, <2>2, <2>3, <2>4, <2>5 DEF Step
<1>3. ASSUME NEW p \in Workers, Kill(p) PROVE FillsInv'
  BY <1>1, <1>3, ReturnFills DEF Kill, durable, systemVars
<1>4. CASE Broker \/ Restart \/ UNCHANGED vars
  <2>1. UNCHANGED <<store, position, pc, cid, rec, fill, seen, todo>>
        /\ (phase' = phase \/ phase # "recovering")
    BY <1>4 DEF Broker, Land, Lose, Open, Execute, Finish, SetOrder, Restart, vars, durable, workerVars, systemVars
  <2>2. ApartOK'
    BY <2>1 DEF FillsInv, ApartOK
  <2>3. Worth' = Worth
    BY <2>1 DEF Worth
  <2>. QED
    BY <2>1, <2>2, <2>3 DEF FillsInv
<1>. QED
  BY <1>1, <1>2, <1>3, <1>4, CallFills, CrashFills DEF Next

(* What a record counts is at least what its order is worth.                *)
LEMMA RecordedTotal ==
  ASSUME NEW s
  PROVE  Recorded(s) = Total([c \in Cids |-> Shares(store[c].applied)], OfSymbol(s))
<1>. DEFINE C == OfSymbol(s)
            B == [c \in Cids |-> Shares(store[c].applied)]
            F(g) == [t \in SUBSET C |->
                       IF t = {} THEN 0
                       ELSE LET x == CHOOSE y \in t : TRUE IN Shares(store[x].applied) + g[t \ {x}]]
            E(g) == [t \in SUBSET C |->
                       IF t = {} THEN 0
                       ELSE LET x == CHOOSE y \in t : TRUE IN B[x] + g[t \ {x}]]
<1>1. ASSUME NEW g PROVE F(g) = E(g)
  <2>1. ASSUME NEW t \in SUBSET C, t # {}
        PROVE  Shares(store[CHOOSE y \in t : TRUE].applied) = B[CHOOSE y \in t : TRUE]
    <3>1. (CHOOSE y \in t : TRUE) \in Cids
      BY <2>1 DEF OfSymbol
    <3>. QED
      BY <3>1
  <2>. HIDE DEF B
  <2>2. ASSUME NEW t \in SUBSET C PROVE F(g)[t] = E(g)[t]
    BY <2>1
  <2>3. F(g) = [t \in SUBSET C |-> F(g)[t]] /\ E(g) = [t \in SUBSET C |-> E(g)[t]]
    OBVIOUS
  <2>. HIDE DEF F, E
  <2>. QED
    BY <2>2, <2>3
<1>2. Recorded(s) = (CHOOSE g : g = F(g))[C]
  BY DEF Recorded, Shares, OfSymbol, MapThenSumSet, MapThenFoldSet
<1>3. Total(B, C) = (CHOOSE g : g = E(g))[C]
  <2>. HIDE DEF B, C
  <2>. QED
    BY DEF Total, SumFunctionOnSet, FoldFunctionOnSet, MapThenFoldSet
<1>4. \A g : g = F(g) <=> g = E(g)
  <2>. HIDE DEF F, E
  <2>. QED
    BY <1>1
<1>. HIDE DEF F, E
<1>5. (CHOOSE g : g = F(g)) = (CHOOSE g : g = E(g))
  BY <1>4
<1>. QED
  BY <1>2, <1>3, <1>5

(* No fill message moves a position twice, whatever is delivered again and  *)
(* whichever calls race for the position (order_manager.py, handle_fill;    *)
(* lifecycle.py, apply_position_delta).                                     *)
THEOREM BookedOnce ==
  ASSUME OneCallPerOrder
  PROVE  Spec => []FillsBookedOnce
<1>1. TypeOK /\ FillsInv => FillsBookedOnce
  <2>. SUFFICES ASSUME TypeOK, FillsInv, NEW s \in Symbols PROVE position[s] <= Recorded(s)
    BY DEF FillsBookedOnce
  <2>. DEFINE B == [c \in Cids |-> Shares(store[c].applied)]
  <2>1. IsFiniteSet(OfSymbol(s)) /\ OfSymbol(s) \subseteq Cids
    BY SymbolsFinite
  <2>2. \A c \in Cids : B[c] \in Int /\ Worth[c] \in Int /\ Worth[c] <= B[c]
    BY WorthNow
  <2>3. Recorded(s) = Total(B, OfSymbol(s))
    BY RecordedTotal
  <2>. HIDE DEF B
  <2>4. Whole(Worth, OfSymbol(s)) /\ Whole(B, OfSymbol(s)) /\ \A c \in OfSymbol(s) : Worth[c] <= B[c]
    BY <2>1, <2>2 DEF Whole
  <2>5. /\ Total(Worth, OfSymbol(s)) <= Total(B, OfSymbol(s))
        /\ Total(Worth, OfSymbol(s)) \in Int /\ Total(B, OfSymbol(s)) \in Int
    BY <2>1, <2>4, TotalBelow, TotalType
  <2>6. position[s] \in Nat /\ position[s] <= Total(Worth, OfSymbol(s))
    BY DEF FillsInv, TypeOK, DurableTypeOK
  <2>. QED
    BY <2>3, <2>5, <2>6
<1>2. OneCallPerOrder /\ Init => FillsInv
  BY InitFills
<1>3. TypeOK /\ FillsInv /\ [Next]_vars => FillsInv'
  BY NextFills
<1>. QED
  BY <1>1, <1>2, <1>3, TypeCorrect, PTL DEF Spec

-----------------------------------------------------------------------------
(* Two refinements.  OrderManager implements OrderIntent, which says when an *)
(* order may be sent, and OrderOutcome, which says what its record may claim *)
(* - the latter when the calls of an order come one at a time, with lost     *)
(* replies, odd and unreadable answers, cancellations, kills and crashes.    *)

-----------------------------------------------------------------------------
(* The order intent                                                         *)

(* PlacementInv bounds the broker calls; that no save takes an intent back  *)
(* needs to know what it writes over.  Until it arms the order, its owner   *)
(* finds the record in a state from before approval, and a call that holds  *)
(* a state from after it saves that over another such state.                *)
StageOK(p) ==
    /\ pc[p] = "idle" => rec[p].state = NoStatus
    /\ pc[p] \in {"logTrade", "monitorBlind", "monitor"} => rec[p].state # NoStatus
    /\ pc[p] = "sendCancel" => rec[p].state \in PastApproval
    /\ pc[p] = "recoverOrder" => rec[p].state \in PastApproval \union {"RISK_REJECTED"}
    /\ pc[p] \in {"savePending", "saveApproved"} => rec[p].state \in PreSubmitStates
    /\ Owns(p) /\ pc[p] # "place" => store[cid[p]].state \in PreSubmitStates
    /\ ~Owns(p) /\ cid[p] \in Cids /\ rec[p].state \in PastApproval
         => store[cid[p]].state \in PastApproval
    /\ pc[p] = "await" => store[cid[p]].state \in PastApproval
    /\ pc[p] = "saveRecovered" /\ rec[p].state \notin PastApproval
         => store[cid[p]].state \in PreSubmitStates

StoreOK ==
    /\ \A c \in Cids : store[c].state = NoStatus => store[c] = NoRecord
    /\ \A c \in todo : store[c].state # NoStatus

StageInv == StoreOK /\ \A p \in Workers : StageOK(p)

(* Which legal transitions lead past approval from before it, or from a     *)
(* refusal: only the arming of an approved order, or its cancellation.      *)
LEMMA ApprovalTransitions ==
  ASSUME NEW s \in OrderStates, NEW t, NEW reconciled, CanTransition(s, t, reconciled),
         t \in PastApproval, s \notin PastApproval
  PROVE  s = "RISK_APPROVED" /\ t \in {"SUBMITTED", "CANCELLED"}
BY DEF CanTransition, LegalTransitions, PastApproval, OrderStates, OpenStates,
       PreSubmitStates, TerminalStates

LEMMA StateKinds ==
  /\ NoStatus \notin PastApproval /\ NoStatus \notin PreSubmitStates
  /\ "RISK_REJECTED" \notin PreSubmitStates
  /\ {"RISK_CHECK_PENDING", "RISK_APPROVED", "INTENT_CREATED"} = PreSubmitStates
  /\ OrderStates = PreSubmitStates \union PastApproval \union {"RISK_REJECTED"}
  /\ NoRecord.state = NoStatus /\ NewRecord.state = "INTENT_CREATED"
BY DEF PastApproval, OrderStates, OpenStates, PreSubmitStates, TerminalStates, NoStatus,
       NoRecord, NewRecord

LEMMA RecordState ==
  ASSUME TypeOK
  PROVE  /\ \A c \in Cids : store[c] \in Records /\ store[c].state \in OrderStates \union {NoStatus}
         /\ \A p \in Workers : rec[p] \in Records /\ rec[p].state \in OrderStates \union {NoStatus}
BY DEF TypeOK, DurableTypeOK, WorkerTypeOK, Records

LEMMA InitStage == Init => StageInv
<1>. SUFFICES ASSUME Init PROVE StageInv
  OBVIOUS
<1>1. StoreOK
  BY StateKinds DEF Init, StoreOK
<1>2. ASSUME NEW p \in Workers PROVE StageOK(p)
  BY CidsAssumption, StateKinds DEF Init, StageOK, Owns, Owning
<1>. QED
  BY <1>1, <1>2 DEF StageInv

(* A step of one call that leaves the store alone. *)
LEMMA LocalStage ==
  ASSUME StageInv, NEW p \in Workers, UNCHANGED store, todo' \subseteq todo,
         \A q \in Workers \ {p} : pc'[q] = pc[q] /\ cid'[q] = cid[q] /\ rec'[q] = rec[q],
         StageOK(p)'
  PROVE  StageInv'
<1>1. StoreOK'
  BY DEF StageInv, StoreOK
<1>2. ASSUME NEW q \in Workers \ {p} PROVE StageOK(q)'
  BY DEF StageInv, StageOK, Owns
<1>. QED
  BY <1>1, <1>2 DEF StageInv

LEMMA ReturnStage ==
  ASSUME TypeOK, StageInv, NEW p \in Workers, Return(p), UNCHANGED store, todo' \subseteq todo
  PROVE  StageInv'
<1>1. pc'[p] = "idle" /\ cid'[p] \notin Cids /\ rec'[p].state = NoStatus
  BY CidsAssumption, StateKinds DEF Return, Goto, TypeOK, WorkerTypeOK
<1>2. StageOK(p)'
  BY <1>1 DEF StageOK, Owns, Owning
<1>. QED
  BY <1>2, ReturnMoves, LocalStage

(* A call that owns no order goes on with the order it has. *)
LEMMA HeldStage ==
  ASSUME TypeOK, StageInv, NEW p \in Workers, NEW l, UNCHANGED store, todo' \subseteq todo,
         \A q \in Workers \ {p} : pc'[q] = pc[q] /\ cid'[q] = cid[q] /\ rec'[q] = rec[q],
         pc'[p] = l, cid'[p] \in Cids,
         l \notin Owning \union {"idle", "await"},
         l \in {"saveLast", "saveRecovered", "sendCancel"} => rec'[p].state \in PastApproval,
         l = "recoverOrder" => rec'[p].state \in PastApproval \union {"RISK_REJECTED"},
         l \in {"logTrade", "monitorBlind", "monitor"} => rec'[p].state # NoStatus,
         rec'[p].state \in PastApproval => store[cid'[p]].state \in PastApproval
  PROVE  StageInv'
<1>1. ~Owns(p)'
  BY StateClasses DEF Owns
<1>2. StageOK(p)'
  BY <1>1 DEF StageOK, Owning
<1>. QED
  BY <1>2, LocalStage

(* The owner goes on towards the broker call, or gives the order up. *)
LEMMA OwnerStage ==
  ASSUME TypeOK, StageInv, NEW p \in Workers, NEW s \in OrderStates, NEW l, Owns(p),
         pc[p] # "place", Enter(p, s, l), UNCHANGED store, todo' \subseteq todo,
         l \in Owning \/ (l = "saveLast" /\ s = "RISK_REJECTED"),
         l \in {"savePending", "saveApproved"} => s \in PreSubmitStates
  PROVE  StageInv'
<1>1. pc'[p] = l /\ rec'[p].state = s /\ cid'[p] = cid[p]
  BY EnterMoves
<1>2. Owns(p)'
  BY <1>1 DEF Owns
<1>3. store[cid[p]].state \in PreSubmitStates
  BY DEF StageInv, StageOK
<1>4. StageOK(p)'
  BY <1>1, <1>2, <1>3 DEF StageOK, Owning
<1>. QED
  BY <1>4, EnterMoves, LocalStage

(* What every call that saves writes, and over what. *)
LEMMA SaveWrites ==
  ASSUME TypeOK, PlacementInv, StageInv, NEW p \in Workers, Save(p)
  PROVE  /\ cid[p] \in Cids /\ rec[p].state \in OrderStates
         /\ \/ /\ Owns(p) /\ store[cid[p]].state \in PreSubmitStates
            \/ /\ ~Owns(p)
               /\ rec[p].state \in PastApproval /\ store[cid[p]].state \in PastApproval
            \/ /\ pc[p] = "saveRecovered" /\ rec[p].state = "RISK_REJECTED"
               /\ store[cid[p]].state \in PreSubmitStates
         /\ store' = [store EXCEPT ![cid[p]] = rec[p]]
         /\ UNCHANGED <<sent, todo>>
<1>1. cid[p] \in Cids /\ pc[p] \in DOMAIN SaveThen /\ pc[p] # "place"
  BY DEF Save, SaveThen, TypeOK, HandsOK
<1>2. rec[p].state # NoStatus
  BY <1>1, StateKinds, StateClasses DEF PlacementInv, SaveInv, OwnerInv, NoStatus
<1>3. rec[p].state \in OrderStates
  BY <1>2, RecordState
<1>4. CASE Owns(p)
  BY <1>1, <1>3, <1>4 DEF StageInv, StageOK, Save, brokerVars, systemVars
<1>5. CASE ~Owns(p) /\ rec[p].state \in PastApproval
  BY <1>1, <1>3, <1>5 DEF StageInv, StageOK, Save, brokerVars, systemVars
<1>6. CASE ~Owns(p) /\ rec[p].state \notin PastApproval
  BY <1>1, <1>3, <1>6
     DEF StageInv, StageOK, Save, brokerVars, systemVars, PlacementInv, SaveInv
<1>. QED
  BY <1>4, <1>5, <1>6

LEMMA SaveStage ==
  ASSUME TypeOK, PlacementInv, StageInv, NEW p \in Workers, Save(p)
  PROVE  StageInv'
<1>. DEFINE c == cid[p]
<1>1. /\ c \in Cids /\ rec[p].state \in OrderStates /\ pc[p] \in DOMAIN SaveThen
      /\ UNCHANGED todo
  BY SaveWrites DEF Save
<1>2. store'[c] = rec[p] /\ \A d \in Cids \ {c} : store'[d] = store[d]
  BY <1>1, SaveWrites DEF TypeOK, DurableTypeOK
<1>3. /\ pc'[p] = SaveThen[pc[p]]
      /\ pc'[p] # "idle" => cid'[p] = c /\ rec'[p] = rec[p]
      /\ \A q \in Workers \ {p} : pc'[q] = pc[q] /\ cid'[q] = cid[q] /\ rec'[q] = rec[q]
  <2>1. CASE SaveThen[pc[p]] = "idle"
    BY <2>1, ReturnMoves DEF Save
  <2>2. CASE SaveThen[pc[p]] # "idle"
    BY <2>2, HoldMoves DEF Save
  <2>. QED
    BY <2>1, <2>2
<1>4. StoreOK'
  <2>1. todo \subseteq Cids
    BY DEF TypeOK, SystemTypeOK
  <2>. QED
    BY <1>1, <1>2, <2>1, StateClasses DEF StageInv, StoreOK
<1>5. StageOK(p)'
  <2>1. CASE SaveThen[pc[p]] = "idle"
    <3>1. pc'[p] = "idle" /\ cid'[p] \notin Cids /\ rec'[p].state = NoStatus
      BY <1>1, <2>1, CidsAssumption, StateKinds DEF Save, Return, Goto, TypeOK, WorkerTypeOK
    <3>. QED
      BY <3>1 DEF StageOK, Owns, Owning
  <2>2. CASE SaveThen[pc[p]] # "idle"
    <3>1. cid'[p] = c /\ rec'[p] = rec[p] /\ store'[c].state = rec[p].state
      BY <1>2, <1>3, <2>2
    <3>2. /\ pc'[p] \in {"gates", "arm", "place", "poll", "resolve", "readPosition", "sendCancel",
                         "monitor", "recover"}
          /\ pc'[p] \in {"gates", "arm"} => pc[p] \in {"savePending", "saveApproved"}
          /\ pc'[p] = "sendCancel" => pc[p] = "saveCancelPending"
      BY <1>1, <1>3, <2>2 DEF SaveThen
    <3>3. pc'[p] \in {"gates", "arm"} => rec[p].state \in PreSubmitStates
      BY <3>2 DEF StageInv, StageOK
    <3>4. pc'[p] = "sendCancel" => rec[p].state \in PastApproval
      BY <1>1, <3>2 DEF PlacementInv, SaveInv, Owns, Owning
    <3>. QED
      BY <1>1, <3>1, <3>2, <3>3, <3>4, StateClasses DEF StageOK, Owns, Owning
  <2>. QED
    BY <2>1, <2>2
<1>6. ASSUME NEW q \in Workers \ {p} PROVE StageOK(q)'
  <2>1. pc'[q] = pc[q] /\ cid'[q] = cid[q] /\ rec'[q] = rec[q] /\ (Owns(q)' <=> Owns(q))
    BY <1>3 DEF Owns
  <2>2. CASE cid[q] # c
    <3>1. Owns(q) \/ pc[q] \in {"await", "saveRecovered"} => cid[q] \in Cids
      BY DEF TypeOK, HandsOK, Owns, Owning
    <3>2. cid[q] \in Cids => store'[cid[q]] = store[cid[q]]
      BY <1>2, <2>2
    <3>. QED
      BY <2>1, <3>1, <3>2 DEF StageInv, StageOK
  <2>3. CASE cid[q] = c
    <3>1. Owns(p) => ~Owns(q)
      BY <2>3 DEF PlacementInv, SoleOwner
    <3>2. pc[p] = "saveRecovered" => pc[q] = "idle"
      BY DEF PlacementInv, AloneInv, RecoverLabels
    <3>3. pc[q] # "saveRecovered"
      BY <1>1 DEF PlacementInv, AloneInv, RecoverLabels, SaveThen
    <3>4. Owns(q) /\ pc[q] # "place" => FALSE
      BY <2>3, <3>1, <3>2, SaveWrites, StateClasses DEF StageInv, StageOK, Owns, Owning
    <3>5. store[c].state \in PastApproval => store'[c].state \in PastApproval
      BY <1>2, SaveWrites, StateClasses
    <3>. QED
      BY <2>1, <2>3, <3>3, <3>4, <3>5 DEF StageInv, StageOK
  <2>. QED
    BY <2>2, <2>3
<1>. QED
  BY <1>4, <1>5, <1>6 DEF StageInv

LEMMA SubmitStage ==
  ASSUME TypeOK, PlacementInv, StageInv, PlacementInv', NEW p \in Workers, SubmitStep(p)
  PROVE  StageInv'
<1>. USE StateNames
<1>1. UNCHANGED <<store, todo>> /\ pc[p] # "idle" /\ pc[p] # "recover" /\ cid[p] \in Cids
  BY DEF SubmitStep, HandleExistingIntent, CheckBlocking, RunGates, Arm, PlaceOrder,
         PlaceAccepted, PlaceAmbiguous, PollImmediate, ResolveUnknown, durable, systemVars,
         TypeOK, HandsOK
<1>2. CASE Return(p)
  BY <1>1, <1>2, ReturnStage
<1>3. CASE HandleExistingIntent(p) /\ ~Return(p)
  <2>1. Hold(p, store[cid[p]], "resolve")
    BY <1>3 DEF HandleExistingIntent
  <2>. QED
    BY <1>1, <2>1, HoldMoves, HeldStage DEF Owning
<1>4. CASE CheckBlocking(p)
  BY <1>1, <1>4, OwnerStage, StateKinds DEF CheckBlocking, Owns, Owning
<1>5. CASE RunGates(p)
  BY <1>1, <1>5, OwnerStage, StateKinds DEF RunGates, Owns, Owning
<1>6. CASE Arm(p)
  BY <1>1, <1>6, OwnerStage, StateKinds DEF Arm, Owns, Owning
<1>7. CASE PlaceOrder(p)
  <2>1. store[cid[p]].state \in PastApproval
    BY <1>7 DEF PlaceOrder, PlacementInv, SaveInv
  <2>2. pc'[p] = "await" /\ cid'[p] = cid[p] /\ rec'[p] = rec[p]
    BY <1>7, HoldMoves DEF PlaceOrder
  <2>3. StageOK(p)'
    BY <1>1, <2>1, <2>2 DEF StageOK, Owns, Owning
  <2>. QED
    BY <1>1, <1>7, <2>3, HoldMoves, LocalStage DEF PlaceOrder
<1>8. CASE PlaceAccepted(p)
  <2>. DEFINE r == [rec[p] EXCEPT !.boid = TRUE, !.state = "ACKNOWLEDGED"]
  <2>1. store[cid[p]].state \in PastApproval /\ Hold(p, r, "saveAcked")
    BY <1>8 DEF PlaceAccepted, StageInv, StageOK
  <2>. HIDE DEF r
  <2>. QED
    BY <1>1, <2>1, HoldMoves, HeldStage DEF Owning
<1>9. CASE PlaceAmbiguous(p)
  <2>1. store[cid[p]].state \in PastApproval /\ Enter(p, "UNKNOWN", "saveAmbiguous")
    BY <1>9 DEF PlaceAmbiguous, StageInv, StageOK
  <2>. QED
    BY <1>1, <2>1, EnterMoves, HeldStage DEF Owning
<1>10. CASE PollImmediate(p) /\ ~Return(p)
  <2>1. pc[p] = "poll" /\ ~Owns(p) /\ Goto(p, "readFill") /\ UNCHANGED <<cid, rec>>
    BY <1>10 DEF PollImmediate, Owns, Owning
  <2>2. rec[p].state \in PastApproval => store[cid[p]].state \in PastApproval
    BY <1>1, <2>1 DEF StageInv, StageOK
  <2>. QED
    BY <1>1, <2>1, <2>2, HeldStage DEF Goto, Owning, TypeOK, WorkerTypeOK
<1>11. CASE ResolveUnknown(p) /\ ~Return(p)
  <2>1. pc[p] = "resolve" /\ ~Owns(p) /\ rec[p].state \in PastApproval
    BY <1>11 DEF ResolveUnknown, Owns, Owning, PlacementInv, SaveInv
  <2>2. store[cid[p]].state \in PastApproval
    BY <1>1, <2>1 DEF StageInv, StageOK
  <2>3. PICK r : Hold(p, r, "saveLast")
    BY <1>11 DEF ResolveUnknown, Enter
  <2>4. pc'[p] = "saveLast" /\ rec'[p] = r /\ cid'[p] = cid[p]
    BY <2>3, HoldMoves
  <2>5. ~Owns(p)'
    <3>1. rec'[p].state # "RISK_REJECTED"
      <4>1. ASSUME Enter(p, "REJECTED", "saveLast") PROVE rec'[p].state = "REJECTED"
        BY <4>1, EnterMoves
      <4>2. ASSUME NEW view, 
                   LET found == [rec[p] EXCEPT !.boid = TRUE]
                   IN \/ Hold(p, found, "saveLast")
                      \/ Hold(p, [found EXCEPT !.state = MappedState(view), !.filled = view.filled],
                              "saveLast")
            PROVE  rec'[p].state \in PastApproval
        <5>1. MappedState(view) \in PastApproval
          BY MappedPastApproval DEF MappedState
        <5>. QED
          <6>. DEFINE found == [rec[p] EXCEPT !.boid = TRUE]
                      moved == [found EXCEPT !.state = MappedState(view), !.filled = view.filled]
          <6>1. found.state = rec[p].state /\ moved.state = MappedState(view)
            BY RecordState DEF Records
          <6>2. Hold(p, found, "saveLast") \/ Hold(p, moved, "saveLast")
            BY <4>2
          <6>. HIDE DEF found, moved
          <6>. QED
            BY <2>1, <5>1, <6>1, <6>2, HoldMoves
      <4>3. ASSUME Hold(p, rec[p], "saveLast") PROVE rec'[p].state \in PastApproval
        BY <2>1, <4>3, HoldMoves
      <4>. QED
        BY <1>11, <4>1, <4>2, <4>3, StateClasses DEF ResolveUnknown
    <3>. QED
      BY <2>4, <3>1 DEF Owns, Owning
  <2>6. rec'[p].state \in PastApproval
    BY <2>4, <2>5 DEF PlacementInv, SaveInv, SaveThen
  <2>. QED
    BY <1>1, <2>2, <2>3, <2>4, <2>6, HoldMoves, HeldStage DEF Owning
<1>. QED
  BY <1>2, <1>3, <1>4, <1>5, <1>6, <1>7, <1>8, <1>9, <1>10, <1>11 DEF SubmitStep,
     HandleExistingIntent, PollImmediate, ResolveUnknown

LEMMA FillStage ==
  ASSUME TypeOK, StageInv, NEW p \in Workers, FillStep(p)
  PROVE  StageInv'
<1>. USE StateNames
<1>1. UNCHANGED <<store, todo>> /\ pc[p] \in FillLabels \ {"saveFill"} /\ cid[p] \in Cids
  BY DEF FillStep, ApplyFill, LogTrade, ReadPosition, WritePosition, durable, systemVars,
         FillLabels, TypeOK, HandsOK
<1>2. ~Owns(p)
  BY <1>1 DEF Owns, Owning, FillLabels
<1>3. rec[p].state \in PastApproval => store[cid[p]].state \in PastApproval
  BY <1>1, <1>2 DEF StageInv, StageOK
<1>4. CASE Return(p)
  BY <1>1, <1>4, ReturnStage
<1>5. CASE ApplyFill(p) /\ ~Return(p)
  <2>. DEFINE r == [store[cid[p]] EXCEPT !.filled = @ + fill[p].qty,
                                        !.applied = @ \union {fill[p].id}]
  <2>1. Hold(p, r, "logTrade") /\ store[cid[p]] # NoRecord
    BY <1>5 DEF ApplyFill
  <2>2. r.state = store[cid[p]].state
    BY <1>1, RecordState DEF Records
  <2>3. store[cid[p]].state # NoStatus
    BY <1>1, <2>1 DEF StageInv, StoreOK
  <2>. HIDE DEF r
  <2>. QED
    BY <1>1, <2>1, <2>2, <2>3, HoldMoves, HeldStage DEF Owning
<1>6. CASE LogTrade(p) /\ ~Return(p)
  <2>1. PICK s \in {"FILLED", "PARTIALLY_FILLED"} :
           CanTransition(rec[p].state, s, FALSE) /\ Enter(p, s, "saveFill")
    BY <1>6 DEF LogTrade
  <2>2. rec[p].state \in OrderStates
    BY <1>6, RecordState DEF StageInv, StageOK, LogTrade
  <2>3. rec[p].state \in PastApproval
    BY <2>1, <2>2, ApprovalTransitions, StateClasses
  <2>. QED
    BY <1>1, <1>3, <2>1, <2>3, EnterMoves, HeldStage DEF Owning
<1>7. CASE ReadPosition(p)
  BY <1>1, <1>3, <1>7, HeldStage DEF ReadPosition, Goto, Owning, TypeOK, WorkerTypeOK
<1>8. CASE WritePosition(p)
  BY <1>4, <1>8 DEF WritePosition
<1>. QED
  BY <1>4, <1>5, <1>6, <1>7, <1>8 DEF FillStep

LEMMA SendCancelStage ==
  ASSUME TypeOK, StageInv, NEW p \in Workers, SendCancel(p)
  PROVE  StageInv'
<1>. USE StateNames
<1>1. UNCHANGED <<store, todo>> /\ pc[p] = "sendCancel" /\ cid[p] \in Cids /\ ~Owns(p)
  BY DEF SendCancel, durable, systemVars, TypeOK, HandsOK, Owns, Owning
<1>2. store[cid[p]].state \in PastApproval
  BY <1>1 DEF StageInv, StageOK
<1>3. ASSUME NEW s \in {"CANCELLED", "UNKNOWN"}, Enter(p, s, "saveLast") PROVE StageInv'
  BY <1>1, <1>2, <1>3, EnterMoves, HeldStage, StateClasses DEF Owning
<1>4. CASE Return(p)
  BY <1>1, <1>4, ReturnStage
<1>. QED
  BY <1>3, <1>4 DEF SendCancel

(* A view of an order that is not at the broker says nothing but UNKNOWN.   *)
LEMMA PolledMeaning ==
  ASSUME TypeOK, PlacementInv, NEW p \in Workers, cid[p] \in Cids, NEW view \in Polled(p)
  PROVE  MappedState(view) = "UNKNOWN" \/ store[cid[p]].state \in PastApproval
<1>1. CASE Present(cid[p])
  BY <1>1 DEF PlacementInv, OrderInv
<1>2. CASE ~Present(cid[p])
  <2>1. view.status = NoStatus
    BY <1>2 DEF Polled, Views, Present, NoOrder, TypeOK, BrokerTypeOK, BrokerOrders
  <2>. QED
    BY <2>1 DEF MappedState, MapBrokerStatus, BrokerStatuses, LiveStatuses, DeadStatuses, NoStatus
<1>. QED
  BY <1>1, <1>2

LEMMA MonitorStage ==
  ASSUME TypeOK, PlacementInv, StageInv, NEW p \in Workers, MonitorPoll(p) \/ MonitorTimeout(p)
  PROVE  StageInv'
<1>. USE StateNames
<1>1. /\ UNCHANGED <<store, todo>> /\ pc[p] \in {"monitorBlind", "monitor"}
      /\ cid[p] \in Cids /\ ~Owns(p)
  BY DEF MonitorPoll, MonitorTimeout, durable, systemVars, TypeOK, HandsOK, Owns, Owning
<1>2. rec[p].state \in OrderStates
  BY <1>1, RecordState DEF StageInv, StageOK
<1>3. rec[p].state \in PastApproval => store[cid[p]].state \in PastApproval
  BY <1>1 DEF StageInv, StageOK
<1>4. CASE Return(p)
  BY <1>1, <1>4, ReturnStage
<1>5. CASE MonitorPoll(p) /\ ~Return(p)
  <2>1. PICK view \in Polled(p) :
           LET state == MappedState(view)
               r     == [rec[p] EXCEPT !.filled = view.filled]
           IN \/ /\ CanTransition(r.state, state, r.state \in BlockedStates)
                 /\ \E l \in {"saveLast", "saveMonitor"} : Hold(p, [r EXCEPT !.state = state], l)
              \/ Hold(p, r, "monitor")
    BY <1>5 DEF MonitorPoll
  <2>. DEFINE state == MappedState(view)
              r     == [rec[p] EXCEPT !.filled = view.filled]
              moved == [r EXCEPT !.state = state]
  <2>2. state \in PastApproval
    BY MappedPastApproval DEF MappedState
  <2>3. moved.state = state /\ r.state = rec[p].state
    BY RecordState DEF Records
  <2>4. state = "UNKNOWN" \/ store[cid[p]].state \in PastApproval
    BY <1>1, PolledMeaning
  <2>. HIDE DEF state, r, moved
  <2>5. ASSUME NEW l \in {"saveLast", "saveMonitor"},
               CanTransition(r.state, state, r.state \in BlockedStates), Hold(p, moved, l)
        PROVE  StageInv'
    <3>1. store[cid[p]].state \in PastApproval
      BY <1>2, <1>3, <2>2, <2>3, <2>4, <2>5, ApprovalTransitions
    <3>. QED
      BY <1>1, <2>2, <2>3, <2>5, <3>1, HoldMoves, HeldStage DEF Owning
  <2>6. CASE Hold(p, r, "monitor")
    BY <1>1, <1>2, <1>3, <2>3, <2>6, HoldMoves, HeldStage, StateClasses DEF Owning
  <2>. QED
    BY <2>1, <2>5, <2>6 DEF state, r, moved
<1>6. CASE MonitorTimeout(p) /\ ~Return(p)
  <2>1. Enter(p, "UNKNOWN", "saveLast") /\ CanTransition(rec[p].state, "UNKNOWN", FALSE)
    BY <1>6 DEF MonitorTimeout
  <2>2. rec[p].state \in PastApproval
    <3>1. ASSUME NEW s \in OrderStates, CanTransition(s, "UNKNOWN", FALSE) PROVE s \in PastApproval
      BY <3>1 DEF CanTransition, LegalTransitions, PastApproval, OrderStates, OpenStates,
                  PreSubmitStates, TerminalStates
    <3>. QED
      BY <1>2, <2>1, <3>1
  <2>. QED
    BY <1>1, <1>3, <2>1, <2>2, EnterMoves, HeldStage, StateClasses DEF Owning
<1>. QED
  BY <1>4, <1>5, <1>6

(* A settled order was past approval: recovery settles no refusal.          *)
LEMMA SettleStage ==
  ASSUME TypeOK, StageInv, NEW p \in Workers, NEW r \in Records, NEW s \in PastApproval,
         pc[p] = "recoverOrder", cid[p] \in Cids, r.state = rec[p].state,
         Settle(p, r, s), UNCHANGED store
  PROVE  StageInv'
<1>1. ~Owns(p) /\ rec[p].state \in PastApproval \union {"RISK_REJECTED"}
  BY DEF StageInv, StageOK, Owns, Owning
<1>2. CASE CanTransition(r.state, s, TRUE) /\ Hold(p, [r EXCEPT !.state = s], "saveRecovered")
           /\ UNCHANGED systemVars
  <2>. DEFINE settled == [r EXCEPT !.state = s]
  <2>1. settled.state = s /\ Hold(p, settled, "saveRecovered") /\ UNCHANGED todo
    BY <1>2 DEF Records, systemVars
  <2>2. rec[p].state \in PastApproval
    BY <1>1, <1>2 DEF CanTransition, TerminalStates
  <2>3. store[cid[p]].state \in PastApproval
    BY <1>1, <2>2 DEF StageInv, StageOK
  <2>. HIDE DEF settled
  <2>. QED
    BY <2>1, <2>3, HoldMoves, HeldStage DEF Owning
<1>3. CASE Return(p) /\ todo' = {}
  BY <1>3, ReturnStage
<1>. QED
  BY <1>2, <1>3 DEF Settle

LEMMA RecoverStage ==
  ASSUME TypeOK, PlacementInv, StageInv, NEW p \in Workers, RecoverStep(p)
  PROVE  StageInv'
<1>. USE StateNames
<1>1. CASE RecoverStart(p)
  <2>1. /\ UNCHANGED <<store, cid, rec>> /\ pc[p] = "idle" /\ pc' = [pc EXCEPT ![p] = "recover"]
        /\ todo' = {c \in Cids : store[c].state \in OpenStates}
    BY <1>1 DEF RecoverStart, durable, Goto
  <2>2. StoreOK'
    BY <2>1, StateKinds DEF StageInv, StoreOK, OrderStates, OpenStates, NoStatus, PreSubmitStates
  <2>3. ASSUME NEW q \in Workers PROVE StageOK(q)'
    <3>1. CASE q = p
      BY <2>1, <3>1, StateClasses, StateKinds
         DEF StageInv, StageOK, Owns, Owning, TypeOK, WorkerTypeOK
    <3>2. CASE q # p
      BY <2>1, <3>2 DEF StageInv, StageOK, Owns, Owning, TypeOK, WorkerTypeOK
    <3>. QED
      BY <3>1, <3>2
  <2>. QED
    BY <2>2, <2>3 DEF StageInv
<1>2. CASE RecoverDone(p)
  BY <1>2, ReturnStage DEF RecoverDone, durable
<1>3. ASSUME NEW c \in Cids, RecoverNext(p, c) PROVE StageInv'
  <2>1. UNCHANGED store /\ pc[p] = "recover" /\ todo' \subseteq todo /\ c \in todo
    BY <1>3 DEF RecoverNext, durable
  <2>2. store[c].state \in OrderStates
    BY <2>1, RecordState DEF StageInv, StoreOK
  <2>3. CASE Begin(p, c, store[c], "recoverIntent")
    BY <2>1, <2>3, BeginMoves, HeldStage DEF Owning
  <2>4. CASE store[c].state \notin PreSubmitStates /\ Begin(p, c, store[c], "recoverOrder")
    BY <2>1, <2>2, <2>4, StateKinds, BeginMoves, HeldStage DEF Owning
  <2>. QED
    BY <1>3, <2>3, <2>4 DEF RecoverNext
<1>4. CASE RecoverIntent(p)
  <2>1. /\ UNCHANGED <<store, todo>> /\ pc[p] = "recoverIntent" /\ cid[p] \in Cids
        /\ store[cid[p]].state \in PreSubmitStates
    BY <1>4 DEF RecoverIntent, durable, systemVars, PlacementInv, AloneInv, TypeOK, HandsOK
  <2>2. ~Present(cid[p])
    BY <2>1, StateClasses DEF PlacementInv, OrderInv, TypeOK, BrokerTypeOK
  <2>3. Enter(p, "RISK_REJECTED", "saveRecovered")
    BY <1>4, <2>2 DEF RecoverIntent
  <2>4. pc'[p] = "saveRecovered" /\ rec'[p].state = "RISK_REJECTED" /\ cid'[p] = cid[p]
    BY <2>3, EnterMoves
  <2>5. StageOK(p)'
    BY <2>1, <2>4, StateClasses DEF StageOK, Owns, Owning
  <2>. QED
    BY <2>1, <2>3, <2>5, EnterMoves, LocalStage
<1>5. CASE RecoverOrder(p)
  <2>1. UNCHANGED store /\ pc[p] = "recoverOrder" /\ rec[p] \in Records /\ cid[p] \in Cids /\ ~Owns(p)
    BY <1>5 DEF RecoverOrder, durable, TypeOK, WorkerTypeOK, HandsOK, Owns, Owning
  <2>2. rec[p].state \in PastApproval => store[cid[p]].state \in PastApproval
    BY <2>1 DEF StageInv, StageOK
  <2>3. CASE Hold(p, rec[p], "recover") /\ UNCHANGED systemVars
    BY <2>1, <2>2, <2>3, HoldMoves, HeldStage DEF Owning, systemVars
  <2>4. ASSUME NEW s \in {"UNKNOWN", "REJECTED"}, Settle(p, rec[p], s) PROVE StageInv'
    BY <2>1, <2>4, SettleStage, StateClasses
  <2>5. ASSUME NEW view \in Views(cid[p]),
               LET state == MappedState(view)
                   r     == [rec[p] EXCEPT !.boid = TRUE, !.filled = view.filled]
               IN IF state = r.state
                  THEN Hold(p, r, "saveRecovered") /\ UNCHANGED systemVars
                  ELSE Settle(p, r, state)
        PROVE  StageInv'
    <3>. DEFINE state == MappedState(view)
                r     == [rec[p] EXCEPT !.boid = TRUE, !.filled = view.filled]
    <3>1. view.filled \in 0..Qty
      BY <2>1, ViewType DEF TypeOK
    <3>2. state \in PastApproval
      BY MappedPastApproval DEF MappedState
    <3>3. r \in Records /\ r.state = rec[p].state
      BY <2>1, <3>1 DEF Records
    <3>. HIDE DEF state, r
    <3>4. CASE Settle(p, r, state)
      BY <2>1, <3>2, <3>3, <3>4, SettleStage
    <3>5. CASE state = r.state /\ Hold(p, r, "saveRecovered") /\ UNCHANGED systemVars
      BY <2>1, <2>2, <3>2, <3>3, <3>5, HoldMoves, HeldStage DEF Owning, systemVars
    <3>. QED
      BY <2>5, <3>4, <3>5 DEF state, r
  <2>. QED
    BY <1>5, <2>3, <2>4, <2>5 DEF RecoverOrder
<1>. QED
  BY <1>1, <1>2, <1>3, <1>4, <1>5 DEF RecoverStep

LEMMA ReserveStage ==
  ASSUME TypeOK, PlacementInv, StageInv, NEW p \in Workers, NEW c \in Cids, Reserve(p, c)
  PROVE  StageInv'
<1>1. store[c].state = NoStatus /\ UNCHANGED todo /\ pc[p] = "idle"
  BY DEF Reserve, systemVars, NoRecord, Free
<1>2. store'[c] = NewRecord /\ \A d \in Cids \ {c} : store'[d] = store[d]
  BY DEF Reserve, TypeOK, DurableTypeOK
<1>3. /\ \A q \in Workers \ {p} : pc'[q] = pc[q] /\ cid'[q] = cid[q] /\ rec'[q] = rec[q]
      /\ pc'[p] = "blocking" /\ rec'[p] = NewRecord /\ cid'[p] = c
  BY BeginMoves DEF Reserve
<1>4. NewRecord.state \in PreSubmitStates /\ NewRecord.state # NoStatus
  BY StateKinds
<1>5. StoreOK'
  <2>1. todo \subseteq Cids
    BY DEF TypeOK, SystemTypeOK
  <2>. QED
    BY <1>1, <1>2, <1>4, <2>1 DEF StageInv, StoreOK
<1>6. StageOK(p)'
  BY <1>2, <1>3, <1>4, StateKinds DEF StageOK, Owns, Owning
<1>7. ASSUME NEW q \in Workers \ {p} PROVE StageOK(q)'
  <2>1. pc'[q] = pc[q] /\ cid'[q] = cid[q] /\ rec'[q] = rec[q] /\ (Owns(q)' <=> Owns(q))
    BY <1>3 DEF Owns
  <2>2. Owns(q) \/ pc[q] \in {"await", "saveRecovered"} => cid[q] \in Cids
    BY DEF TypeOK, HandsOK, Owns, Owning
  <2>3. CASE cid[q] # c
    BY <1>2, <2>1, <2>2, <2>3 DEF StageInv, StageOK
  <2>4. CASE cid[q] = c
    BY <1>1, <1>2, <1>4, <2>1, <2>4, StateKinds DEF StageInv, StageOK
  <2>. QED
    BY <2>3, <2>4
<1>. QED
  BY <1>5, <1>6, <1>7 DEF StageInv

LEMMA CallStage ==
  ASSUME TypeOK, PlacementInv, StageInv, NEW p \in Workers, Call(p)
  PROVE  StageInv'
<1>1. PICK c \in Cids :
        \/ Reserve(p, c) \/ Resubmit(p, c) \/ CancelOrder(p, c) \/ MonitorOrder(p, c)
        \/ \E n \in 1..Qty : HandleFill(p, c, n)
  BY DEF Call
<1>2. pc[p] = "idle" /\ UNCHANGED todo
  BY <1>1 DEF Reserve, Resubmit, CancelOrder, MonitorOrder, HandleFill, Free, systemVars
<1>3. CASE Reserve(p, c)
  BY <1>3, ReserveStage
<1>4. CASE Resubmit(p, c)
  BY <1>2, <1>4, BeginMoves, HeldStage, StateKinds DEF Resubmit, durable, Owning
<1>5. CASE CancelOrder(p, c)
  <2>1. UNCHANGED store /\ store[c].state \in OrderStates
    BY <1>5, RecordState DEF CancelOrder, durable, StageInv, StoreOK
  <2>2. CASE store[c].state = "CANCEL_PENDING" /\ Begin(p, c, store[c], "sendCancel")
    BY <1>2, <2>1, <2>2, BeginMoves, HeldStage, StateClasses DEF Owning
  <2>3. CASE /\ CanTransition(store[c].state, "CANCEL_PENDING", FALSE)
             /\ Begin(p, c, [store[c] EXCEPT !.state = "CANCEL_PENDING"], "saveCancelPending")
    <3>. DEFINE r == [store[c] EXCEPT !.state = "CANCEL_PENDING"]
    <3>1. r.state = "CANCEL_PENDING"
      BY RecordState DEF Records
    <3>2. ASSUME NEW s \in OrderStates, CanTransition(s, "CANCEL_PENDING", FALSE)
          PROVE  s \in PastApproval
      BY <3>2 DEF CanTransition, LegalTransitions, PastApproval, OrderStates, OpenStates,
                  PreSubmitStates, TerminalStates
    <3>3. Begin(p, c, r, "saveCancelPending") /\ store[c].state \in PastApproval
      BY <2>1, <2>3, <3>2
    <3>. HIDE DEF r
    <3>. QED
      BY <1>2, <2>1, <3>1, <3>3, BeginMoves, HeldStage DEF Owning
  <2>. QED
    BY <1>5, <2>2, <2>3 DEF CancelOrder
<1>6. CASE MonitorOrder(p, c)
  <2>1. UNCHANGED store /\ store[c].state # NoStatus /\ Begin(p, c, store[c], "monitorBlind")
    BY <1>6 DEF MonitorOrder, durable, OpenStates, PreSubmitStates, NoStatus
  <2>. QED
    BY <1>2, <2>1, BeginMoves, HeldStage DEF Owning
<1>7. ASSUME NEW n \in 1..Qty, HandleFill(p, c, n) PROVE StageInv'
  <2>1. rec[p].state \notin PastApproval
    BY <1>2, StateKinds DEF StageInv, StageOK
  <2>2. /\ UNCHANGED <<store, rec>> /\ pc'[p] = "readFill" /\ cid'[p] = c
        /\ \A q \in Workers \ {p} : pc'[q] = pc[q] /\ cid'[q] = cid[q]
    BY <1>7 DEF HandleFill, durable, Goto, TypeOK, WorkerTypeOK
  <2>. QED
    BY <1>2, <2>1, <2>2, HeldStage DEF Owning
<1>. QED
  BY <1>1, <1>3, <1>4, <1>5, <1>6, <1>7

LEMMA NextStage ==
  TypeOK /\ PlacementInv /\ PlacementInv' /\ StageInv /\ [Next]_vars => StageInv'
<1>. SUFFICES ASSUME TypeOK, PlacementInv, PlacementInv', StageInv, [Next]_vars PROVE StageInv'
  OBVIOUS
<1>1. ASSUME NEW p \in Workers, Step(p) PROVE StageInv'
  BY <1>1, SaveStage, SubmitStage, FillStage, RecoverStage, SendCancelStage, MonitorStage
     DEF Step
<1>2. ASSUME NEW p \in Workers, Call(p) PROVE StageInv'
  BY <1>2, CallStage
<1>3. ASSUME NEW p \in Workers, Kill(p) PROVE StageInv'
  BY <1>3, ReturnStage DEF Kill, durable, systemVars
<1>4. CASE Crash
  <2>1. StoreOK'
    BY <1>4 DEF Crash, durable, StageInv, StoreOK
  <2>2. ASSUME NEW p \in Workers PROVE StageOK(p)'
    <3>1. pc'[p] = "idle" /\ cid'[p] \notin Cids /\ rec'[p].state = NoStatus
      BY <1>4, CidsAssumption, StateKinds DEF Crash
    <3>. QED
      BY <3>1 DEF StageOK, Owns, Owning
  <2>. QED
    BY <2>1, <2>2 DEF StageInv
<1>5. CASE UNCHANGED <<store, pc, cid, rec, todo>>
  <2>1. StoreOK'
    BY <1>5 DEF StageInv, StoreOK
  <2>2. ASSUME NEW p \in Workers PROVE StageOK(p)'
    BY <1>5 DEF StageInv, StageOK, Owns
  <2>. QED
    BY <2>1, <2>2 DEF StageInv
<1>6. CASE Restart
  BY <1>5, <1>6 DEF Restart, durable, workerVars
<1>7. CASE Broker
  BY <1>5, <1>7
     DEF Broker, Land, Lose, Open, Execute, Finish, SetOrder, durable, workerVars, systemVars
<1>8. CASE UNCHANGED vars
  BY <1>5, <1>8 DEF vars, durable, workerVars, systemVars
<1>. QED
  BY <1>1, <1>2, <1>3, <1>4, <1>6, <1>7, <1>8 DEF Next

LEMMA StageCorrect == Spec => []StageInv
<1>1. Init => StageInv
  BY InitStage
<1>2. TypeOK /\ PlacementInv /\ PlacementInv' /\ StageInv /\ [Next]_vars => StageInv'
  BY NextStage
<1>. QED
  BY <1>1, <1>2, TypeCorrect, PlacementCorrect, PTL DEF Spec

-----------------------------------------------------------------------------
(* The refinement: each step moves the stage of one intent, or of none.     *)

Stages == [c \in Cids |-> Stage(c)]

LEMMA StagesKept ==
  ASSUME \A c \in Cids : Stage(c)' = Stage(c)
  PROVE  UNCHANGED Stages
BY DEF Stages

LEMMA StoreKept == UNCHANGED <<store, sent>> => UNCHANGED Stages
<1>. SUFFICES ASSUME UNCHANGED <<store, sent>> PROVE UNCHANGED Stages
  OBVIOUS
<1>1. \A c \in Cids : Stage(c)' = Stage(c)
  BY DEF Stage
<1>. QED
  BY <1>1, StagesKept

LEMMA StageMoves ==
  ASSUME NEW c \in Cids, \A d \in Cids \ {c} : Stage(d)' = Stage(d),
         \/ Stage(c)' = Stage(c)
         \/ Stage(c) = "none" /\ Stage(c)' = "recorded"
         \/ Stage(c) = "recorded" /\ Stage(c)' \in {"refused", "armed"}
         \/ Stage(c) = "armed" /\ Stage(c)' = "sent"
  PROVE  [Intent!Next]_Stages
<1>1. CASE Stage(c)' = Stage(c)
  BY <1>1, StagesKept
<1>2. ASSUME NEW s, NEW t, Stage(c) = s, Stage(c)' = t PROVE Intent!Move(c, s, t)
  BY <1>2 DEF Intent!Move
<1>. QED
  BY <1>1, <1>2 DEF Intent!Next, Intent!Record, Intent!Refuse, Intent!Arm, Intent!Send

(* The stage of an intent that was not sent, by its durable record.         *)
LEMMA StageOfRecord ==
  /\ \A c \in Cids : sent[c] = 0 =>
       /\ store[c].state = NoStatus => Stage(c) = "none"
       /\ store[c].state \in PreSubmitStates => Stage(c) = "recorded"
       /\ store[c].state = "RISK_REJECTED" => Stage(c) = "refused"
       /\ store[c].state \in PastApproval => Stage(c) = "armed"
  /\ \A c \in Cids : sent[c] > 0 => Stage(c) = "sent"
BY StateKinds, StateClasses DEF Stage

LEMMA SaveMoves ==
  ASSUME TypeOK, PlacementInv, StageInv, NEW p \in Workers, Save(p)
  PROVE  [Intent!Next]_Stages
<1>0. PICK c \in Cids : c = cid[p]
  BY SaveWrites
<1>1. sent' = sent /\ sent[c] \in Nat
  BY SaveWrites DEF TypeOK, BrokerTypeOK
<1>2. store'[c] = rec[p] /\ \A d \in Cids \ {c} : store'[d] = store[d]
  BY <1>0, SaveWrites DEF TypeOK, DurableTypeOK
<1>3. \A d \in Cids \ {c} : Stage(d)' = Stage(d)
  BY <1>1, <1>2 DEF Stage
<1>4. CASE sent[c] > 0
  <2>1. Stage(c)' = Stage(c)
    BY <1>1, <1>4 DEF Stage
  <2>. QED
    BY <1>1, <1>3, <2>1, StageMoves
<1>5. CASE sent[c] = 0
  <2>1. /\ rec[p].state \in PreSubmitStates => Stage(c)' = "recorded"
        /\ rec[p].state = "RISK_REJECTED" => Stage(c)' = "refused"
        /\ rec[p].state \in PastApproval => Stage(c)' = "armed"
    BY <1>1, <1>2, <1>5, StateKinds, StateClasses DEF Stage
  <2>2. CASE store[c].state \in PreSubmitStates
    <3>1. Stage(c) = "recorded"
      BY <1>1, <1>5, <2>2, StageOfRecord
    <3>2. Stage(c)' \in {"recorded", "refused", "armed"}
      BY <1>0, <2>1, <2>2, SaveWrites, StateKinds, StateClasses
    <3>. QED
      BY <1>1, <1>3, <3>1, <3>2, StageMoves
  <2>3. CASE rec[p].state \in PastApproval /\ store[c].state \in PastApproval
    <3>1. Stage(c) = "armed" /\ Stage(c)' = "armed"
      BY <1>1, <1>5, <2>1, <2>3, StageOfRecord
    <3>. QED
      BY <1>1, <1>3, <3>1, StageMoves
  <2>. QED
    BY <1>0, <2>2, <2>3, SaveWrites
<1>. QED
  BY <1>1, <1>4, <1>5

LEMMA ReserveMoves ==
  ASSUME TypeOK, PlacementInv, NEW p \in Workers, NEW c \in Cids, Reserve(p, c)
  PROVE  [Intent!Next]_Stages
<1>1. store[c].state = NoStatus /\ sent' = sent
  BY DEF Reserve, brokerVars, NoRecord
<1>2. store'[c] = NewRecord /\ \A d \in Cids \ {c} : store'[d] = store[d]
  BY DEF Reserve, TypeOK, DurableTypeOK
<1>3. sent[c] = 0
  BY <1>1, StateKinds DEF PlacementInv, OrderInv, TypeOK, BrokerTypeOK
<1>4. Stage(c) = "none" /\ Stage(c)' = "recorded"
  BY <1>1, <1>2, <1>3, StateKinds DEF Stage
<1>5. \A d \in Cids \ {c} : Stage(d)' = Stage(d)
  BY <1>1, <1>2 DEF Stage
<1>. QED
  BY <1>4, <1>5, StageMoves

LEMMA PlaceMoves ==
  ASSUME TypeOK, PlacementInv, NEW p \in Workers, PlaceOrder(p)
  PROVE  [Intent!Next]_Stages
<1>0. PICK c \in Cids : c = cid[p]
  BY LabelNames DEF PlaceOrder, TypeOK, HandsOK
<1>1. /\ store' = store /\ store[c].state \in PastApproval /\ Owns(p)
      /\ sent' = [sent EXCEPT ![c] = @ + 1]
  BY <1>0 DEF PlaceOrder, durable, PlacementInv, SaveInv, Owns, Owning
<1>2. sent[c] = 0 /\ sent'[c] = 1 /\ \A d \in Cids \ {c} : sent'[d] = sent[d]
  BY <1>0, <1>1 DEF PlacementInv, OwnerInv, TypeOK, BrokerTypeOK
<1>3. Stage(c) = "armed" /\ Stage(c)' = "sent"
  BY <1>1, <1>2, StageOfRecord DEF Stage
<1>4. \A d \in Cids \ {c} : Stage(d)' = Stage(d)
  BY <1>1, <1>2 DEF Stage
<1>. QED
  BY <1>1, <1>3, <1>4, StageMoves

LEMMA NextMoves ==
  TypeOK /\ PlacementInv /\ StageInv /\ [Next]_vars => [Intent!Next]_Stages
<1>. SUFFICES ASSUME TypeOK, PlacementInv, StageInv, [Next]_vars PROVE [Intent!Next]_Stages
  OBVIOUS
<1>1. CASE UNCHANGED <<store, sent>>
  BY <1>1, StoreKept
<1>2. ASSUME NEW p \in Workers, Step(p) PROVE [Intent!Next]_Stages
  <2>1. CASE Save(p)
    BY <2>1, SaveMoves
  <2>2. CASE PlaceOrder(p)
    BY <2>2, PlaceMoves
  <2>3. CASE SubmitStep(p) /\ ~PlaceOrder(p)
    BY <1>1, <2>3
       DEF SubmitStep, HandleExistingIntent, CheckBlocking, RunGates, Arm, PlaceAccepted,
           PlaceAmbiguous, PollImmediate, ResolveUnknown, durable, brokerVars
  <2>4. CASE FillStep(p)
    BY <1>1, <2>4
       DEF FillStep, ApplyFill, LogTrade, ReadPosition, WritePosition, durable, brokerVars
  <2>5. CASE RecoverStep(p)
    BY <1>1, <2>5
       DEF RecoverStep, RecoverStart, RecoverDone, RecoverNext, RecoverIntent, RecoverOrder,
           durable, brokerVars
  <2>6. CASE SendCancel(p) \/ MonitorPoll(p) \/ MonitorTimeout(p)
    BY <1>1, <2>6 DEF SendCancel, MonitorPoll, MonitorTimeout, durable, brokerVars
  <2>. QED
    BY <1>2, <2>1, <2>2, <2>3, <2>4, <2>5, <2>6 DEF Step
<1>3. ASSUME NEW p \in Workers, Call(p) PROVE [Intent!Next]_Stages
  <2>1. PICK c \in Cids :
          \/ Reserve(p, c) \/ Resubmit(p, c) \/ CancelOrder(p, c) \/ MonitorOrder(p, c)
          \/ \E n \in 1..Qty : HandleFill(p, c, n)
    BY <1>3 DEF Call
  <2>2. CASE Reserve(p, c)
    BY <2>2, ReserveMoves
  <2>. QED
    BY <1>1, <2>1, <2>2
       DEF Resubmit, CancelOrder, MonitorOrder, HandleFill, durable, brokerVars
<1>4. CASE \E p \in Workers : Kill(p)
  BY <1>1, <1>4 DEF Kill, durable, brokerVars
<1>5. CASE Crash \/ Restart
  BY <1>1, <1>5 DEF Crash, Restart, durable, brokerVars
<1>6. CASE Broker
  BY <1>1, <1>6 DEF Broker, Land, Lose, Open, Execute, Finish, SetOrder, durable
<1>7. CASE UNCHANGED vars
  BY <1>1, <1>7 DEF vars, durable, brokerVars
<1>. QED
  BY <1>2, <1>3, <1>4, <1>5, <1>6, <1>7 DEF Next

LEMMA InitMoves == Init => Intent!Init
<1>. SUFFICES ASSUME Init PROVE Stages = [c \in Cids |-> "none"]
  BY DEF Intent!Init, Stages
<1>1. \A c \in Cids : Stage(c) = "none"
  BY StateKinds DEF Init, Stage
<1>. QED
  BY <1>1 DEF Stages

(* submit_order keeps the promise OrderIntent states, for every number of   *)
(* intents and of concurrent calls, every quantity and every fault: an      *)
(* intent is recorded once, refused for good or armed, and sent only once   *)
(* it is armed and only once; retries, kills, crashes, recovery and lost    *)
(* replies take none of this back.                                          *)
THEOREM IntentImplemented == Spec => ImplementsIntent
<1>1. Init => Intent!Init
  BY InitMoves
<1>2. TypeOK /\ PlacementInv /\ StageInv /\ [Next]_vars => [Intent!Next]_Stages
  BY NextMoves
<1>. QED
  BY <1>1, <1>2, TypeCorrect, PlacementCorrect, StageCorrect, PTL
     DEF Spec, ImplementsIntent, Intent!Spec, Stages

-----------------------------------------------------------------------------
(* The outcome                                                              *)

(* One call at a time for an order, no fill messages beside its own poll,    *)
(* and a broker that has taken what it was sent, and cancelled what it said, *)
(* by the time it is asked.                                                  *)
OneCallAtATime ==
    /\ Exclusive /\ "fill" \notin Ops
    /\ "late" \notin Faults /\ "later_cancel" \notin Faults

(* What a record claims of the order: a final state is the broker's, the     *)
(* shares it counts were executed, and a known order id is at the broker.    *)
TrueOf(bk, wr, c, r) ==
    /\ r.state = "FILLED"    => bk[c].status = "COMPLETE"
    /\ r.state = "CANCELLED" => bk[c].status = "CANCELLED"
    /\ r.state = "EXPIRED"   => bk[c].status = "EXPIRED"
    /\ r.state = "REJECTED"  =>
          bk[c].status = "REJECTED" \/ (bk[c].status = NoStatus /\ c \notin wr)
    /\ r.filled <= bk[c].filled
    /\ r.boid => bk[c].status # NoStatus
    /\ r.boid \/ r.filled = 0

BookOf(bk, wr, c) ==
    /\ bk[c].filled = Qty => bk[c].status = "COMPLETE"
    /\ bk[c].status \in {NoStatus, "OPEN PENDING"} => bk[c].filled = 0
    /\ c \in wr => bk[c].status = NoStatus

(* What a call holds (r) has grown out of what the store holds (s): no share *)
(* and no order id is forgotten, and UNKNOWN is left on evidence only.       *)
Knows(bk, wr, c, s, r) ==
    /\ s.filled <= r.filled
    /\ s.boid => r.boid
    /\ s.state = "UNKNOWN" =>
          \/ r.state = "UNKNOWN" \/ r.boid
          \/ r.state = "REJECTED" /\ bk[c].status = NoStatus /\ c \notin wr

Knowing ==
    DOMAIN SaveThen \union
      {"blocking", "gates", "arm", "place", "await", "resolve", "logTrade", "sendCancel",
       "monitor", "monitorBlind", "recoverIntent", "recoverOrder"}

(* Here the call is not done with the order.                                 *)
Onward ==
    {"savePending", "saveApproved", "saveSubmitted", "place", "saveAcked", "saveAmbiguous",
     "saveCancelPending", "saveMonitor"}

(* A call at label l that holds record r and fill f of order c, stored as s. *)
LinkOf(bk, wr, c, s, l, r, f) ==
    /\ TrueOf(bk, wr, c, r)
    /\ l \in Knowing => Knows(bk, wr, c, s, r)
    /\ l \in Knowing \union {"poll", "readFill"} => s.state \notin TerminalStates
    /\ l \in Onward => r.state \notin TerminalStates
    /\ l \in {"saveAcked", "poll"} => r.boid
    /\ l = "poll" => s.boid /\ s.filled = r.filled
    /\ l = "readFill" => s.boid /\ s.filled + f.qty <= bk[c].filled

TodoOK ==
    /\ phase # "recovering" => todo = {}
    /\ \A c \in todo : store[c].state \in OpenStates
    /\ \A p \in Workers : cid[p] \notin todo

OutcomeInv ==
    /\ \A c \in Cids : BookOf(book, wire, c) /\ TrueOf(book, wire, c, store[c])
    /\ \A p \in Workers : pc[p] = "idle" => cid[p] = NoCid
    /\ \A p \in Workers :
          cid[p] \in Cids => LinkOf(book, wire, cid[p], store[cid[p]], pc[p], rec[p], fill[p])
    /\ \A p, q \in Workers : cid[p] \in Cids /\ cid[p] = cid[q] => p = q
    /\ TodoOK

-----------------------------------------------------------------------------
(* The broker's order moves on                                               *)

(* Executed shares stay, a final status stays, and what was decided stays.   *)
MovedOn(bk, wr, bk2, wr2, c) ==
    /\ bk[c].filled <= bk2[c].filled
    /\ bk[c].status \in DeadStatuses => bk2[c].status = bk[c].status
    /\ bk[c].status # NoStatus => bk2[c].status # NoStatus
    /\ bk[c].status = NoStatus /\ c \notin wr => bk2[c].status = NoStatus /\ c \notin wr2

LEMMA TrueKept ==
  ASSUME NEW bk, NEW wr, NEW bk2, NEW wr2, NEW c, NEW r,
         bk[c].filled \in Nat, bk2[c].filled \in Nat, r.filled \in Nat,
         MovedOn(bk, wr, bk2, wr2, c), TrueOf(bk, wr, c, r)
  PROVE  TrueOf(bk2, wr2, c, r)
<1>1. r.filled <= bk2[c].filled
  BY DEF MovedOn, TrueOf
<1>. QED
  BY <1>1 DEF MovedOn, TrueOf, DeadStatuses

LEMMA LinkKept ==
  ASSUME NEW bk, NEW wr, NEW bk2, NEW wr2, NEW c, NEW s, NEW l, NEW r, NEW f,
         bk[c].filled \in Nat, bk2[c].filled \in Nat, r.filled \in Nat,
         s.filled \in Nat, l = "readFill" => f.qty \in Nat,
         MovedOn(bk, wr, bk2, wr2, c), LinkOf(bk, wr, c, s, l, r, f)
  PROVE  LinkOf(bk2, wr2, c, s, l, r, f)
<1>1. TrueOf(bk2, wr2, c, r)
  BY TrueKept DEF LinkOf
<1>2. l \in Knowing => Knows(bk2, wr2, c, s, r)
  BY DEF LinkOf, Knows, MovedOn
<1>3. l = "readFill" => s.filled + f.qty <= bk2[c].filled
  <2>1. SUFFICES ASSUME l = "readFill" PROVE s.filled + f.qty <= bk2[c].filled
    OBVIOUS
  <2>2. s.filled + f.qty <= bk[c].filled /\ bk[c].filled <= bk2[c].filled /\ f.qty \in Nat
    BY <2>1 DEF LinkOf, MovedOn
  <2>. QED
    BY <2>2
<1>. QED
  BY <1>1, <1>2, <1>3 DEF LinkOf

(* The numbers the two lemmas ask for.                                       *)
LEMMA OutcomeTypes ==
  ASSUME TypeOK
  PROVE  /\ \A c \in Cids : /\ book[c] \in BrokerOrders /\ store[c] \in Records
                            /\ book[c].filled \in 0..Qty /\ store[c].filled \in 0..Qty
                            /\ book[c].filled \in Nat /\ store[c].filled \in Nat
         /\ \A p \in Workers : /\ rec[p] \in Records /\ rec[p].filled \in 0..Qty /\ rec[p].filled \in Nat
                               /\ pc[p] \in FillLabels => fill[p].qty \in 1..Qty /\ fill[p].qty \in Nat
<1>1. \A n \in 0..Qty : n \in Nat
  BY QtyAssumption
<1>2. \A c \in Cids : book[c] \in BrokerOrders /\ store[c] \in Records
  BY DEF TypeOK, BrokerTypeOK, DurableTypeOK
<1>3. \A c \in Cids : book[c].filled \in 0..Qty /\ store[c].filled \in 0..Qty
  BY <1>2 DEF BrokerOrders, Records
<1>4. \A p \in Workers : rec[p] \in Records
  BY DEF TypeOK, WorkerTypeOK
<1>5. \A p \in Workers : rec[p].filled \in 0..Qty
  BY <1>4 DEF Records
<1>6. \A p \in Workers : pc[p] \in FillLabels => fill[p].qty \in 1..Qty
  BY DEF TypeOK, HandsOK, Fills
<1>7. \A n \in 1..Qty : n \in Nat
  BY QtyAssumption
<1>. QED
  BY <1>1, <1>2, <1>3, <1>4, <1>5, <1>6, <1>7

LEMMA Reflexive == \A n \in Nat : n <= n
OBVIOUS

(* A step of the broker on order c: the workers and the store stand still.   *)
LEMMA BookMoves ==
  ASSUME TypeOK, TypeOK', OutcomeInv, UNCHANGED <<store, todo, phase, pc, cid, rec, fill>>,
         \A d \in Cids : MovedOn(book, wire, book', wire', d) /\ BookOf(book', wire', d)
  PROVE  OutcomeInv'
<1>1. \A d \in Cids : BookOf(book', wire', d) /\ TrueOf(book', wire', d, store'[d])
  BY OutcomeTypes, TrueKept DEF OutcomeInv, TypeOK, BrokerTypeOK, BrokerOrders
<1>2. ASSUME NEW p \in Workers, cid[p] \in Cids
      PROVE  LinkOf(book', wire', cid[p], store[cid[p]], pc[p], rec[p], fill[p])
  <2>1. LinkOf(book, wire, cid[p], store[cid[p]], pc[p], rec[p], fill[p])
    BY <1>2 DEF OutcomeInv
  <2>2. book[cid[p]].filled \in Nat /\ rec[p].filled \in Nat /\ store[cid[p]].filled \in Nat
          /\ (pc[p] = "readFill" => fill[p].qty \in Nat)
    BY <1>2, OutcomeTypes DEF FillLabels
  <2>3. book'[cid[p]].filled \in Nat
    <3>1. book'[cid[p]].filled \in 0..Qty
      BY <1>2 DEF TypeOK, BrokerTypeOK, BrokerOrders
    <3>. QED
      BY <3>1, QtyAssumption
  <2>. QED
    BY <1>2, <2>1, <2>2, <2>3, LinkKept
<1>3. TodoOK'
  BY DEF OutcomeInv, TodoOK
<1>. QED
  BY <1>1, <1>2, <1>3 DEF OutcomeInv

(* ... and so it is when only the order c moves.                             *)
LEMMA OneBookMoves ==
  ASSUME TypeOK, OutcomeInv, NEW c \in Cids, wire' \subseteq wire,
         book' \in [Cids -> BrokerOrders],
         \A d \in Cids \ {c} : book'[d] = book[d] /\ (d \in wire' <=> d \in wire),
         MovedOn(book, wire, book', wire', c), BookOf(book', wire', c)
  PROVE  \A d \in Cids : MovedOn(book, wire, book', wire', d) /\ BookOf(book', wire', d)
<1>. SUFFICES ASSUME NEW d \in Cids, d # c
              PROVE  MovedOn(book, wire, book', wire', d) /\ BookOf(book', wire', d)
  OBVIOUS
<1>1. book'[d] = book[d] /\ (d \in wire' <=> d \in wire) /\ book[d].filled \in Nat
  BY OutcomeTypes
<1>2. book[d].filled <= book'[d].filled
  BY <1>1
<1>. QED
  BY <1>1, <1>2 DEF MovedOn, BookOf, OutcomeInv

LEMMA BrokerOutcome ==
  ASSUME TypeOK, TypeOK', OutcomeInv, Broker
  PROVE  OutcomeInv'
<1>. PICK c \in Cids : Land(c) \/ Lose(c) \/ Open(c) \/ Execute(c) \/ Finish(c)
  BY DEF Broker
<1>0. /\ UNCHANGED <<store, todo, phase, pc, cid, rec, fill>> /\ wire' \subseteq wire
      /\ book' \in [Cids -> BrokerOrders] /\ book \in [Cids -> BrokerOrders]
  BY DEF Land, Lose, Open, Execute, Finish, SetOrder, durable, workerVars, systemVars,
         TypeOK, BrokerTypeOK
<1>1. \A d \in Cids \ {c} : book'[d] = book[d] /\ (d \in wire' <=> d \in wire)
  BY <1>0 DEF Land, Lose, Open, Execute, Finish, SetOrder
<1>2. book[c].filled \in 0..Qty /\ BookOf(book, wire, c)
  BY OutcomeTypes DEF OutcomeInv
<1>3. 0 \in Nat /\ Qty \in Nat /\ Qty # 0 /\ book[c].filled \in Nat
  BY <1>2, QtyAssumption
<1>4. ASSUME NEW s, NEW n, SetOrder(c, s, n) PROVE book'[c].status = s /\ book'[c].filled = n
  BY <1>0, <1>4 DEF SetOrder
<1>5. MovedOn(book, wire, book', wire', c) /\ BookOf(book', wire', c)
  <2>1. CASE Land(c)
    <3>1. PICK s \in {"OPEN PENDING", "OPEN", "REJECTED"} : SetOrder(c, s, 0)
      BY <2>1 DEF Land
    <3>2. c \in wire /\ c \notin wire' /\ book[c].status = NoStatus /\ book[c].filled = 0
      BY <1>2, <2>1 DEF Land, BookOf
    <3>3. book'[c].status \in {"OPEN PENDING", "OPEN", "REJECTED"} /\ book'[c].filled = 0
      BY <1>4, <3>1
    <3>4. book[c].filled <= book'[c].filled
      BY <3>2, <3>3, Reflexive
    <3>5. MovedOn(book, wire, book', wire', c)
      BY <3>2, <3>3, <3>4 DEF MovedOn, NoStatus, DeadStatuses
    <3>6. BookOf(book', wire', c)
      BY <1>3, <3>2, <3>3 DEF BookOf
    <3>. QED
      BY <3>5, <3>6
  <2>2. CASE Lose(c)
    <3>1. book' = book /\ c \notin wire' /\ c \in wire
      BY <2>2 DEF Lose
    <3>2. book[c].filled <= book'[c].filled
      BY <1>3, <3>1
    <3>3. MovedOn(book, wire, book', wire', c)
      BY <3>1, <3>2 DEF MovedOn
    <3>. QED
      BY <1>2, <3>1, <3>3 DEF BookOf
  <2>3. CASE Open(c)
    <3>1. PICK s \in {"OPEN", "REJECTED"} : SetOrder(c, s, 0)
      BY <2>3 DEF Open
    <3>2. wire' = wire /\ book[c].status = "OPEN PENDING" /\ book[c].filled = 0
      BY <1>2, <2>3 DEF Open, BookOf
    <3>3. c \notin wire
      BY <1>2, <3>2 DEF BookOf, NoStatus
    <3>4. book'[c].status \in {"OPEN", "REJECTED"} /\ book'[c].filled = 0
      BY <1>4, <3>1
    <3>5. book[c].filled <= book'[c].filled
      BY <3>2, <3>4, Reflexive
    <3>6. MovedOn(book, wire, book', wire', c)
      BY <3>2, <3>3, <3>4, <3>5 DEF MovedOn, NoStatus, DeadStatuses
    <3>7. BookOf(book', wire', c)
      BY <1>3, <3>2, <3>3, <3>4 DEF BookOf
    <3>. QED
      BY <3>6, <3>7
  <2>4. CASE Execute(c)
    <3>1. book[c].filled < Qty /\ book[c].status \in {"OPEN", "CANCEL PENDING"} /\ wire' = wire
      BY <2>4 DEF Execute
    <3>2. PICK s \in {"COMPLETE", book[c].status, "PARTIAL"} : 
             SetOrder(c, s, book[c].filled + 1) /\ (book[c].filled + 1 = Qty => s = "COMPLETE")
      BY <2>4 DEF Execute
    <3>3. c \notin wire
      BY <1>2, <3>1 DEF BookOf, NoStatus
    <3>4. book[c].filled <= book[c].filled + 1
      BY <1>3
    <3>5. book'[c].status = s /\ book'[c].filled = book[c].filled + 1
      BY <1>4, <3>2
    <3>6. s \in {"COMPLETE", "OPEN", "CANCEL PENDING", "PARTIAL"}
      BY <3>1, <3>2
    <3>7. MovedOn(book, wire, book', wire', c)
      BY <3>1, <3>4, <3>5, <3>6 DEF MovedOn, NoStatus, DeadStatuses
    <3>8. BookOf(book', wire', c)
      BY <3>1, <3>2, <3>3, <3>5, <3>6 DEF BookOf, NoStatus
    <3>. QED
      BY <3>7, <3>8
  <2>5. CASE Finish(c)
    <3>1. PICK s \in {"CANCELLED", "EXPIRED"} : SetOrder(c, s, book[c].filled)
      BY <2>5 DEF Finish
    <3>2. book[c].status \in {"CANCEL PENDING", "OPEN"} /\ wire' = wire
      BY <2>5 DEF Finish
    <3>3. c \notin wire /\ book[c].filled # Qty
      BY <1>2, <3>2 DEF BookOf, NoStatus
    <3>4. book'[c].status \in {"CANCELLED", "EXPIRED"} /\ book'[c].filled = book[c].filled
      BY <1>4, <3>1
    <3>5. book[c].filled <= book'[c].filled
      BY <1>3, <3>4
    <3>6. MovedOn(book, wire, book', wire', c)
      BY <3>2, <3>4, <3>5 DEF MovedOn, NoStatus, DeadStatuses
    <3>7. BookOf(book', wire', c)
      BY <3>2, <3>3, <3>4 DEF BookOf, NoStatus
    <3>. QED
      BY <3>6, <3>7
  <2>. QED
    BY <2>1, <2>2, <2>3, <2>4, <2>5
<1>. QED
  BY <1>0, <1>1, <1>5, BookMoves, OneBookMoves

LEMMA InitOutcome == Init => OutcomeInv
<1>. SUFFICES ASSUME Init PROVE OutcomeInv
  OBVIOUS
<1>1. \A c \in Cids : book[c].status = NoStatus /\ book[c].filled = 0 /\ store[c] = NoRecord
        /\ c \notin wire
  BY DEF Init, NoOrder
<1>2. NoRecord.state = NoStatus /\ NoRecord.filled = 0 /\ NoRecord.boid = FALSE
  BY DEF NoRecord
<1>3. Qty # 0
  BY QtyAssumption
<1>4. ASSUME NEW c \in Cids PROVE BookOf(book, wire, c) /\ TrueOf(book, wire, c, store[c])
  <2>1. store[c].state = NoStatus /\ store[c].filled = 0 /\ store[c].boid = FALSE
    BY <1>1, <1>2
  <2>2. store[c].filled <= book[c].filled
    BY <1>1, <2>1
  <2>3. BookOf(book, wire, c)
    BY <1>1, <1>3 DEF BookOf
  <2>. QED
    BY <1>1, <2>1, <2>2, <2>3 DEF TrueOf, NoStatus
<1>5. \A p \in Workers : pc[p] = "idle" /\ cid[p] = NoCid
  BY DEF Init
<1>6. TodoOK
  BY DEF Init, TodoOK
<1>. QED
  BY <1>4, <1>5, <1>6, CidsAssumption DEF OutcomeInv

-----------------------------------------------------------------------------
(* A call moves on                                                           *)

(* A step of one call that writes neither the store nor the broker.          *)
LEMMA WorkerOutcome ==
  ASSUME TypeOK, OutcomeInv, NEW p \in Workers, UNCHANGED <<store, book, wire>>, TodoOK',
         \A q \in Workers \ {p} : pc'[q] = pc[q] /\ cid'[q] = cid[q] /\ rec'[q] = rec[q] /\ fill'[q] = fill[q],
         pc'[p] = "idle" => cid'[p] = NoCid,
         cid'[p] \in Cids =>
           /\ LinkOf(book, wire, cid'[p], store[cid'[p]], pc'[p], rec'[p], fill'[p])
           /\ \A q \in Workers \ {p} : cid[q] # cid'[p]
  PROVE  OutcomeInv'
BY DEF OutcomeInv

LEMMA HoldOutcome ==
  ASSUME TypeOK, OutcomeInv, NEW p \in Workers, NEW r, NEW l, Hold(p, r, l), l # "idle",
         UNCHANGED <<store, book, wire, todo, phase>>,
         cid[p] \in Cids => LinkOf(book, wire, cid[p], store[cid[p]], l, r, fill[p])
  PROVE  OutcomeInv'
<1>1. /\ \A q \in Workers \ {p} : pc'[q] = pc[q] /\ cid'[q] = cid[q] /\ rec'[q] = rec[q] /\ fill'[q] = fill[q]
      /\ pc'[p] = l /\ rec'[p] = r /\ cid'[p] = cid[p] /\ fill'[p] = fill[p] /\ cid' = cid
  BY DEF TypeOK, WorkerTypeOK, Hold, Goto
<1>2. TodoOK'
  BY <1>1 DEF OutcomeInv, TodoOK
<1>3. cid[p] \in Cids => \A q \in Workers \ {p} : cid[q] # cid[p]
  BY DEF OutcomeInv
<1>. QED
  BY <1>1, <1>2, <1>3, WorkerOutcome

LEMMA ReturnOutcome ==
  ASSUME TypeOK, OutcomeInv, NEW p \in Workers, Return(p),
         UNCHANGED <<store, book, wire>>,
         UNCHANGED <<todo, phase>> \/ todo' = {}
  PROVE  OutcomeInv'
<1>1. /\ \A q \in Workers \ {p} : pc'[q] = pc[q] /\ cid'[q] = cid[q] /\ rec'[q] = rec[q] /\ fill'[q] = fill[q]
      /\ pc'[p] = "idle" /\ cid'[p] = NoCid
  BY DEF TypeOK, WorkerTypeOK, Return, Goto
<1>2. todo \subseteq Cids /\ NoCid \notin Cids
  BY CidsAssumption DEF TypeOK, SystemTypeOK
<1>3. TodoOK'
  BY <1>1, <1>2 DEF OutcomeInv, TodoOK
<1>. QED
  BY <1>1, <1>2, <1>3, WorkerOutcome

(* A call begins with an order nobody has in hand.                           *)
LEMMA BeginOutcome ==
  ASSUME TypeOK, OutcomeInv, NEW p \in Workers, NEW c \in Cids, NEW r, NEW l,
         Begin(p, c, r, l), l # "idle", UNCHANGED <<store, book, wire, phase>>,
         \A q \in Workers \ {p} : cid[q] # c,
         c \notin todo', todo' \subseteq todo,
         LinkOf(book, wire, c, store[c], l, r, fill[p])
  PROVE  OutcomeInv'
<1>1. /\ \A q \in Workers \ {p} : pc'[q] = pc[q] /\ cid'[q] = cid[q] /\ rec'[q] = rec[q] /\ fill'[q] = fill[q]
      /\ pc'[p] = l /\ rec'[p] = r /\ cid'[p] = c /\ fill'[p] = fill[p]
  BY DEF TypeOK, WorkerTypeOK, Begin, Goto
<1>2. TodoOK'
  BY <1>1 DEF OutcomeInv, TodoOK
<1>. QED
  BY <1>1, <1>2, WorkerOutcome


(* A call takes a step with its order at the broker.                         *)
LEMMA CallMovesBook ==
  ASSUME TypeOK, OutcomeInv, NEW p \in Workers, NEW c \in Cids, cid[p] = c,
         UNCHANGED <<store, todo, phase>>,
         \A d \in Cids \ {c} : book'[d] = book[d] /\ (d \in wire' <=> d \in wire),
         BookOf(book', wire', c), TrueOf(book', wire', c, store[c]),
         \A q \in Workers \ {p} : pc'[q] = pc[q] /\ cid'[q] = cid[q] /\ rec'[q] = rec[q] /\ fill'[q] = fill[q],
         pc'[p] = "idle" => cid'[p] = NoCid,
         cid'[p] = NoCid \/ (cid'[p] = c /\ LinkOf(book', wire', c, store[c], pc'[p], rec'[p], fill'[p]))
  PROVE  OutcomeInv'
<1>1. ASSUME NEW d \in Cids PROVE BookOf(book', wire', d) /\ TrueOf(book', wire', d, store[d])
  <2>1. CASE d # c
    <3>1. BookOf(book, wire, d) /\ TrueOf(book, wire, d, store[d])
      BY DEF OutcomeInv
    <3>2. book'[d] = book[d] /\ (d \in wire' <=> d \in wire)
      BY <2>1
    <3>. QED
      BY <3>1, <3>2 DEF BookOf, TrueOf
  <2>. QED
    BY <2>1
<1>2. \A q \in Workers \ {p} : cid[q] # c
  BY DEF OutcomeInv
<1>3. ASSUME NEW q \in Workers \ {p}, cid[q] \in Cids
      PROVE  LinkOf(book', wire', cid[q], store[cid[q]], pc[q], rec[q], fill[q])
  <2>1. LinkOf(book, wire, cid[q], store[cid[q]], pc[q], rec[q], fill[q])
    BY <1>3 DEF OutcomeInv
  <2>2. cid[q] \in Cids \ {c}
    BY <1>2, <1>3
  <2>. QED
    BY <2>1, <2>2 DEF LinkOf, TrueOf, Knows
<1>4. NoCid \notin Cids /\ todo \subseteq Cids
  BY CidsAssumption DEF TypeOK, SystemTypeOK
<1>5. TodoOK'
  BY <1>4 DEF OutcomeInv, TodoOK
<1>6. \A q, o \in Workers : cid'[q] \in Cids /\ cid'[q] = cid'[o] => q = o
  BY <1>2, <1>4 DEF OutcomeInv
<1>7. \A q \in Workers : cid'[q] \in Cids =>
         LinkOf(book', wire', cid'[q], store[cid'[q]], pc'[q], rec'[q], fill'[q])
  BY <1>3, <1>4
<1>8. \A q \in Workers : pc'[q] = "idle" => cid'[q] = NoCid
  BY DEF OutcomeInv
<1>. QED
  BY <1>1, <1>5, <1>6, <1>7, <1>8 DEF OutcomeInv

(* What a call holds may only grow.                                          *)
LEMMA GrownLink ==
  ASSUME NEW bk, NEW wr, NEW c, NEW s, NEW l, NEW r, NEW f, NEW l2, NEW r2,
         LinkOf(bk, wr, c, s, l, r, f), l \in Knowing, l2 \in Knowing,
         s.filled \in Nat, r.filled \in Nat, r2.filled \in Nat,
         TrueOf(bk, wr, c, r2), r.filled <= r2.filled, r.boid => r2.boid,
         s.state = "UNKNOWN" => \/ r2.state = "UNKNOWN" \/ r2.boid
                                \/ r2.state = "REJECTED" /\ bk[c].status = NoStatus /\ c \notin wr,
         l2 \in Onward => r2.state \notin TerminalStates,
         l2 = "saveAcked" => r2.boid
  PROVE  LinkOf(bk, wr, c, s, l2, r2, f)
<1>1. s.filled <= r.filled
  BY DEF LinkOf, Knows
<1>2. s.filled <= r2.filled
  BY <1>1
<1>3. l2 \notin {"poll", "readFill"}
  BY DEF Knowing, SaveThen
<1>4. (s.boid => r2.boid) /\ s.state \notin TerminalStates
  BY DEF LinkOf, Knows
<1>5. Knows(bk, wr, c, s, r2)
  BY <1>2, <1>4 DEF Knows
<1>. QED
  BY <1>3, <1>4, <1>5 DEF LinkOf

(* A call begins with what the store holds.                                  *)
LEMMA FreshLink ==
  ASSUME NEW bk, NEW wr, NEW c, NEW s, NEW l, NEW f, s.filled \in Nat,
         TrueOf(bk, wr, c, s), l \in Knowing, s.state \notin TerminalStates, l # "saveAcked"
  PROVE  LinkOf(bk, wr, c, s, l, s, f)
<1>1. s.filled <= s.filled
  BY Reflexive
<1>2. l \notin {"poll", "readFill"}
  BY DEF Knowing, SaveThen
<1>. QED
  BY <1>1, <1>2 DEF LinkOf, Knows

(* The record takes on a state that is not the broker's last word.           *)
LEMMA RestatedLink ==
  ASSUME NEW bk, NEW wr, NEW c, NEW s, NEW l, NEW r \in Records, NEW f, NEW l2, NEW t,
         LinkOf(bk, wr, c, s, l, r, f), l \in Knowing, l2 \in Knowing \ {"saveAcked"},
         s.filled \in Nat, t \notin BrokerTerminal,
         s.state = "UNKNOWN" => t = "UNKNOWN" \/ r.boid,
         l2 \in Onward => t \notin TerminalStates
  PROVE  LinkOf(bk, wr, c, s, l2, [r EXCEPT !.state = t], f)
<1>. DEFINE r2 == [r EXCEPT !.state = t]
<1>1. r2.state = t /\ r2.filled = r.filled /\ r2.boid = r.boid
  BY DEF Records
<1>2. r.filled \in 0..Qty
  BY DEF Records
<1>3. r.filled \in Nat
  BY <1>2, QtyAssumption
<1>4. r.filled <= r2.filled
  BY <1>1, <1>3
<1>5. TrueOf(bk, wr, c, r)
  BY DEF LinkOf
<1>. HIDE DEF r2
<1>6. TrueOf(bk, wr, c, r2)
  BY <1>1, <1>5 DEF TrueOf, BrokerTerminal
<1>. QED
  BY <1>1, <1>3, <1>4, <1>6, GrownLink DEF r2

LEMMA KnowingLabels ==
  /\ DOMAIN SaveThen = {"savePending", "saveApproved", "saveSubmitted", "saveAcked",
                        "saveAmbiguous", "saveFill", "saveCancelPending", "saveMonitor",
                        "saveRecovered", "saveLast"}
  /\ DOMAIN SaveThen \subseteq Knowing
  /\ {"blocking", "gates", "arm", "place", "await", "resolve", "logTrade", "sendCancel",
      "monitor", "monitorBlind", "recoverIntent", "recoverOrder"} \subseteq Knowing
  /\ Knowing \intersect {"poll", "readFill", "idle", "existing", "readPosition", "writePosition",
                         "recover"} = {}
BY DEF Knowing, SaveThen

LEMMA SaveOutcome ==
  ASSUME TypeOK, OutcomeInv, NEW p \in Workers, Save(p)
  PROVE  OutcomeInv'
<1>. DEFINE c == cid[p]
<1>1. pc[p] \in DOMAIN SaveThen /\ c \in Cids /\ UNCHANGED <<book, wire, todo, phase>>
  BY DEF Save, SaveThen, TypeOK, HandsOK, brokerVars, systemVars
<1>2. store'[c] = rec[p] /\ \A d \in Cids \ {c} : store'[d] = store[d]
  BY <1>1 DEF Save, TypeOK, DurableTypeOK
<1>3. LinkOf(book, wire, c, store[c], pc[p], rec[p], fill[p])
  BY <1>1 DEF OutcomeInv
<1>4. \A d \in Cids : BookOf(book, wire, d) /\ TrueOf(book, wire, d, store'[d])
  BY <1>2, <1>3 DEF OutcomeInv, LinkOf
<1>5. NoCid \notin Cids /\ todo \subseteq Cids /\ c \notin todo
  BY CidsAssumption DEF TypeOK, SystemTypeOK, OutcomeInv, TodoOK
<1>6. /\ \A q \in Workers \ {p} : /\ pc'[q] = pc[q] /\ cid'[q] = cid[q] /\ rec'[q] = rec[q]
                                  /\ fill'[q] = fill[q] /\ cid[q] # c
      /\ pc'[p] = SaveThen[pc[p]]
      /\ pc'[p] = "idle" => cid'[p] = NoCid
      /\ pc'[p] # "idle" => cid'[p] = c /\ rec'[p] = rec[p] /\ fill'[p] = fill[p]
  BY <1>1 DEF Save, Return, Hold, Goto, TypeOK, WorkerTypeOK, OutcomeInv
<1>7. TodoOK'
  BY <1>1, <1>2, <1>5, <1>6 DEF OutcomeInv, TodoOK
<1>8. ASSUME pc'[p] # "idle"
      PROVE  LinkOf(book, wire, c, rec[p], pc'[p], rec[p], fill[p])
  <2>1. TrueOf(book, wire, c, rec[p])
    BY <1>3 DEF LinkOf
  <2>2. /\ pc'[p] \in {"gates", "arm", "place", "poll", "resolve", "readPosition", "sendCancel",
                       "monitor", "recover"}
        /\ pc'[p] \notin {"readPosition", "recover"} => pc[p] \in Onward
        /\ pc'[p] = "poll" => pc[p] = "saveAcked"
    BY <1>1, <1>6, <1>8 DEF SaveThen, Onward
  <2>3. pc'[p] \notin {"readPosition", "recover"} => rec[p].state \notin TerminalStates
    BY <1>3, <2>2 DEF LinkOf
  <2>4. pc'[p] = "poll" => rec[p].boid
    BY <1>3, <2>2 DEF LinkOf
  <2>5. Knows(book, wire, c, rec[p], rec[p])
    BY OutcomeTypes, Reflexive DEF Knows
  <2>. QED
    BY <2>1, <2>2, <2>3, <2>4, <2>5, KnowingLabels DEF LinkOf, Onward
<1>9. \A q, o \in Workers : cid'[q] \in Cids /\ cid'[q] = cid'[o] => q = o
  BY <1>1, <1>5, <1>6 DEF OutcomeInv
<1>10. \A q \in Workers : cid'[q] \in Cids =>
         LinkOf(book, wire, cid'[q], store'[cid'[q]], pc'[q], rec'[q], fill'[q])
  BY <1>1, <1>2, <1>5, <1>6, <1>8 DEF OutcomeInv
<1>11. \A q \in Workers : pc'[q] = "idle" => cid'[q] = NoCid
  BY <1>6 DEF OutcomeInv
<1>. QED
  BY <1>1, <1>4, <1>7, <1>9, <1>10, <1>11 DEF OutcomeInv

(* What a broker entry is read as is true of the order.                      *)
LEMMA MappedTruth ==
  ASSUME BrokerTypeOK, NEW c \in Cids, NEW view \in Views(c), Present(c)
  PROVE  /\ view.filled = book[c].filled
         /\ MappedState(view) = "FILLED"    => book[c].status = "COMPLETE"
         /\ MappedState(view) = "CANCELLED" => book[c].status = "CANCELLED"
         /\ MappedState(view) = "EXPIRED"   => book[c].status = "EXPIRED"
         /\ MappedState(view) = "REJECTED"  => book[c].status = "REJECTED"
<1>1. view.filled = book[c].filled /\ view.status \in {book[c].status, NoStatus}
  BY DEF BrokerTypeOK, BrokerOrders, Views
<1>2. book[c].status \in BrokerStatuses
  BY DEF BrokerTypeOK, BrokerOrders, Present
<1>3. MappedState(view) \in BrokerTerminal => view.status = book[c].status
  BY <1>1 DEF MappedState, MapBrokerStatus, NoStatus, BrokerStatuses, LiveStatuses, DeadStatuses,
              BrokerTerminal
<1>4. ASSUME NEW s \in BrokerStatuses, NEW n, NEW m
      PROVE  /\ MapBrokerStatus(s, n, m) = "FILLED"    => s = "COMPLETE"
             /\ MapBrokerStatus(s, n, m) = "CANCELLED" => s = "CANCELLED"
             /\ MapBrokerStatus(s, n, m) = "EXPIRED"   => s = "EXPIRED"
             /\ MapBrokerStatus(s, n, m) = "REJECTED"  => s = "REJECTED"
  BY DEF MapBrokerStatus, BrokerStatusMap, BrokerStatuses, LiveStatuses, DeadStatuses
<1>. QED
  BY <1>1, <1>2, <1>3, <1>4 DEF MappedState, BrokerTerminal

LEMMA ReadShares ==
  ASSUME TypeOK, NEW c \in Cids, NEW view \in Views(c), Present(c), NEW r, r.filled \in Nat,
         TrueOf(book, wire, c, r)
  PROVE  view.filled \in 0..Qty /\ view.filled \in Nat /\ r.filled <= view.filled
<1>1. view.filled = book[c].filled
  BY MappedTruth DEF TypeOK
<1>2. book[c].filled \in 0..Qty /\ book[c].filled \in Nat
  BY OutcomeTypes
<1>. QED
  BY <1>1, <1>2 DEF TrueOf

(* A record that takes over a broker entry.                                  *)
LEMMA ReadTrue ==
  ASSUME TypeOK, NEW c \in Cids, NEW view \in Views(c), Present(c), NEW r, NEW r2,
         TrueOf(book, wire, c, r), r2.boid = TRUE,
         r2.state \in {r.state, MappedState(view)}, r2.filled \in {r.filled, view.filled}
  PROVE  TrueOf(book, wire, c, r2)
<1>1. view.filled = book[c].filled /\ book[c].filled \in Nat
  BY MappedTruth, OutcomeTypes DEF TypeOK
<1>2. r.filled <= book[c].filled /\ view.filled <= book[c].filled
  BY <1>1 DEF TrueOf
<1>3. r2.filled <= book[c].filled
  BY <1>2
<1>4. /\ r2.state = "FILLED"    => book[c].status = "COMPLETE"
      /\ r2.state = "CANCELLED" => book[c].status = "CANCELLED"
      /\ r2.state = "EXPIRED"   => book[c].status = "EXPIRED"
      /\ r2.state = "REJECTED"  => book[c].status = "REJECTED"
  BY MappedTruth DEF TypeOK, TrueOf, Present
<1>. QED
  BY <1>3, <1>4 DEF TrueOf, Present

LEMMA RecordTypes ==
  ASSUME TypeOK, NEW p \in Workers, cid[p] \in Cids
  PROVE  rec[p] \in Records /\ rec[p].filled \in Nat /\ store[cid[p]] \in Records
         /\ store[cid[p]].filled \in Nat /\ cid[p] \in Cids
BY OutcomeTypes

LEMMA PlaceOutcome ==
  ASSUME OneCallAtATime, TypeOK, PlacementInv, OutcomeInv, NEW p \in Workers, PlaceOrder(p)
  PROVE  OutcomeInv'
<1>. DEFINE c == cid[p]
<1>1. pc[p] = "place" /\ c \in Cids /\ wire' = wire \union {c} /\ book' = book
      /\ UNCHANGED <<store, todo, phase>>
  BY DEF PlaceOrder, TypeOK, HandsOK, durable, systemVars
<1>2. ~Present(c)
  BY <1>1 DEF PlacementInv, OrderInv, OwnerInv, Owns, Owning, TypeOK, BrokerTypeOK
<1>3. LinkOf(book, wire, c, store[c], pc[p], rec[p], fill[p])
  BY <1>1 DEF OutcomeInv
<1>4. BookOf(book, wire, c) /\ TrueOf(book, wire, c, store[c])
  BY <1>1 DEF OutcomeInv
<1>5. rec[p].state \notin TerminalStates /\ store[c].state \notin TerminalStates
      /\ Knows(book, wire, c, store[c], rec[p]) /\ TrueOf(book, wire, c, rec[p])
  BY <1>1, <1>3, KnowingLabels DEF LinkOf, Onward
<1>6. BookOf(book', wire', c)
  BY <1>1, <1>2, <1>4 DEF BookOf, Present
<1>7. TrueOf(book', wire', c, store[c]) /\ TrueOf(book', wire', c, rec[p])
  BY <1>1, <1>4, <1>5 DEF TrueOf, TerminalStates
<1>8. Knows(book', wire', c, store[c], rec[p])
  BY <1>1, <1>5 DEF Knows, TerminalStates
<1>9. /\ \A q \in Workers \ {p} : pc'[q] = pc[q] /\ cid'[q] = cid[q] /\ rec'[q] = rec[q] /\ fill'[q] = fill[q]
      /\ pc'[p] = "await" /\ rec'[p] = rec[p] /\ cid'[p] = c /\ fill'[p] = fill[p]
  BY DEF PlaceOrder, Hold, Goto, TypeOK, WorkerTypeOK
<1>10. LinkOf(book', wire', c, store[c], "await", rec[p], fill[p])
  BY <1>5, <1>7, <1>8 DEF LinkOf, Onward
<1>. QED
  BY <1>1, <1>6, <1>7, <1>9, <1>10, CallMovesBook

LEMMA ResolveOutcome ==
  ASSUME OneCallAtATime, TypeOK, OutcomeInv, NEW p \in Workers, ResolveUnknown(p)
  PROVE  OutcomeInv'
<1>. DEFINE c == cid[p]
<1>1. pc[p] = "resolve" /\ c \in Cids /\ UNCHANGED <<store, book, wire, todo, phase>>
  BY DEF ResolveUnknown, TypeOK, HandsOK, durable, brokerVars, systemVars
<1>2. LinkOf(book, wire, c, store[c], pc[p], rec[p], fill[p]) /\ TrueOf(book, wire, c, rec[p])
  BY <1>1 DEF OutcomeInv, LinkOf
<1>3. pc[p] \in Knowing /\ "saveLast" \in Knowing \ Onward
  BY <1>1, KnowingLabels DEF Onward
<1>4. /\ rec[p] \in Records /\ rec[p].filled \in Nat /\ store[c].filled \in Nat
      /\ rec[p].filled <= rec[p].filled
  BY <1>1, RecordTypes, Reflexive
<1>5. ASSUME NEW r2, r2.filled \in Nat, TrueOf(book, wire, c, r2), Hold(p, r2, "saveLast"),
             rec[p].filled <= r2.filled, rec[p].boid => r2.boid,
             store[c].state = "UNKNOWN" =>
               \/ r2.state = "UNKNOWN" \/ r2.boid
               \/ r2.state = "REJECTED" /\ book[c].status = NoStatus /\ c \notin wire
      PROVE  OutcomeInv'
  <2>1. LinkOf(book, wire, c, store[c], "saveLast", r2, fill[p])
    BY <1>2, <1>3, <1>4, <1>5, GrownLink
  <2>. QED
    BY <1>1, <1>5, <2>1, HoldOutcome
<1>6. CASE Hold(p, rec[p], "saveLast")
  <2>1. store[c].state = "UNKNOWN" =>
               \/ rec[p].state = "UNKNOWN" \/ rec[p].boid
               \/ rec[p].state = "REJECTED" /\ book[c].status = NoStatus /\ c \notin wire
    BY <1>2, <1>3 DEF LinkOf, Knows
  <2>. QED
    BY <1>2, <1>4, <1>5, <1>6, <2>1
<1>7. CASE Missing(c) /\ Enter(p, "REJECTED", "saveLast")
  <2>. DEFINE r2 == [rec[p] EXCEPT !.state = "REJECTED"]
  <2>1. book[c].status = NoStatus /\ c \notin wire
    BY <1>7 DEF Missing, Present, OneCallAtATime
  <2>2. r2.state = "REJECTED" /\ r2.boid = rec[p].boid /\ r2.filled = rec[p].filled
    BY <1>4 DEF Records
  <2>3. Hold(p, r2, "saveLast")
    BY <1>7 DEF Enter
  <2>. HIDE DEF r2
  <2>4. TrueOf(book, wire, c, r2)
    BY <1>2, <2>1, <2>2 DEF TrueOf
  <2>5. r2.filled \in Nat /\ rec[p].filled <= r2.filled
    BY <1>4, <2>2
  <2>. QED
    BY <1>5, <2>1, <2>2, <2>3, <2>4, <2>5
<1>8. CASE Return(p)
  BY <1>1, <1>8, ReturnOutcome
<1>9. ASSUME Present(c), NEW view \in Views(c), NEW r2, Hold(p, r2, "saveLast"),
             \/ r2 = [rec[p] EXCEPT !.boid = TRUE]
             \/ r2 = [[rec[p] EXCEPT !.boid = TRUE] EXCEPT !.state = MappedState(view), !.filled = view.filled]
      PROVE  OutcomeInv'
  <2>1. /\ r2.state \in {rec[p].state, MappedState(view)} /\ r2.boid = TRUE
        /\ r2.filled \in {rec[p].filled, view.filled}
    BY <1>4, <1>9 DEF Records
  <2>2. view.filled \in Nat /\ rec[p].filled <= view.filled /\ TrueOf(book, wire, c, r2)
    BY <1>1, <1>2, <1>4, <1>9, <2>1, ReadTrue, ReadShares
  <2>3. r2.filled \in Nat /\ rec[p].filled <= r2.filled
    BY <1>4, <2>1, <2>2
  <2>. QED
    BY <1>5, <1>9, <2>1, <2>2, <2>3
<1>. QED
  BY <1>6, <1>7, <1>8, <1>9 DEF ResolveUnknown

LEMMA SubmitOutcome ==
  ASSUME OneCallAtATime, TypeOK, PlacementInv, StageInv, OutcomeInv, NEW p \in Workers,
         SubmitStep(p)
  PROVE  OutcomeInv'
<1>. DEFINE c == cid[p]
<1>1. c \in Cids
  BY DEF SubmitStep, HandleExistingIntent, CheckBlocking, RunGates, Arm, PlaceOrder,
         PlaceAccepted, PlaceAmbiguous, PollImmediate, ResolveUnknown, TypeOK, HandsOK
<1>2. CASE PlaceOrder(p)
  BY <1>2, PlaceOutcome
<1>3. CASE ResolveUnknown(p)
  BY <1>3, ResolveOutcome
<1>. SUFFICES ASSUME ~PlaceOrder(p), ~ResolveUnknown(p) PROVE OutcomeInv'
  BY <1>2, <1>3
<1>4. UNCHANGED <<store, book, wire, todo, phase>>
  BY DEF SubmitStep, HandleExistingIntent, CheckBlocking, RunGates, Arm, PlaceAccepted,
         PlaceAmbiguous, PollImmediate, durable, brokerVars, systemVars
<1>5. CASE Return(p)
  BY <1>4, <1>5, ReturnOutcome
<1>6. /\ LinkOf(book, wire, c, store[c], pc[p], rec[p], fill[p]) /\ TrueOf(book, wire, c, rec[p])
      /\ TrueOf(book, wire, c, store[c])
  BY <1>1 DEF OutcomeInv, LinkOf
<1>7. /\ rec[p] \in Records /\ rec[p].filled \in Nat /\ store[c].filled \in Nat
      /\ rec[p].filled <= rec[p].filled
  BY <1>1, RecordTypes, Reflexive
<1>8. Owns(p) /\ pc[p] # "place" => store[c].state # "UNKNOWN"
  BY StateClasses DEF StageInv, StageOK, BlockedStates
<1>9. ASSUME NEW t, NEW l, Enter(p, t, l), pc[p] \in Knowing, l \in Knowing \ {"saveAcked"},
             t \notin BrokerTerminal, l \in Onward => t \notin TerminalStates,
             store[c].state = "UNKNOWN" => t = "UNKNOWN" \/ rec[p].boid
      PROVE  OutcomeInv'
  <2>1. LinkOf(book, wire, c, store[c], l, [rec[p] EXCEPT !.state = t], fill[p]) /\ l # "idle"
    BY <1>6, <1>7, <1>9, RestatedLink, KnowingLabels
  <2>. QED
    BY <1>4, <1>9, <2>1, HoldOutcome DEF Enter
<1>10. CASE HandleExistingIntent(p)
  <2>1. CASE store[c].state \in BlockedStates /\ Hold(p, store[c], "resolve")
    <3>1. store[c].state \notin TerminalStates
      BY <2>1 DEF BlockedStates, TerminalStates
    <3>2. LinkOf(book, wire, c, store[c], "resolve", store[c], fill[p])
      BY <1>6, <1>7, <3>1, FreshLink, KnowingLabels
    <3>. QED
      BY <1>4, <2>1, <3>2, HoldOutcome
  <2>. QED
    BY <1>5, <1>10, <2>1 DEF HandleExistingIntent
<1>11. CASE CheckBlocking(p) \/ RunGates(p) \/ Arm(p)
  <2>1. Owns(p) /\ pc[p] # "place" /\ pc[p] \in Knowing
    BY <1>11, KnowingLabels DEF CheckBlocking, RunGates, Arm, Owns, Owning
  <2>2. PICK t \in {"RISK_REJECTED", "RISK_CHECK_PENDING", "RISK_APPROVED", "SUBMITTED"},
             l \in {"saveLast", "savePending", "saveApproved", "saveSubmitted"} :
           Enter(p, t, l) /\ (t = "RISK_REJECTED" => l = "saveLast")
    BY <1>11 DEF CheckBlocking, RunGates, Arm
  <2>3. t \notin BrokerTerminal /\ l \in Knowing \ {"saveAcked"} /\ (l \in Onward => t \notin TerminalStates)
    BY <2>2, KnowingLabels DEF BrokerTerminal, Onward, TerminalStates
  <2>. QED
    BY <1>8, <1>9, <2>1, <2>2, <2>3
<1>12. CASE PlaceAccepted(p)
  <2>. DEFINE r2 == [rec[p] EXCEPT !.boid = TRUE, !.state = "ACKNOWLEDGED"]
  <2>1. pc[p] = "await" /\ Present(c) /\ Hold(p, r2, "saveAcked")
    BY <1>12 DEF PlaceAccepted
  <2>2. r2.state = "ACKNOWLEDGED" /\ r2.boid = TRUE /\ r2.filled = rec[p].filled
    BY <1>7 DEF Records
  <2>. HIDE DEF r2
  <2>3. TrueOf(book, wire, c, r2)
    BY <1>6, <2>1, <2>2 DEF TrueOf, Present
  <2>4. r2.filled \in Nat /\ rec[p].filled <= r2.filled
    BY <1>7, <2>2
  <2>5. pc[p] \in Knowing /\ "saveAcked" \in Knowing /\ r2.state \notin TerminalStates
    BY <2>1, <2>2, KnowingLabels DEF TerminalStates
  <2>6. LinkOf(book, wire, c, store[c], "saveAcked", r2, fill[p])
    BY <1>6, <1>7, <2>2, <2>3, <2>4, <2>5, GrownLink
  <2>. QED
    BY <1>4, <2>1, <2>6, HoldOutcome
<1>13. CASE PlaceAmbiguous(p)
  <2>1. pc[p] = "await" /\ Enter(p, "UNKNOWN", "saveAmbiguous")
    BY <1>13 DEF PlaceAmbiguous
  <2>. QED
    BY <1>9, <2>1, KnowingLabels DEF BrokerTerminal, TerminalStates
<1>14. CASE PollImmediate(p) /\ ~Return(p)
  <2>. DEFINE n == book[c].filled
  <2>1. /\ pc[p] = "poll" /\ n > rec[p].filled
        /\ fill' = [fill EXCEPT ![p] = [id |-> <<"immediate", n>>, qty |-> n - rec[p].filled]]
        /\ Goto(p, "readFill") /\ UNCHANGED <<cid, rec>>
    BY <1>14 DEF PollImmediate
  <2>2. /\ \A q \in Workers \ {p} : pc'[q] = pc[q] /\ cid'[q] = cid[q] /\ rec'[q] = rec[q] /\ fill'[q] = fill[q]
        /\ pc'[p] = "readFill" /\ cid'[p] = c /\ rec'[p] = rec[p] /\ fill'[p].qty = n - rec[p].filled
    BY <2>1 DEF Goto, TypeOK, WorkerTypeOK
  <2>3. store[c].boid /\ store[c].filled = rec[p].filled /\ store[c].state \notin TerminalStates
    BY <1>6, <2>1 DEF LinkOf
  <2>4. n \in Nat
    BY <1>1, OutcomeTypes
  <2>5. rec[p].filled + (n - rec[p].filled) <= n
    BY <1>7, <2>4
  <2>6. store[c].filled + fill'[p].qty <= book[c].filled
    BY <2>2, <2>3, <2>5
  <2>7. LinkOf(book, wire, c, store[c], "readFill", rec[p], fill'[p])
    BY <1>6, <2>3, <2>6, KnowingLabels DEF LinkOf, Onward
  <2>8. TodoOK'
    BY <1>4, <2>1 DEF OutcomeInv, TodoOK
  <2>9. \A q \in Workers \ {p} : cid[q] # c
    BY <1>1 DEF OutcomeInv
  <2>. QED
    BY <1>4, <2>2, <2>7, <2>8, <2>9, WorkerOutcome
<1>. QED
  BY <1>5, <1>10, <1>11, <1>12, <1>13, <1>14 DEF SubmitStep

LEMMA FillOutcome ==
  ASSUME OneCallAtATime, TypeOK, OutcomeInv, NEW p \in Workers, FillStep(p)
  PROVE  OutcomeInv'
<1>. DEFINE c == cid[p]
<1>1. c \in Cids /\ UNCHANGED <<store, book, wire, todo, phase>> /\ pc[p] \in FillLabels
  BY DEF FillStep, ApplyFill, LogTrade, ReadPosition, WritePosition, durable, brokerVars,
         systemVars, TypeOK, HandsOK, FillLabels
<1>2. CASE Return(p)
  BY <1>1, <1>2, ReturnOutcome
<1>3. /\ LinkOf(book, wire, c, store[c], pc[p], rec[p], fill[p]) /\ TrueOf(book, wire, c, rec[p])
      /\ TrueOf(book, wire, c, store[c])
  BY <1>1 DEF OutcomeInv, LinkOf
<1>4. /\ rec[p] \in Records /\ rec[p].filled \in Nat /\ store[c].filled \in Nat
      /\ store[c] \in Records /\ book[c].filled \in 0..Qty /\ rec[p].filled \in 0..Qty
      /\ fill[p].qty \in Nat
  BY <1>1, RecordTypes, OutcomeTypes
<1>5. CASE ApplyFill(p) /\ ~Return(p)
  <2>. DEFINE s == store[c]
              r == [s EXCEPT !.filled = @ + fill[p].qty, !.applied = @ \union {fill[p].id}]
  <2>1. pc[p] = "readFill" /\ s.state \notin BlockedStates /\ Hold(p, r, "logTrade")
    BY <1>5 DEF ApplyFill
  <2>2. r.state = s.state /\ r.boid = s.boid /\ r.filled = s.filled + fill[p].qty
    BY <1>4 DEF Records
  <2>3. s.boid /\ s.filled + fill[p].qty <= book[c].filled /\ s.state \notin TerminalStates
    BY <1>3, <2>1 DEF LinkOf
  <2>. HIDE DEF r
  <2>4. r.filled <= book[c].filled /\ s.filled <= r.filled
    BY <1>4, <2>2, <2>3
  <2>5. TrueOf(book, wire, c, r)
    BY <1>3, <2>2, <2>3, <2>4 DEF TrueOf
  <2>6. Knows(book, wire, c, s, r)
    BY <2>2, <2>3, <2>4 DEF Knows
  <2>7. LinkOf(book, wire, c, s, "logTrade", r, fill[p])
    BY <2>3, <2>5, <2>6 DEF LinkOf, Onward
  <2>. QED
    BY <1>1, <2>1, <2>7, HoldOutcome
<1>6. CASE LogTrade(p) /\ ~Return(p)
  <2>1. pc[p] = "logTrade" /\ pc[p] \in Knowing /\ "saveFill" \in Knowing \ Onward
    BY <1>6, KnowingLabels DEF LogTrade, Onward
  <2>2. PICK t \in {"FILLED", "PARTIALLY_FILLED"} :
           /\ CanTransition(rec[p].state, t, FALSE) /\ Enter(p, t, "saveFill")
           /\ t = "FILLED" => rec[p].filled = Qty
    BY <1>6 DEF LogTrade
  <2>3. rec[p].state \notin {"UNKNOWN", "REJECTED"}
    BY <2>2 DEF CanTransition, BlockedStates, TerminalStates
  <2>4. store[c].state = "UNKNOWN" => rec[p].boid
    BY <1>3, <2>1, <2>3 DEF LinkOf, Knows
  <2>. DEFINE r == [rec[p] EXCEPT !.state = t]
  <2>5. r.state = t /\ r.boid = rec[p].boid /\ r.filled = rec[p].filled /\ Hold(p, r, "saveFill")
    BY <1>4, <2>2 DEF Enter, Records
  <2>. HIDE DEF r
  <2>6. t = "FILLED" => book[c].status = "COMPLETE"
    <3>1. SUFFICES ASSUME t = "FILLED" PROVE book[c].filled = Qty
      BY <1>1 DEF OutcomeInv, BookOf
    <3>2. Qty <= book[c].filled
      BY <1>3, <2>2, <3>1 DEF TrueOf
    <3>. QED
      BY <1>4, <3>2, QtyAssumption
  <2>7. TrueOf(book, wire, c, r)
    BY <1>3, <2>5, <2>6 DEF TrueOf
  <2>8. r.filled \in Nat /\ rec[p].filled <= r.filled
    BY <1>4, <2>5, Reflexive
  <2>9. LinkOf(book, wire, c, store[c], "saveFill", r, fill[p])
    BY <1>3, <1>4, <2>1, <2>4, <2>5, <2>7, <2>8, GrownLink
  <2>. QED
    BY <1>1, <2>5, <2>9, HoldOutcome
<1>7. CASE ReadPosition(p)
  <2>1. /\ \A q \in Workers \ {p} : pc'[q] = pc[q] /\ cid'[q] = cid[q] /\ rec'[q] = rec[q] /\ fill'[q] = fill[q]
        /\ pc'[p] = "writePosition" /\ cid'[p] = c /\ rec'[p] = rec[p] /\ cid' = cid
    BY <1>7 DEF ReadPosition, Goto, TypeOK, WorkerTypeOK
  <2>2. LinkOf(book, wire, c, store[c], "writePosition", rec[p], fill'[p])
    BY <1>3, KnowingLabels DEF LinkOf, Onward
  <2>3. TodoOK'
    BY <1>1, <2>1 DEF OutcomeInv, TodoOK
  <2>4. \A q \in Workers \ {p} : cid[q] # c
    BY <1>1 DEF OutcomeInv
  <2>. QED
    BY <1>1, <2>1, <2>2, <2>3, <2>4, WorkerOutcome
<1>8. CASE WritePosition(p)
  BY <1>2, <1>8 DEF WritePosition
<1>. QED
  BY <1>2, <1>5, <1>6, <1>7, <1>8 DEF FillStep

LEMMA CancelOutcome ==
  ASSUME OneCallAtATime, TypeOK, OutcomeInv, NEW p \in Workers, SendCancel(p)
  PROVE  OutcomeInv'
<1>. DEFINE c == cid[p]
<1>1. pc[p] = "sendCancel" /\ c \in Cids /\ UNCHANGED <<store, wire, todo, phase>>
  BY DEF SendCancel, TypeOK, HandsOK, durable, systemVars
<1>2. /\ LinkOf(book, wire, c, store[c], pc[p], rec[p], fill[p]) /\ TrueOf(book, wire, c, rec[p])
      /\ TrueOf(book, wire, c, store[c]) /\ BookOf(book, wire, c)
  BY <1>1 DEF OutcomeInv, LinkOf
<1>3. /\ rec[p] \in Records /\ rec[p].filled \in Nat /\ store[c].filled \in Nat
      /\ rec[p].filled <= rec[p].filled
  BY <1>1, RecordTypes, Reflexive
<1>4. pc[p] \in Knowing /\ "saveLast" \in Knowing \ Onward /\ store[c].state \notin TerminalStates
  BY <1>1, <1>2, KnowingLabels DEF Onward, LinkOf
<1>5. CASE UNCHANGED book
  <2>1. CASE Return(p)
    BY <1>1, <1>5, <2>1, ReturnOutcome
  <2>2. CASE Enter(p, "UNKNOWN", "saveLast")
    <3>1. LinkOf(book, wire, c, store[c], "saveLast", [rec[p] EXCEPT !.state = "UNKNOWN"], fill[p])
      BY <1>2, <1>3, <1>4, RestatedLink DEF BrokerTerminal
    <3>. QED
      BY <1>1, <1>5, <2>2, <3>1, HoldOutcome DEF Enter
  <2>3. CASE CancelTakes(p)
    <3>1. book'[c] = [book[c] EXCEPT !.status = "CANCELLED"]
      BY <1>1, <2>3 DEF CancelTakes, OneCallAtATime, TypeOK, BrokerTypeOK
    <3>2. book[c] \in BrokerOrders /\ book[c].status \in LiveStatuses
      BY <1>1, <2>3, OutcomeTypes DEF CancelTakes, Cancellable, Live
    <3>3. book'[c].status = "CANCELLED"
      BY <3>1, <3>2 DEF BrokerOrders
    <3>. QED
      BY <1>5, <3>2, <3>3 DEF LiveStatuses
  <2>. QED
    BY <2>1, <2>2, <2>3 DEF SendCancel
<1>6. CASE CancelTakes(p)
  <2>1. rec[p].boid /\ book[c].status \in LiveStatuses
        /\ book' = [book EXCEPT ![c].status = "CANCELLED"]
    BY <1>1, <1>6 DEF CancelTakes, Cancellable, Live, OneCallAtATime
  <2>2. /\ \A d \in Cids \ {c} : book'[d] = book[d]
        /\ book'[c].status = "CANCELLED" /\ book'[c].filled = book[c].filled
    BY <1>1, <2>1 DEF TypeOK, BrokerTypeOK, BrokerOrders
  <2>3. BookOf(book', wire', c)
    BY <1>1, <1>2, <2>1, <2>2 DEF BookOf, LiveStatuses, NoStatus
  <2>4. TrueOf(book', wire', c, store[c])
    BY <1>1, <1>2, <1>4, <2>2 DEF TrueOf, TerminalStates, NoStatus
  <2>5. CASE Return(p)
    <3>1. /\ \A q \in Workers \ {p} : pc'[q] = pc[q] /\ cid'[q] = cid[q] /\ rec'[q] = rec[q] /\ fill'[q] = fill[q]
          /\ pc'[p] = "idle" /\ cid'[p] = NoCid
      BY <2>5 DEF TypeOK, WorkerTypeOK, Return, Goto
    <3>. QED
      BY <1>1, <2>2, <2>3, <2>4, <3>1, CallMovesBook
  <2>6. ASSUME NEW t \in {"CANCELLED", "UNKNOWN"}, Enter(p, t, "saveLast") PROVE OutcomeInv'
    <3>. DEFINE r == [rec[p] EXCEPT !.state = t]
    <3>1. r.state = t /\ r.boid = rec[p].boid /\ r.filled = rec[p].filled /\ Hold(p, r, "saveLast")
      BY <1>3, <2>6 DEF Enter, Records
    <3>. HIDE DEF r
    <3>2. TrueOf(book', wire', c, r)
      BY <1>2, <2>1, <2>2, <3>1 DEF TrueOf, NoStatus
    <3>3. Knows(book', wire', c, store[c], r)
      BY <1>2, <1>4, <2>1, <3>1 DEF LinkOf, Knows
    <3>4. LinkOf(book', wire', c, store[c], "saveLast", r, fill[p])
      BY <1>4, <3>2, <3>3 DEF LinkOf
    <3>5. /\ \A q \in Workers \ {p} : pc'[q] = pc[q] /\ cid'[q] = cid[q] /\ rec'[q] = rec[q] /\ fill'[q] = fill[q]
          /\ pc'[p] = "saveLast" /\ cid'[p] = c /\ rec'[p] = r /\ fill'[p] = fill[p]
      BY <3>1 DEF TypeOK, WorkerTypeOK, Hold, Goto
    <3>. QED
      BY <1>1, <2>2, <2>3, <2>4, <3>4, <3>5, CallMovesBook
  <2>. QED
    BY <2>1, <2>5, <2>6, <1>5 DEF SendCancel
<1>. QED
  BY <1>5, <1>6 DEF SendCancel

LEMMA MonitorOutcome ==
  ASSUME OneCallAtATime, TypeOK, StageInv, OutcomeInv, NEW p \in Workers,
         MonitorPoll(p) \/ MonitorTimeout(p)
  PROVE  OutcomeInv'
<1>. DEFINE c == cid[p]
<1>1. /\ pc[p] \in {"monitorBlind", "monitor"} /\ c \in Cids
      /\ UNCHANGED <<store, book, wire, todo, phase>>
  BY DEF MonitorPoll, MonitorTimeout, TypeOK, HandsOK, durable, brokerVars, systemVars
<1>2. CASE Return(p)
  BY <1>1, <1>2, ReturnOutcome
<1>3. /\ LinkOf(book, wire, c, store[c], pc[p], rec[p], fill[p]) /\ TrueOf(book, wire, c, rec[p])
  BY <1>1 DEF OutcomeInv, LinkOf
<1>4. /\ rec[p] \in Records /\ rec[p].filled \in Nat /\ store[c].filled \in Nat
  BY <1>1, RecordTypes
<1>5. /\ pc[p] \in Knowing /\ {"saveLast", "saveMonitor", "monitor"} \subseteq Knowing \ {"saveAcked"}
      /\ "saveLast" \notin Onward /\ "monitor" \notin Onward
  BY <1>1, KnowingLabels DEF Onward
<1>6. store[c].state = "UNKNOWN" =>
         \/ rec[p].state = "UNKNOWN" \/ rec[p].boid
         \/ rec[p].state = "REJECTED" /\ book[c].status = NoStatus /\ c \notin wire
  BY <1>3, <1>5 DEF LinkOf, Knows
<1>7. CASE MonitorTimeout(p) /\ ~Return(p)
  <2>1. Enter(p, "UNKNOWN", "saveLast")
    BY <1>7 DEF MonitorTimeout
  <2>2. LinkOf(book, wire, c, store[c], "saveLast", [rec[p] EXCEPT !.state = "UNKNOWN"], fill[p])
    BY <1>3, <1>4, <1>5, RestatedLink DEF BrokerTerminal
  <2>. QED
    BY <1>1, <2>1, <2>2, HoldOutcome DEF Enter
<1>8. CASE MonitorPoll(p) /\ ~Return(p)
  <2>1. PICK view \in Polled(p) :
           LET state == MappedState(view)
               r     == [rec[p] EXCEPT !.filled = view.filled]
           IN \/ \E l \in {"saveLast", "saveMonitor"} :
                   /\ Hold(p, [r EXCEPT !.state = state], l)
                   /\ l = "saveMonitor" => state \notin BrokerTerminal
              \/ Hold(p, r, "monitor")
    BY <1>8 DEF MonitorPoll
  <2>. DEFINE state == MappedState(view)
              r     == [rec[p] EXCEPT !.filled = view.filled]
              moved == [r EXCEPT !.state = state]
  <2>2. state \in PastApproval
    BY MappedPastApproval DEF MappedState
  <2>3. /\ r.state = rec[p].state /\ r.filled = view.filled /\ r.boid = rec[p].boid
        /\ moved.state = state /\ moved.filled = view.filled /\ moved.boid = rec[p].boid
    BY <1>4 DEF Records
  <2>. HIDE DEF state, r, moved
  <2>4. /\ view.filled \in Nat /\ rec[p].filled <= view.filled
        /\ TrueOf(book, wire, c, r) /\ TrueOf(book, wire, c, moved)
        /\ rec[p].boid \/ state = "UNKNOWN"
    <3>1. CASE rec[p].boid
      <4>1. view \in Views(c) /\ Present(c)
        BY <1>3, <3>1 DEF Polled, TrueOf, Present
      <4>2. rec[p].boid = TRUE
        BY <1>4, <3>1 DEF Records
      <4>3. /\ r.state \in {rec[p].state, MappedState(view)} /\ r.boid = TRUE
            /\ r.filled \in {rec[p].filled, view.filled}
            /\ moved.state \in {rec[p].state, MappedState(view)} /\ moved.boid = TRUE
            /\ moved.filled \in {rec[p].filled, view.filled}
        BY <2>3, <4>2 DEF state
      <4>4. view.filled \in Nat /\ rec[p].filled <= view.filled
        BY <1>1, <1>3, <1>4, <4>1, ReadShares
      <4>5. TrueOf(book, wire, c, r) /\ TrueOf(book, wire, c, moved)
        BY <1>1, <1>3, <1>4, <4>1, <4>3, ReadTrue
      <4>. QED
        BY <3>1, <4>4, <4>5
    <3>2. CASE ~rec[p].boid
      <4>1. view = NoOrder /\ rec[p].filled = 0
        BY <1>3, <3>2 DEF Polled, TrueOf
      <4>2. view.filled = 0 /\ view.status = NoStatus
        BY <4>1 DEF NoOrder
      <4>3. state = "UNKNOWN"
        BY <4>2 DEF state, MappedState, MapBrokerStatus, BrokerStatuses, LiveStatuses,
                    DeadStatuses, NoStatus
      <4>4. TrueOf(book, wire, c, r)
        BY <1>3, <2>3, <4>1, <4>2 DEF TrueOf
      <4>5. TrueOf(book, wire, c, moved)
        BY <1>3, <2>3, <4>1, <4>2, <4>3 DEF TrueOf
      <4>6. view.filled \in Nat /\ rec[p].filled <= view.filled
        BY <4>1, <4>2, Reflexive
      <4>. QED
        BY <4>3, <4>4, <4>5, <4>6
    <3>. QED
      BY <3>1, <3>2
  <2>5. ASSUME NEW l \in {"saveLast", "saveMonitor"}, Hold(p, moved, l),
               l = "saveMonitor" => state \notin BrokerTerminal
        PROVE  OutcomeInv'
    <3>1. l = "saveMonitor" => moved.state \notin TerminalStates
      BY <2>2, <2>3, <2>5, StateClasses DEF TerminalStates, BrokerTerminal
    <3>2. moved.filled \in Nat /\ rec[p].filled <= moved.filled
      BY <2>3, <2>4
    <3>3. store[c].state = "UNKNOWN" => moved.state = "UNKNOWN" \/ moved.boid
      BY <2>3, <2>4
    <3>4. l \in Knowing /\ l # "saveAcked" /\ (l \in Onward => moved.state \notin TerminalStates)
      BY <1>5, <3>1
    <3>5. LinkOf(book, wire, c, store[c], l, moved, fill[p])
      BY <1>3, <1>4, <1>5, <2>3, <2>4, <3>2, <3>3, <3>4, GrownLink
    <3>. QED
      BY <1>1, <2>5, <3>5, HoldOutcome
  <2>6. CASE Hold(p, r, "monitor")
    <3>1. r.filled \in Nat /\ rec[p].filled <= r.filled
      BY <2>3, <2>4
    <3>2. LinkOf(book, wire, c, store[c], "monitor", r, fill[p])
      BY <1>3, <1>4, <1>5, <1>6, <2>3, <2>4, <3>1, GrownLink
    <3>. QED
      BY <1>1, <2>6, <3>2, HoldOutcome
  <2>. QED
    BY <2>1, <2>5, <2>6 DEF state, r, moved
<1>. QED
  BY <1>2, <1>7, <1>8

(* Recovery gives up an order, or settles it on what the broker showed.      *)
LEMMA SettleOutcome ==
  ASSUME TypeOK, OutcomeInv, NEW p \in Workers, NEW r \in Records, NEW t,
         pc[p] = "recoverOrder", cid[p] \in Cids, Settle(p, r, t), UNCHANGED <<store, book, wire>>,
         rec[p].filled <= r.filled, rec[p].boid => r.boid,
         t \in BrokerTerminal => TrueOf(book, wire, cid[p], [r EXCEPT !.state = t]),
         TrueOf(book, wire, cid[p], [r EXCEPT !.state = "UNKNOWN"]),
         store[cid[p]].state = "UNKNOWN" =>
            \/ t = "UNKNOWN" \/ r.boid
            \/ t = "REJECTED" /\ book[cid[p]].status = NoStatus /\ cid[p] \notin wire
  PROVE  OutcomeInv'
<1>. DEFINE r2 == [r EXCEPT !.state = t]
            r3 == [r EXCEPT !.state = "UNKNOWN"]
<1>1. r2.state = t /\ r2.boid = r.boid /\ r2.filled = r.filled
      /\ r3.state = "UNKNOWN" /\ r3.boid = r.boid /\ r3.filled = r.filled
  BY DEF Records
<1>2. r.filled \in 0..Qty
  BY DEF Records
<1>3. r.filled \in Nat
  BY <1>2, QtyAssumption
<1>4. CASE Return(p) /\ phase' = "aborted" /\ todo' = {}
  BY <1>4, ReturnOutcome
<1>5. CASE Hold(p, r2, "saveRecovered") /\ UNCHANGED systemVars
  <2>. HIDE DEF r2, r3
  <2>1. TrueOf(book, wire, cid[p], r2)
    BY <1>1 DEF TrueOf, BrokerTerminal, r2, r3
  <2>2. pc[p] \in Knowing /\ "saveRecovered" \in Knowing \ Onward
    BY KnowingLabels DEF Onward
  <2>3. LinkOf(book, wire, cid[p], store[cid[p]], pc[p], rec[p], fill[p])
    BY DEF OutcomeInv
  <2>4. rec[p].filled \in Nat /\ store[cid[p]].filled \in Nat /\ r2.filled \in Nat
        /\ rec[p].filled <= r2.filled
    BY <1>1, <1>3, RecordTypes
  <2>5. LinkOf(book, wire, cid[p], store[cid[p]], "saveRecovered", r2, fill[p])
    BY <1>1, <2>1, <2>2, <2>3, <2>4, GrownLink
  <2>. QED
    BY <1>5, <2>5, HoldOutcome DEF systemVars
<1>. QED
  BY <1>4, <1>5 DEF Settle

LEMMA RecoverOrderOutcome ==
  ASSUME OneCallAtATime, TypeOK, OutcomeInv, NEW p \in Workers, RecoverOrder(p)
  PROVE  OutcomeInv'
<1>. DEFINE c == cid[p]
<1>1. pc[p] = "recoverOrder" /\ c \in Cids /\ UNCHANGED <<store, book, wire>>
  BY DEF RecoverOrder, TypeOK, HandsOK, durable, brokerVars
<1>2. LinkOf(book, wire, c, store[c], pc[p], rec[p], fill[p]) /\ TrueOf(book, wire, c, rec[p])
  BY <1>1 DEF OutcomeInv, LinkOf
<1>3. /\ rec[p] \in Records /\ rec[p].filled \in Nat /\ store[c].filled \in Nat
      /\ rec[p].filled <= rec[p].filled
  BY <1>1, RecordTypes, Reflexive
<1>4. pc[p] \in Knowing /\ "saveRecovered" \in Knowing \ Onward
      /\ "recover" \notin Knowing \union Onward \union {"poll", "readFill"}
  BY <1>1, KnowingLabels DEF Onward
<1>5. CASE Hold(p, rec[p], "recover") /\ UNCHANGED systemVars
  <2>1. LinkOf(book, wire, c, store[c], "recover", rec[p], fill[p])
    BY <1>2, <1>4 DEF LinkOf
  <2>. QED
    BY <1>1, <1>5, <2>1, HoldOutcome DEF systemVars
<1>6. ASSUME NEW t \in {"UNKNOWN", "REJECTED"}, Settle(p, rec[p], t),
             t = "REJECTED" => Missing(c)
      PROVE  OutcomeInv'
  <2>. DEFINE r2 == [rec[p] EXCEPT !.state = t]
              r3 == [rec[p] EXCEPT !.state = "UNKNOWN"]
  <2>1. r2.state = t /\ r2.boid = rec[p].boid /\ r2.filled = rec[p].filled
        /\ r3.state = "UNKNOWN" /\ r3.boid = rec[p].boid /\ r3.filled = rec[p].filled
    BY <1>3 DEF Records
  <2>2. t = "REJECTED" => book[c].status = NoStatus /\ c \notin wire
    BY <1>6 DEF Missing, Present, OneCallAtATime
  <2>. HIDE DEF r2, r3
  <2>3. TrueOf(book, wire, c, r2) /\ TrueOf(book, wire, c, r3)
    BY <1>2, <2>1, <2>2 DEF TrueOf
  <2>. QED
    BY <1>1, <1>3, <1>6, <2>2, <2>3, SettleOutcome DEF r2, r3
<1>7. ASSUME Present(c), NEW view \in Views(c), NEW r, NEW t,
             r = [rec[p] EXCEPT !.boid = TRUE, !.filled = view.filled], t = MappedState(view),
             (t = r.state /\ Hold(p, r, "saveRecovered") /\ UNCHANGED systemVars) \/ Settle(p, r, t)
      PROVE  OutcomeInv'
  <2>. DEFINE r2 == [r EXCEPT !.state = t]
              r3 == [r EXCEPT !.state = "UNKNOWN"]
  <2>1. r.state = rec[p].state /\ r.boid = TRUE /\ r.filled = view.filled
    BY <1>3, <1>7 DEF Records
  <2>2. /\ view.filled \in 0..Qty /\ view.filled \in Nat /\ rec[p].filled <= view.filled
        /\ TrueOf(book, wire, c, r)
    BY <1>1, <1>2, <1>3, <1>7, <2>1, ReadTrue, ReadShares
  <2>3. r \in Records
    BY <1>3, <1>7, <2>2 DEF Records
  <2>4. r2.state = t /\ r2.boid = TRUE /\ r2.filled = view.filled
        /\ r3.state = "UNKNOWN" /\ r3.boid = TRUE /\ r3.filled = view.filled
    BY <2>1, <2>3 DEF Records
  <2>. HIDE DEF r2, r3
  <2>5. TrueOf(book, wire, c, r2)
    BY <1>1, <1>2, <1>3, <1>7, <2>4, ReadTrue
  <2>6. TrueOf(book, wire, c, r3)
    BY <2>1, <2>2, <2>4 DEF TrueOf
  <2>7. CASE Hold(p, r, "saveRecovered") /\ UNCHANGED systemVars
    <3>1. r.filled \in Nat /\ rec[p].filled <= r.filled
      BY <2>1, <2>2
    <3>2. LinkOf(book, wire, c, store[c], "saveRecovered", r, fill[p])
      BY <1>2, <1>3, <1>4, <2>1, <2>2, <3>1, GrownLink
    <3>. QED
      BY <1>1, <2>7, <3>2, HoldOutcome DEF systemVars
  <2>8. CASE Settle(p, r, t)
    <3>1. rec[p].filled <= r.filled
      BY <2>1, <2>2
    <3>. QED
      BY <1>1, <2>1, <2>3, <2>5, <2>6, <2>8, <3>1, SettleOutcome DEF r2, r3
  <2>. QED
    BY <1>7, <2>7, <2>8
<1>. QED
  BY <1>5, <1>6, <1>7 DEF RecoverOrder

LEMMA OpenOrTerminal ==
  /\ OpenStates \intersect TerminalStates = {} /\ PreSubmitStates \subseteq OpenStates
  /\ NoStatus \notin OpenStates /\ NoStatus \notin TerminalStates
  /\ "UNKNOWN" \in OpenStates
BY DEF OpenStates, TerminalStates, PreSubmitStates, NoStatus

LEMMA RecoverOutcome ==
  ASSUME OneCallAtATime, TypeOK, PlacementInv, StageInv, OutcomeInv, NEW p \in Workers,
         RecoverStep(p)
  PROVE  OutcomeInv'
<1>1. CASE RecoverStart(p)
  <2>1. /\ UNCHANGED <<store, book, wire, cid, rec, fill, phase>> /\ phase = "recovering"
        /\ todo' = {c \in Cids : store[c].state \in OpenStates}
        /\ \A q \in Workers : pc[q] = "idle"
    BY <1>1 DEF RecoverStart, durable, brokerVars
  <2>2. \A q \in Workers \ {p} : pc'[q] = pc[q]
    BY <1>1 DEF RecoverStart, Goto, TypeOK, WorkerTypeOK
  <2>3. pc'[p] = "recover"
    BY <1>1 DEF RecoverStart, Goto, TypeOK, WorkerTypeOK
  <2>4. \A q \in Workers : cid[q] \notin Cids
    BY <2>1, CidsAssumption DEF OutcomeInv
  <2>5. TodoOK'
    BY <2>1, <2>4 DEF TodoOK
  <2>. QED
    BY <2>1, <2>2, <2>3, <2>4, <2>5, WorkerOutcome
<1>2. CASE RecoverDone(p)
  BY <1>2, ReturnOutcome DEF RecoverDone, durable, brokerVars
<1>3. ASSUME NEW c \in Cids, RecoverNext(p, c) PROVE OutcomeInv'
  <2>1. UNCHANGED <<store, book, wire, phase>> /\ todo' = todo \ {c} /\ c \in todo
    BY <1>3 DEF RecoverNext, durable, brokerVars
  <2>2. PICK l \in {"recoverIntent", "recoverOrder"} : Begin(p, c, store[c], l)
    BY <1>3 DEF RecoverNext
  <2>3. store[c].state \in OpenStates /\ (\A q \in Workers : cid[q] # c) /\ TrueOf(book, wire, c, store[c])
    BY <2>1 DEF OutcomeInv, TodoOK
  <2>4. store[c].state \notin TerminalStates
    BY <2>3, OpenOrTerminal
  <2>5. l \in Knowing /\ l # "saveAcked" /\ l # "idle"
    BY KnowingLabels
  <2>6. store[c].filled \in Nat
    BY OutcomeTypes
  <2>7. LinkOf(book, wire, c, store[c], l, store[c], fill[p])
    BY <2>3, <2>4, <2>5, <2>6, FreshLink
  <2>. QED
    BY <2>1, <2>2, <2>3, <2>5, <2>7, BeginOutcome
<1>4. CASE RecoverIntent(p)
  <2>1. /\ pc[p] = "recoverIntent" /\ cid[p] \in Cids
        /\ UNCHANGED <<store, book, wire, todo, phase>>
    BY <1>4 DEF RecoverIntent, TypeOK, HandsOK, durable, brokerVars, systemVars
  <2>2. store[cid[p]].state \in PreSubmitStates
    BY <2>1 DEF PlacementInv, AloneInv
  <2>3. store[cid[p]].state # "UNKNOWN"
    BY <2>2 DEF PreSubmitStates
  <2>4. PICK t \in {"RISK_REJECTED", "SUBMITTED"}, l \in {"saveRecovered", "recoverOrder"} : Enter(p, t, l)
    BY <1>4 DEF RecoverIntent
  <2>5. pc[p] \in Knowing /\ l \in Knowing \ {"saveAcked"} /\ l \notin Onward /\ t \notin BrokerTerminal
        /\ l # "idle"
    BY <2>1, KnowingLabels DEF Onward, BrokerTerminal
  <2>6. LinkOf(book, wire, cid[p], store[cid[p]], pc[p], rec[p], fill[p])
    BY <2>1 DEF OutcomeInv
  <2>7. LinkOf(book, wire, cid[p], store[cid[p]], l, [rec[p] EXCEPT !.state = t], fill[p])
    BY <2>1, <2>3, <2>5, <2>6, RecordTypes, RestatedLink
  <2>. QED
    BY <2>1, <2>4, <2>5, <2>7, HoldOutcome DEF Enter
<1>5. CASE RecoverOrder(p)
  BY <1>5, RecoverOrderOutcome
<1>. QED
  BY <1>1, <1>2, <1>3, <1>4, <1>5 DEF RecoverStep

LEMMA CallOutcome ==
  ASSUME OneCallAtATime, TypeOK, StageInv, OutcomeInv, NEW p \in Workers, Call(p)
  PROVE  OutcomeInv'
<1>1. PICK c \in Cids : Reserve(p, c) \/ Resubmit(p, c) \/ CancelOrder(p, c) \/ MonitorOrder(p, c)
  BY DEF Call, HandleFill, Free, OneCallAtATime
<1>2. /\ UNCHANGED <<book, wire, todo, phase>> /\ phase = "running"
      /\ \A q \in Workers : cid[q] # c
  BY <1>1 DEF Reserve, Resubmit, CancelOrder, MonitorOrder, Free, brokerVars, systemVars,
              OneCallAtATime
<1>3. c \notin todo /\ todo = {}
  BY <1>2 DEF OutcomeInv, TodoOK
<1>4. TrueOf(book, wire, c, store[c]) /\ store[c] \in Records /\ store[c].filled \in Nat
      /\ book[c].filled \in Nat
  BY OutcomeTypes DEF OutcomeInv
<1>5. /\ NoRecord.state = NoStatus /\ NoRecord.filled = 0 /\ NoRecord.boid = FALSE
      /\ NewRecord.state = "INTENT_CREATED" /\ NewRecord.filled = 0 /\ NewRecord.boid = FALSE
  BY DEF NoRecord, NewRecord
<1>6. \A n \in Nat : 0 <= n
  OBVIOUS
<1>7. TrueOf(book, wire, c, NoRecord) /\ TrueOf(book, wire, c, NewRecord)
  BY <1>4, <1>5, <1>6 DEF TrueOf, NoStatus
<1>8. ASSUME NEW l, NEW r, Begin(p, c, r, l), l # "idle", UNCHANGED store,
             LinkOf(book, wire, c, store[c], l, r, fill[p])
      PROVE  OutcomeInv'
  BY <1>2, <1>3, <1>8, BeginOutcome
<1>9. CASE Reserve(p, c)
  <2>1. store'[c] = NewRecord /\ (\A d \in Cids \ {c} : store'[d] = store[d])
        /\ Begin(p, c, NewRecord, "blocking")
    BY <1>9 DEF Reserve, TypeOK, DurableTypeOK
  <2>2. /\ \A q \in Workers \ {p} : pc'[q] = pc[q] /\ cid'[q] = cid[q] /\ rec'[q] = rec[q] /\ fill'[q] = fill[q]
        /\ pc'[p] = "blocking" /\ rec'[p] = NewRecord /\ cid'[p] = c
    BY <2>1 DEF TypeOK, WorkerTypeOK, Begin, Goto
  <2>3. 0 \in Nat /\ "blocking" \in Knowing /\ NewRecord.state \notin TerminalStates
    BY <1>5, KnowingLabels DEF TerminalStates
  <2>4. LinkOf(book, wire, c, NewRecord, "blocking", NewRecord, fill'[p])
    BY <1>5, <1>7, <2>3, FreshLink
  <2>5. \A d \in Cids : BookOf(book, wire, d) /\ TrueOf(book, wire, d, store'[d])
    BY <1>7, <2>1 DEF OutcomeInv
  <2>6. TodoOK'
    BY <1>2, <1>3 DEF TodoOK
  <2>7. \A q \in Workers : cid'[q] \in Cids =>
           LinkOf(book, wire, cid'[q], store'[cid'[q]], pc'[q], rec'[q], fill'[q])
    BY <1>2, <2>1, <2>2, <2>4 DEF OutcomeInv
  <2>8. \A q, o \in Workers : cid'[q] \in Cids /\ cid'[q] = cid'[o] => q = o
    BY <1>2, <2>2 DEF OutcomeInv
  <2>9. \A q \in Workers : pc'[q] = "idle" => cid'[q] = NoCid
    BY <2>2 DEF OutcomeInv
  <2>. QED
    BY <1>2, <2>5, <2>6, <2>7, <2>8, <2>9 DEF OutcomeInv
<1>10. CASE Resubmit(p, c)
  <2>1. LinkOf(book, wire, c, store[c], "existing", NoRecord, fill[p])
    BY <1>7, KnowingLabels DEF LinkOf, Onward
  <2>. QED
    BY <1>8, <1>10, <2>1 DEF Resubmit, durable
<1>11. CASE CancelOrder(p, c)
  <2>1. UNCHANGED store
    BY <1>11 DEF CancelOrder, durable
  <2>2. CASE store[c].state = "CANCEL_PENDING" /\ Begin(p, c, store[c], "sendCancel")
    <3>1. LinkOf(book, wire, c, store[c], "sendCancel", store[c], fill[p])
      BY <1>4, <2>2, FreshLink, KnowingLabels DEF TerminalStates
    <3>. QED
      BY <1>8, <2>1, <2>2, <3>1
  <2>3. CASE /\ CanTransition(store[c].state, "CANCEL_PENDING", FALSE)
             /\ Begin(p, c, [store[c] EXCEPT !.state = "CANCEL_PENDING"], "saveCancelPending")
    <3>1. store[c].state \notin TerminalStates /\ store[c].state # "UNKNOWN"
      BY <2>3 DEF CanTransition, BlockedStates
    <3>2. "monitor" \in Knowing /\ "saveCancelPending" \in Knowing
      BY KnowingLabels
    <3>3. LinkOf(book, wire, c, store[c], "monitor", store[c], fill[p])
      BY <1>4, <3>1, <3>2, FreshLink
    <3>4. LinkOf(book, wire, c, store[c], "saveCancelPending",
                 [store[c] EXCEPT !.state = "CANCEL_PENDING"], fill[p])
      BY <1>4, <3>1, <3>2, <3>3, RestatedLink DEF TerminalStates, BrokerTerminal
    <3>. QED
      BY <1>8, <2>1, <2>3, <3>4
  <2>. QED
    BY <1>11, <2>2, <2>3 DEF CancelOrder
<1>12. CASE MonitorOrder(p, c)
  <2>1. store[c].state \notin TerminalStates /\ "monitorBlind" \in Knowing
    BY <1>12, OpenOrTerminal, KnowingLabels DEF MonitorOrder
  <2>2. LinkOf(book, wire, c, store[c], "monitorBlind", store[c], fill[p])
    BY <1>4, <2>1, FreshLink
  <2>. QED
    BY <1>8, <1>12, <2>2 DEF MonitorOrder, durable
<1>. QED
  BY <1>1, <1>9, <1>10, <1>11, <1>12

LEMMA NextOutcome ==
  OneCallAtATime /\ TypeOK /\ TypeOK' /\ PlacementInv /\ StageInv /\ OutcomeInv /\ [Next]_vars
     => OutcomeInv'
<1>. SUFFICES ASSUME OneCallAtATime, TypeOK, TypeOK', PlacementInv, StageInv, OutcomeInv, [Next]_vars
              PROVE  OutcomeInv'
  OBVIOUS
<1>1. ASSUME NEW p \in Workers, Step(p) PROVE OutcomeInv'
  BY <1>1, SaveOutcome, SubmitOutcome, FillOutcome, RecoverOutcome, CancelOutcome, MonitorOutcome
     DEF Step
<1>2. ASSUME NEW p \in Workers, Call(p) PROVE OutcomeInv'
  BY <1>2, CallOutcome
<1>3. ASSUME NEW p \in Workers, Kill(p) PROVE OutcomeInv'
  BY <1>3, ReturnOutcome DEF Kill, durable, brokerVars, systemVars
<1>4. CASE Crash
  <2>1. /\ UNCHANGED <<store, book, wire>> /\ todo' = {}
        /\ \A p \in Workers : pc'[p] = "idle" /\ cid'[p] = NoCid
    BY <1>4 DEF Crash, durable, brokerVars
  <2>2. TodoOK'
    BY <2>1 DEF TodoOK
  <2>. QED
    BY <2>1, <2>2, CidsAssumption DEF OutcomeInv
<1>5. CASE Restart
  <2>1. UNCHANGED <<store, book, wire, todo, pc, cid, rec, fill>> /\ phase \in {"crashed", "aborted"}
    BY <1>5 DEF Restart, durable, brokerVars, workerVars
  <2>2. TodoOK'
    BY <2>1 DEF OutcomeInv, TodoOK
  <2>. QED
    BY <2>1, <2>2 DEF OutcomeInv
<1>6. CASE Broker
  BY <1>6, BrokerOutcome
<1>7. CASE UNCHANGED vars
  BY <1>7 DEF vars, durable, brokerVars, workerVars, systemVars, OutcomeInv, TodoOK
<1>. QED
  BY <1>1, <1>2, <1>3, <1>4, <1>5, <1>6, <1>7 DEF Next

LEMMA OutcomeCorrect ==
  ASSUME OneCallAtATime
  PROVE  Spec => []OutcomeInv
<1>1. Init => OutcomeInv
  BY InitOutcome
<1>2. TypeOK /\ TypeOK' /\ PlacementInv /\ StageInv /\ OutcomeInv /\ [Next]_vars => OutcomeInv'
  BY NextOutcome
<1>. QED
  BY <1>1, <1>2, TypeCorrect, PlacementCorrect, StageCorrect, PTL DEF Spec

-----------------------------------------------------------------------------
(* What the records may be trusted for.                                      *)

(* An order that can still execute is on record as open, so that a restart   *)
(* finds it: whatever replies were lost, whoever died and whatever recovery  *)
(* and cancellation did.                                                     *)
THEOREM OrdersTracked ==
  ASSUME OneCallAtATime
  PROVE  Spec => []LiveOrdersTracked
<1>1. ASSUME TypeOK, PlacementInv, OutcomeInv PROVE LiveOrdersTracked
  <2>. SUFFICES ASSUME NEW c \in Cids, Live(c) PROVE store[c].state \in OpenStates
    BY DEF LiveOrdersTracked
  <2>1. book[c].status \in LiveStatuses /\ Present(c)
    BY DEF Live, LiveStatuses, NoStatus, Present
  <2>2. store[c].state \in PastApproval
    BY <1>1, <2>1 DEF PlacementInv, OrderInv
  <2>3. TrueOf(book, wire, c, store[c])
    BY <1>1 DEF OutcomeInv
  <2>4. store[c].state \notin BrokerTerminal
    BY <2>1, <2>3 DEF TrueOf, LiveStatuses, BrokerTerminal, NoStatus
  <2>. QED
    BY <2>2, <2>4 DEF PastApproval, OrderStates, TerminalStates, BrokerTerminal
<1>. QED
  BY <1>1, TypeCorrect, PlacementCorrect, OutcomeCorrect, PTL

(* A final state on record is the broker's own, and an order on record as    *)
(* rejected without ever having been seen there will never be there.         *)
THEOREM FinalStatesTrue ==
  ASSUME OneCallAtATime
  PROVE  Spec => []TerminalIsTrue
<1>1. OutcomeInv => TerminalIsTrue
  BY DEF OutcomeInv, TrueOf, TerminalIsTrue, Present
<1>. QED
  BY <1>1, OutcomeCorrect, PTL

(* Which steps touch the record, the broker's count of shares or the number  *)
(* of broker calls.                                                          *)
LEMMA VisibleSteps ==
  ASSUME TypeOK, [Next]_vars
  PROVE  \/ /\ UNCHANGED <<store, sent>>
            /\ \A c \in Cids : book'[c].filled = book[c].filled
         \/ \E p \in Workers : Save(p) \/ PlaceOrder(p) \/ \E c \in Cids : Reserve(p, c)
         \/ Broker
<1>. DEFINE Calm == /\ UNCHANGED <<store, sent>>
                    /\ \A c \in Cids : book'[c].filled = book[c].filled
<1>1. UNCHANGED <<store, sent, book>> => Calm
  OBVIOUS
<1>2. ASSUME NEW p \in Workers, Step(p), ~Save(p), ~PlaceOrder(p) PROVE Calm
  <2>1. CASE SubmitStep(p)
    BY <1>1, <1>2, <2>1
       DEF SubmitStep, HandleExistingIntent, CheckBlocking, RunGates, Arm, PlaceAccepted,
           PlaceAmbiguous, PollImmediate, ResolveUnknown, durable, brokerVars
  <2>2. CASE FillStep(p)
    BY <1>1, <2>2
       DEF FillStep, ApplyFill, LogTrade, ReadPosition, WritePosition, durable, brokerVars
  <2>3. CASE RecoverStep(p)
    BY <1>1, <2>3
       DEF RecoverStep, RecoverStart, RecoverDone, RecoverNext, RecoverIntent, RecoverOrder,
           durable, brokerVars
  <2>4. CASE SendCancel(p)
    <3>1. UNCHANGED <<store, sent>> /\ (UNCHANGED book \/ CancelTakes(p))
      BY <2>4 DEF SendCancel, durable
    <3>2. ASSUME CancelTakes(p), NEW c \in Cids PROVE book'[c].filled = book[c].filled
      <4>1. PICK s : book' = [book EXCEPT ![cid[p]].status = s]
        BY <3>2 DEF CancelTakes
      <4>. QED
        BY <4>1 DEF TypeOK, BrokerTypeOK, BrokerOrders
    <3>. QED
      BY <3>1, <3>2
  <2>5. CASE MonitorPoll(p) \/ MonitorTimeout(p)
    BY <1>1, <2>5 DEF MonitorPoll, MonitorTimeout, durable, brokerVars
  <2>. QED
    BY <1>2, <2>1, <2>2, <2>3, <2>4, <2>5 DEF Step
<1>3. ASSUME NEW p \in Workers, Call(p), ~ \E c \in Cids : Reserve(p, c) PROVE Calm
  BY <1>1, <1>3 DEF Call, Resubmit, CancelOrder, MonitorOrder, HandleFill, durable, brokerVars
<1>4. ASSUME NEW p \in Workers, Kill(p) PROVE Calm
  BY <1>1, <1>4 DEF Kill, durable, brokerVars
<1>5. CASE Crash \/ Restart \/ UNCHANGED vars
  BY <1>1, <1>5 DEF Crash, Restart, vars, durable, brokerVars
<1>. QED
  BY <1>2, <1>3, <1>4, <1>5 DEF Next

(* A record leaves UNKNOWN with the broker's id of the order in hand, or as  *)
(* rejected if the broker never had it and never will.                       *)
THEOREM UnknownNeedsEvidence ==
  ASSUME OneCallAtATime
  PROVE  Spec => UnknownLeftOnEvidence
<1>. DEFINE Left == \A c \in Cids :
               store[c].state = "UNKNOWN" /\ store'[c].state # "UNKNOWN" =>
                 IF Present(c)
                 THEN store'[c].boid
                 ELSE store'[c].state = "REJECTED" /\ c \notin wire
<1>1. ASSUME TypeOK, PlacementInv, StageInv, OutcomeInv, [Next]_vars PROVE [Left]_vars
  <2>. SUFFICES ASSUME NEW c \in Cids, store[c].state = "UNKNOWN", store'[c].state # "UNKNOWN"
                PROVE  IF Present(c)
                       THEN store'[c].boid
                       ELSE store'[c].state = "REJECTED" /\ c \notin wire
    OBVIOUS
  <2>1. ~Broker
    BY DEF Broker, Land, Lose, Open, Execute, Finish, SetOrder, durable
  <2>2. \A p \in Workers : ~PlaceOrder(p)
    BY DEF PlaceOrder, durable
  <2>3. ASSUME NEW p \in Workers, NEW d \in Cids, Reserve(p, d) PROVE FALSE
    <3>1. store[d].state = NoStatus /\ \A e \in Cids \ {d} : store'[e] = store[e]
      BY <2>3 DEF Reserve, NoRecord, TypeOK, DurableTypeOK
    <3>. QED
      BY <3>1 DEF NoStatus
  <2>4. PICK p \in Workers : Save(p)
    BY <1>1, <2>1, <2>2, <2>3, VisibleSteps
  <2>5. cid[p] = c /\ store'[c] = rec[p] /\ pc[p] \in Knowing
    BY <1>1, <2>4, SaveWrites, KnowingLabels DEF TypeOK, DurableTypeOK, Save
  <2>6. Knows(book, wire, c, store[c], rec[p]) /\ TrueOf(book, wire, c, rec[p])
    BY <1>1, <2>5 DEF OutcomeInv, LinkOf
  <2>. QED
    BY <2>5, <2>6 DEF Knows, TrueOf, Present
<1>2. TypeOK /\ PlacementInv /\ StageInv /\ OutcomeInv /\ [Next]_vars => [Left]_vars
  BY <1>1
<1>. HIDE DEF Left
<1>3. Spec => [][Left]_vars
  BY <1>2, TypeCorrect, PlacementCorrect, StageCorrect, OutcomeCorrect, PTL DEF Spec
<1>. QED
  BY <1>3 DEF UnknownLeftOnEvidence, Left

-----------------------------------------------------------------------------
(* The refinement: each step moves the outcome of one order, or of none.     *)

OutStage(c) == IF Closed(c) THEN "closed" ELSE Stage(c)

OutStages == [c \in Cids |-> OutStage(c)]
Executed  == [c \in Cids |-> book[c].filled]
KnownOf   == [c \in Cids |-> store[c].filled]

LEMMA OutcomeMoves ==
  ASSUME NEW c \in Cids,
         \A d \in Cids \ {c} : /\ OutStage(d)' = OutStage(d) /\ book'[d].filled = book[d].filled
                               /\ store'[d].filled = store[d].filled,
         \/ /\ book'[c].filled = book[c].filled /\ store'[c].filled = store[c].filled
            /\ \/ OutStage(c)' = OutStage(c)
               \/ OutStage(c) = "none" /\ OutStage(c)' = "recorded"
               \/ OutStage(c) = "recorded" /\ OutStage(c)' \in {"refused", "armed"}
               \/ OutStage(c) = "armed" /\ OutStage(c)' = "sent"
         \/ /\ OutStage(c) = "sent" /\ OutStage(c)' = "sent" /\ book[c].filled < Qty
            /\ book'[c].filled = book[c].filled + 1 /\ store'[c].filled = store[c].filled
         \/ /\ book'[c].filled = book[c].filled /\ store'[c].filled \in store[c].filled..book[c].filled
            /\ \/ OutStage(c) = "sent" /\ OutStage(c)' = "sent"
               \/ OutStage(c) \in {"armed", "sent"} /\ OutStage(c)' = "closed"
  PROVE  [Outcome!Next]_<<OutStages, Executed, KnownOf>>
<1>1. OutStage(c)' = OutStage(c) => UNCHANGED OutStages
  BY DEF OutStages
<1>2. book'[c].filled = book[c].filled => UNCHANGED Executed
  BY DEF Executed
<1>3. store'[c].filled = store[c].filled => UNCHANGED KnownOf
  BY DEF KnownOf
<1>4. ASSUME NEW S, OutStage(c) \in S PROVE Outcome!Move(c, S, OutStage(c)')
  BY <1>4 DEF Outcome!Move, OutStage
<1>5. store'[c].filled \in store[c].filled..book[c].filled => Outcome!Learn(c)
  BY DEF Outcome!Learn
<1>6. CASE book'[c].filled = book[c].filled /\ store'[c].filled = store[c].filled
  <2>1. CASE OutStage(c)' = OutStage(c)
    BY <1>1, <1>2, <1>3, <1>6, <2>1
  <2>2. CASE OutStage(c) = "none" /\ OutStage(c)' = "recorded"
    BY <1>2, <1>3, <1>4, <1>6, <2>2 DEF Outcome!Next, Outcome!Record, Executed, KnownOf
  <2>3. CASE OutStage(c) = "recorded" /\ OutStage(c)' \in {"refused", "armed"}
    BY <1>2, <1>3, <1>4, <1>6, <2>3
       DEF Outcome!Next, Outcome!Refuse, Outcome!Arm, Executed, KnownOf
  <2>4. CASE OutStage(c) = "armed" /\ OutStage(c)' = "sent"
    BY <1>2, <1>3, <1>4, <1>6, <2>4 DEF Outcome!Next, Outcome!Send, Executed, KnownOf
  <2>5. CASE OutStage(c) = "sent" /\ OutStage(c)' = "sent"
    BY <2>1, <2>5
  <2>6. CASE OutStage(c) \in {"armed", "sent"} /\ OutStage(c)' = "closed"
            /\ store'[c].filled \in store[c].filled..book[c].filled
    BY <1>2, <1>4, <1>5, <1>6, <2>6 DEF Outcome!Next, Outcome!Close, Executed
  <2>. QED
    BY <1>6, <2>1, <2>2, <2>3, <2>4, <2>5, <2>6
<1>7. CASE /\ OutStage(c) = "sent" /\ OutStage(c)' = "sent" /\ book[c].filled < Qty
           /\ book'[c].filled = book[c].filled + 1 /\ store'[c].filled = store[c].filled
  <2>1. Executed' = [Executed EXCEPT ![c] = @ + 1] /\ Executed[c] = book[c].filled
    BY <1>7 DEF Executed
  <2>. QED
    BY <1>1, <1>3, <1>7, <2>1 DEF Outcome!Next, Outcome!Execute, Executed, OutStages, KnownOf, OutStage
<1>8. CASE /\ book'[c].filled = book[c].filled /\ store'[c].filled \in store[c].filled..book[c].filled
           /\ OutStage(c) = "sent" /\ OutStage(c)' = "sent"
  BY <1>1, <1>2, <1>5, <1>8 DEF Outcome!Next, Outcome!Update, Executed, OutStages, OutStage
<1>9. CASE /\ book'[c].filled = book[c].filled /\ store'[c].filled \in store[c].filled..book[c].filled
           /\ OutStage(c) \in {"armed", "sent"} /\ OutStage(c)' = "closed"
  BY <1>2, <1>4, <1>5, <1>9 DEF Outcome!Next, Outcome!Close, Executed
<1>. QED
  BY <1>6, <1>7, <1>8, <1>9

(* An order that was never sent has no share, and none on record.            *)
LEMMA UnsentShares ==
  ASSUME TypeOK, PlacementInv, NEW c \in Cids, sent[c] = 0, NEW r, TrueOf(book, wire, c, r),
         BookOf(book, wire, c)
  PROVE  book[c].filled = 0 /\ r.filled = 0
<1>1. book[c].status = NoStatus
  BY DEF PlacementInv, OrderInv, Present
<1>. QED
  BY <1>1 DEF TrueOf, BookOf

LEMMA OutStageIs ==
  ASSUME TypeOK, NEW c \in Cids
  PROVE  /\ store[c].state \notin TerminalStates \ {"RISK_REJECTED"} => OutStage(c) = Stage(c)
         /\ store[c].state \in TerminalStates \ {"RISK_REJECTED"} => OutStage(c) = "closed"
BY DEF OutStage, Closed

LEMMA SaveOutcomeMoves ==
  ASSUME TypeOK, PlacementInv, StageInv, OutcomeInv, NEW p \in Workers, Save(p)
  PROVE  [Outcome!Next]_<<OutStages, Executed, KnownOf>>
<1>0. PICK c \in Cids : c = cid[p]
  BY SaveWrites
<1>1. sent' = sent /\ sent[c] \in Nat /\ book' = book
  BY SaveWrites DEF TypeOK, BrokerTypeOK, Save, brokerVars
<1>2. store'[c] = rec[p] /\ \A d \in Cids \ {c} : store'[d] = store[d]
  BY <1>0, SaveWrites DEF TypeOK, DurableTypeOK
<1>3. \A d \in Cids \ {c} : /\ OutStage(d)' = OutStage(d) /\ book'[d].filled = book[d].filled
                            /\ store'[d].filled = store[d].filled
  BY <1>1, <1>2 DEF OutStage, Closed, Stage
<1>4. pc[p] \in DOMAIN SaveThen /\ pc[p] \in Knowing /\ LinkOf(book, wire, c, store[c], pc[p], rec[p], fill[p])
  BY <1>0, KnowingLabels DEF Save, OutcomeInv
<1>5. /\ store[c].state \notin TerminalStates /\ store[c].filled <= rec[p].filled
      /\ rec[p].filled <= book[c].filled
      /\ TrueOf(book, wire, c, rec[p]) /\ TrueOf(book, wire, c, store[c]) /\ BookOf(book, wire, c)
  BY <1>4 DEF LinkOf, Knows, TrueOf, OutcomeInv
<1>6. store[c].filled \in Nat /\ rec[p].filled \in Nat /\ book[c].filled \in Nat
  BY OutcomeTypes
<1>7. store'[c].filled \in store[c].filled..book[c].filled /\ book'[c].filled = book[c].filled
  BY <1>1, <1>2, <1>5, <1>6
<1>8. OutStage(c) = Stage(c)
  BY <1>5 DEF OutStage, Closed
<1>9. CASE rec[p].state \in TerminalStates \ {"RISK_REJECTED"}
  <2>1. OutStage(c)' = "closed"
    BY <1>2, <1>9 DEF OutStage, Closed
  <2>2. ~Owns(p)
    BY <1>4, <1>9 DEF Owns, Owning, LinkOf, Onward, SaveThen
  <2>3. store[c].state \in PastApproval
    BY <1>0, <1>9, <2>2, SaveWrites
  <2>4. OutStage(c) \in {"armed", "sent"}
    BY <1>1, <1>8, <2>3, StageOfRecord
  <2>. QED
    BY <1>3, <1>7, <2>1, <2>4, OutcomeMoves
<1>10. CASE rec[p].state \notin TerminalStates \ {"RISK_REJECTED"} /\ sent[c] > 0
  <2>1. OutStage(c) = "sent" /\ OutStage(c)' = "sent"
    BY <1>1, <1>2, <1>8, <1>10 DEF OutStage, Closed, Stage
  <2>. QED
    BY <1>3, <1>7, <2>1, OutcomeMoves
<1>11. CASE rec[p].state \notin TerminalStates \ {"RISK_REJECTED"} /\ sent[c] = 0
  <2>1. store[c].filled = 0 /\ rec[p].filled = 0
    BY <1>5, <1>11, UnsentShares
  <2>2. book'[c].filled = book[c].filled /\ store'[c].filled = store[c].filled
    BY <1>1, <1>2, <2>1
  <2>3. /\ rec[p].state \in PreSubmitStates => OutStage(c)' = "recorded"
        /\ rec[p].state = "RISK_REJECTED" => OutStage(c)' = "refused"
        /\ rec[p].state \in PastApproval => OutStage(c)' = "armed"
    BY <1>1, <1>2, <1>11, StateKinds, StateClasses DEF OutStage, Closed, Stage
  <2>4. CASE store[c].state \in PreSubmitStates
    <3>1. OutStage(c) = "recorded"
      BY <1>1, <1>8, <1>11, <2>4, StageOfRecord
    <3>2. OutStage(c)' \in {"recorded", "refused", "armed"}
      BY <1>0, <2>3, <2>4, SaveWrites, StateKinds, StateClasses
    <3>. QED
      BY <1>3, <2>2, <3>1, <3>2, OutcomeMoves
  <2>5. CASE rec[p].state \in PastApproval /\ store[c].state \in PastApproval
    <3>1. OutStage(c) = "armed" /\ OutStage(c)' = "armed"
      BY <1>1, <1>8, <1>11, <2>3, <2>5, StageOfRecord
    <3>. QED
      BY <1>3, <2>2, <3>1, OutcomeMoves
  <2>. QED
    BY <1>0, <2>4, <2>5, SaveWrites
<1>. QED
  BY <1>1, <1>9, <1>10, <1>11

LEMMA ReserveOutcomeMoves ==
  ASSUME TypeOK, PlacementInv, NEW p \in Workers, NEW c \in Cids, Reserve(p, c)
  PROVE  [Outcome!Next]_<<OutStages, Executed, KnownOf>>
<1>1. store[c] = NoRecord /\ sent' = sent /\ book' = book
  BY DEF Reserve, brokerVars
<1>2. store'[c] = NewRecord /\ \A d \in Cids \ {c} : store'[d] = store[d]
  BY DEF Reserve, TypeOK, DurableTypeOK
<1>3. NewRecord.filled = NoRecord.filled /\ NoRecord.state = NoStatus
      /\ NewRecord.state \in PreSubmitStates /\ NewRecord.state \notin TerminalStates
      /\ NewRecord.state # NoStatus /\ NoRecord.state \notin TerminalStates
  BY DEF NewRecord, NoRecord, PreSubmitStates, TerminalStates, NoStatus
<1>4. sent[c] = 0
  BY <1>1, <1>3, StateKinds DEF PlacementInv, OrderInv, TypeOK, BrokerTypeOK
<1>5. OutStage(c) = "none" /\ OutStage(c)' = "recorded"
  BY <1>1, <1>2, <1>3, <1>4 DEF OutStage, Closed, Stage
<1>6. \A d \in Cids \ {c} : OutStage(d)' = OutStage(d)
  BY <1>1, <1>2 DEF OutStage, Closed, Stage
<1>. QED
  BY <1>1, <1>2, <1>3, <1>5, <1>6, OutcomeMoves

LEMMA PlaceOutcomeMoves ==
  ASSUME TypeOK, PlacementInv, OutcomeInv, NEW p \in Workers, PlaceOrder(p)
  PROVE  [Outcome!Next]_<<OutStages, Executed, KnownOf>>
<1>0. PICK c \in Cids : c = cid[p]
  BY LabelNames DEF PlaceOrder, TypeOK, HandsOK
<1>1. /\ store' = store /\ book' = book /\ store[c].state \in PastApproval /\ Owns(p)
      /\ sent' = [sent EXCEPT ![c] = @ + 1] /\ pc[p] = "place"
  BY <1>0 DEF PlaceOrder, durable, PlacementInv, SaveInv, Owns, Owning
<1>2. sent[c] = 0 /\ sent'[c] = 1 /\ \A d \in Cids \ {c} : sent'[d] = sent[d]
  BY <1>0, <1>1 DEF PlacementInv, OwnerInv, TypeOK, BrokerTypeOK
<1>3. Stage(c) = "armed" /\ Stage(c)' = "sent"
  BY <1>1, <1>2, StageOfRecord DEF Stage
<1>4. store[c].state \notin TerminalStates
  BY <1>0, <1>1, KnowingLabels DEF OutcomeInv, LinkOf
<1>5. OutStage(c) = "armed" /\ OutStage(c)' = "sent"
  BY <1>1, <1>3, <1>4 DEF OutStage, Closed
<1>6. \A d \in Cids \ {c} : OutStage(d)' = OutStage(d)
  BY <1>1, <1>2 DEF OutStage, Closed, Stage
<1>. QED
  BY <1>1, <1>5, <1>6, OutcomeMoves

LEMMA BrokerOutcomeMoves ==
  ASSUME TypeOK, PlacementInv, OutcomeInv, Broker
  PROVE  [Outcome!Next]_<<OutStages, Executed, KnownOf>>
<1>1. PICK c \in Cids : Land(c) \/ Lose(c) \/ Open(c) \/ Execute(c) \/ Finish(c)
  BY DEF Broker
<1>2. UNCHANGED <<store, sent>>
  BY <1>1 DEF Land, Lose, Open, Execute, Finish, SetOrder, durable
<1>3. \A d \in Cids : OutStage(d)' = OutStage(d) /\ store'[d].filled = store[d].filled
  BY <1>2 DEF OutStage, Closed, Stage
<1>4. \A d \in Cids \ {c} : book'[d].filled = book[d].filled
  BY <1>1 DEF Land, Lose, Open, Execute, Finish, SetOrder, TypeOK, BrokerTypeOK
<1>5. ASSUME NEW s, NEW n, SetOrder(c, s, n) PROVE book'[c].filled = n
  BY <1>5 DEF SetOrder, TypeOK, BrokerTypeOK
<1>6. BookOf(book, wire, c) /\ TrueOf(book, wire, c, store[c])
  BY DEF OutcomeInv
<1>7. CASE book'[c].filled = book[c].filled
  BY <1>3, <1>4, <1>7, OutcomeMoves
<1>8. CASE Execute(c)
  <2>1. book'[c].filled = book[c].filled + 1 /\ book[c].filled < Qty
        /\ book[c].status \in {"OPEN", "CANCEL PENDING"}
    BY <1>5, <1>8 DEF Execute
  <2>2. sent[c] > 0
    BY <2>1 DEF PlacementInv, OrderInv, Present, NoStatus
  <2>3. store[c].state \notin TerminalStates \ {"RISK_REJECTED"}
    BY <1>6, <2>1 DEF TrueOf, TerminalStates, NoStatus
  <2>4. OutStage(c) = "sent"
    BY <2>2, <2>3, StageOfRecord DEF OutStage, Closed
  <2>. QED
    BY <1>3, <1>4, <2>1, <2>4, OutcomeMoves
<1>9. CASE Land(c) \/ Open(c)
  <2>1. book'[c].filled = 0
    BY <1>5, <1>9 DEF Land, Open
  <2>2. book[c].filled = 0
    BY <1>6, <1>9 DEF Land, Open, BookOf
  <2>. QED
    BY <1>7, <2>1, <2>2
<1>10. CASE Lose(c) \/ Finish(c)
  BY <1>5, <1>7, <1>10 DEF Lose, Finish
<1>. QED
  BY <1>1, <1>8, <1>9, <1>10

LEMMA InitOutcomeMoves == Init => Outcome!Init
<1>. SUFFICES ASSUME Init PROVE Outcome!Init
  OBVIOUS
<1>1. \A c \in Cids : /\ store[c].state = NoStatus /\ store[c].filled = 0
                      /\ book[c].filled = 0 /\ sent[c] = 0
  BY DEF Init, NoRecord, NoOrder
<1>2. \A c \in Cids : ~Closed(c) /\ Stage(c) = "none"
  BY <1>1 DEF Closed, Stage, TerminalStates, NoStatus
<1>. QED
  BY <1>1, <1>2 DEF Outcome!Init

(* The durable record keeps the promise OrderOutcome states: it learns of    *)
(* executed shares late but never claims one that was not executed or        *)
(* forgets one it knew; an order it has closed executes nothing more, is     *)
(* never reopened and never sent again.                                      *)
THEOREM OutcomeImplemented ==
  ASSUME OneCallAtATime
  PROVE  Spec => ImplementsOutcome
<1>1. ASSUME TypeOK, PlacementInv, StageInv, OutcomeInv, [Next]_vars
      PROVE  [Outcome!Next]_<<OutStages, Executed, KnownOf>>
  <2>1. ASSUME UNCHANGED <<store, sent>>, \A c \in Cids : book'[c].filled = book[c].filled
        PROVE  UNCHANGED <<OutStages, Executed, KnownOf>>
    <3>1. \A c \in Cids : OutStage(c)' = OutStage(c)
      BY <2>1 DEF OutStage, Closed, Stage
    <3>. QED
      BY <2>1, <3>1 DEF OutStages, Executed, KnownOf
  <2>. QED
    BY <1>1, <2>1, VisibleSteps, SaveOutcomeMoves, ReserveOutcomeMoves, PlaceOutcomeMoves,
       BrokerOutcomeMoves
<1>2. TypeOK /\ PlacementInv /\ StageInv /\ OutcomeInv /\ [Next]_vars
         => [Outcome!Next]_<<OutStages, Executed, KnownOf>>
  BY <1>1
<1>. QED
  BY <1>2, InitOutcomeMoves, TypeCorrect, PlacementCorrect, StageCorrect, OutcomeCorrect, PTL
     DEF Spec, ImplementsOutcome, Outcome!Spec, Outcome!vars, OutStages, OutStage, Executed, KnownOf

-----------------------------------------------------------------------------
(* Startup recovery                                                          *)
(*                                                                           *)
(* While recovery runs, an order in doubt or half way to its submission is   *)
(* still on its list or in its hands, and what it saves is settled.          *)

Undecided == BlockedStates \union PreSubmitStates

RecoveryInv ==
    \A p \in Workers : pc[p] \in RecoverLabels =>
        /\ \A c \in Cids : store[c].state \in Undecided =>
              c \in todo \/ (cid[p] = c /\ pc[p] # "recover")
        /\ pc[p] = "saveRecovered" => rec[p].state \notin Undecided

ReadableBook == "unread" \notin Faults /\ "odd" \notin Faults

LEMMA UndecidedStates ==
  /\ Undecided \subseteq OpenStates /\ "UNKNOWN" \in Undecided
  /\ "REJECTED" \notin Undecided /\ "RISK_REJECTED" \notin Undecided
  /\ \A t \in PastApproval \ {"UNKNOWN"} : t \notin Undecided
BY DEF Undecided, BlockedStates, PreSubmitStates, OpenStates, PastApproval

(* A readable entry always decides.                                          *)
LEMMA ReadableView ==
  ASSUME ReadableBook, BrokerTypeOK, NEW c \in Cids, NEW view \in Views(c), Present(c)
  PROVE  MappedState(view) \notin Undecided
<1>1. view = book[c] /\ view.status \in BrokerStatuses
  BY DEF ReadableBook, Views, Present, BrokerTypeOK, BrokerOrders
<1>2. ASSUME NEW s \in BrokerStatuses, NEW n, NEW m
      PROVE  MapBrokerStatus(s, n, m) # "UNKNOWN"
  BY DEF MapBrokerStatus, BrokerStatusMap, BrokerStatuses, LiveStatuses, DeadStatuses
<1>3. MappedState(view) \in PastApproval \ {"UNKNOWN"}
  BY <1>1, <1>2, MappedPastApproval DEF MappedState
<1>. QED
  BY <1>3, UndecidedStates

(* A step of recovery with the order it has in hand, the list aside.         *)
LEMMA HeldRecovery ==
  ASSUME TypeOK, PlacementInv, RecoveryInv, NEW p \in Workers, NEW r, NEW l,
         pc[p] \in {"recoverIntent", "recoverOrder"}, Hold(p, r, l), UNCHANGED <<store, todo>>,
         l \in {"recoverOrder", "saveRecovered"},
         l = "saveRecovered" => r.state \notin Undecided
  PROVE  RecoveryInv'
<1>1. /\ \A q \in Workers \ {p} : pc'[q] = pc[q]
      /\ pc'[p] = l /\ rec'[p] = r /\ cid'[p] = cid[p]
  BY HoldMoves
<1>2. \A q \in Workers \ {p} : pc[q] = "idle"
  BY DEF PlacementInv, AloneInv, RecoverLabels
<1>. QED
  BY <1>1, <1>2 DEF RecoveryInv, RecoverLabels

LEMMA RecoverStepRecovery ==
  ASSUME ReadableBook, TypeOK, PlacementInv, RecoveryInv, NEW p \in Workers, RecoverStep(p),
         phase' = "recovering"
  PROVE  RecoveryInv'
<1>1. CASE RecoverStart(p)
  <2>1. /\ store' = store /\ todo' = {c \in Cids : store[c].state \in OpenStates}
        /\ \A q \in Workers \ {p} : pc'[q] = "idle"
        /\ pc'[p] = "recover"
    BY <1>1 DEF RecoverStart, durable, Goto, TypeOK, WorkerTypeOK
  <2>. QED
    BY <2>1, UndecidedStates DEF RecoveryInv, RecoverLabels
<1>2. CASE RecoverDone(p)
  BY <1>2 DEF RecoverDone
<1>3. ASSUME NEW c \in Cids, RecoverNext(p, c) PROVE RecoveryInv'
  <2>1. store' = store /\ todo' = todo \ {c} /\ pc[p] = "recover"
    BY <1>3 DEF RecoverNext, durable
  <2>2. PICK l \in {"recoverIntent", "recoverOrder"} : Begin(p, c, store[c], l)
    BY <1>3 DEF RecoverNext
  <2>3. (\A q \in Workers \ {p} : pc'[q] = pc[q]) /\ pc'[p] = l /\ cid'[p] = c
    BY <2>2, BeginMoves
  <2>4. \A q \in Workers \ {p} : pc[q] = "idle"
    BY <2>1 DEF PlacementInv, AloneInv, RecoverLabels
  <2>. QED
    BY <2>1, <2>3, <2>4 DEF RecoveryInv, RecoverLabels
<1>4. CASE RecoverIntent(p)
  <2>1. pc[p] = "recoverIntent" /\ UNCHANGED <<store, todo>>
    BY <1>4 DEF RecoverIntent, durable, systemVars
  <2>2. ASSUME NEW t, NEW l, Enter(p, t, l), l \in {"recoverOrder", "saveRecovered"},
               l = "saveRecovered" => t \notin Undecided
        PROVE  RecoveryInv'
    <3>. DEFINE r == [rec[p] EXCEPT !.state = t]
    <3>1. r.state = t
      BY DEF TypeOK, WorkerTypeOK, Records
    <3>2. Hold(p, r, l)
      BY <2>2 DEF Enter
    <3>. HIDE DEF r
    <3>3. l = "saveRecovered" => r.state \notin Undecided
      BY <2>2, <3>1
    <3>. QED
      BY <2>1, <2>2, <3>2, <3>3, HeldRecovery
  <2>. QED
    BY <1>4, <2>2, UndecidedStates DEF RecoverIntent
<1>5. CASE RecoverOrder(p)
  <2>1. pc[p] = "recoverOrder" /\ store' = store /\ cid[p] \in Cids /\ rec[p] \in Records
    BY <1>5 DEF RecoverOrder, durable, TypeOK, WorkerTypeOK, HandsOK
  <2>2. ASSUME NEW r \in Records, NEW t, Settle(p, r, t), t \notin Undecided PROVE RecoveryInv'
    <3>. DEFINE s == [r EXCEPT !.state = t]
    <3>1. Hold(p, s, "saveRecovered") /\ UNCHANGED todo
      BY <2>2 DEF Settle, systemVars
    <3>2. s.state = t
      BY DEF Records
    <3>. HIDE DEF s
    <3>3. s.state \notin Undecided
      BY <2>2, <3>2
    <3>. QED
      BY <2>1, <3>1, <3>3, HeldRecovery
  <2>3. CASE Missing(cid[p]) /\ Settle(p, rec[p], "REJECTED")
    BY <2>1, <2>2, <2>3, UndecidedStates
  <2>4. ASSUME Present(cid[p]), NEW view \in Views(cid[p]), NEW r, NEW t,
               r = [rec[p] EXCEPT !.boid = TRUE, !.filled = view.filled], t = MappedState(view),
               \/ t = r.state /\ Hold(p, r, "saveRecovered") /\ UNCHANGED systemVars
               \/ Settle(p, r, t)
        PROVE  RecoveryInv'
    <3>1. t \notin Undecided
      BY <2>1, <2>4, ReadableView DEF TypeOK
    <3>2. r \in Records
      BY <2>1, <2>4, ViewType DEF Records, TypeOK
    <3>3. CASE t = r.state /\ Hold(p, r, "saveRecovered") /\ UNCHANGED todo
      BY <2>1, <3>1, <3>3, HeldRecovery
    <3>. QED
      BY <2>2, <2>4, <3>1, <3>2, <3>3 DEF systemVars
  <2>. QED
    BY <1>5, <2>3, <2>4 DEF RecoverOrder, ReadableBook, Unreadable
<1>. QED
  BY <1>1, <1>2, <1>3, <1>4, <1>5 DEF RecoverStep

LEMMA NextRecovery ==
  ASSUME ReadableBook, TypeOK, PlacementInv, PlacementInv', RecoveryInv, [Next]_vars
  PROVE  RecoveryInv'
<1>1. CASE phase' # "recovering"
  BY <1>1 DEF PlacementInv, AloneInv, RecoveryInv
<1>. SUFFICES ASSUME phase' = "recovering" PROVE RecoveryInv'
  BY <1>1
<1>2. CASE Restart
  <2>1. phase # "recovering" /\ phase # "running" /\ pc' = pc
    BY <1>2 DEF Restart, workerVars
  <2>2. \A p \in Workers : pc[p] \notin RecoverLabels
    BY <2>1 DEF PlacementInv, AloneInv
  <2>. QED
    BY <2>1, <2>2 DEF RecoveryInv
<1>3. CASE Broker \/ UNCHANGED vars
  BY <1>3 DEF Broker, Land, Lose, Open, Execute, Finish, SetOrder, durable, workerVars, systemVars,
              vars, RecoveryInv
<1>4. CASE Crash
  BY <1>4 DEF Crash
<1>5. ASSUME NEW p \in Workers, Step(p) PROVE RecoveryInv'
  <2>1. CASE RecoverStep(p)
    BY <2>1, RecoverStepRecovery
  <2>2. CASE ~RecoverStep(p)
    <3>1. phase = "recovering"
      BY <1>5, <2>2 DEF Step, Save, SubmitStep, HandleExistingIntent, CheckBlocking, RunGates, Arm,
         PlaceOrder, PlaceAccepted, PlaceAmbiguous, PollImmediate, ResolveUnknown, FillStep,
         ApplyFill, LogTrade, ReadPosition, WritePosition, SendCancel, MonitorPoll, MonitorTimeout,
         systemVars
    <3>2. pc[p] \in RecoverLabels \union {"idle"}
      BY <3>1 DEF PlacementInv, AloneInv
    <3>3. Save(p) /\ pc[p] = "saveRecovered"
      BY <1>5, <2>2, <3>2 DEF Step, Save, SaveThen, SubmitStep, HandleExistingIntent, CheckBlocking,
         RunGates, Arm, PlaceOrder, PlaceAccepted, PlaceAmbiguous, PollImmediate, ResolveUnknown,
         FillStep, ApplyFill, LogTrade, ReadPosition, WritePosition, SendCancel, MonitorPoll,
         MonitorTimeout, RecoverLabels
    <3>4. Hold(p, rec[p], "recover") /\ UNCHANGED todo /\ cid[p] \in Cids
          /\ store' = [store EXCEPT ![cid[p]] = rec[p]]
      BY <3>3 DEF Save, SaveThen, systemVars, TypeOK, HandsOK
    <3>5. store'[cid[p]] = rec[p] /\ \A d \in Cids \ {cid[p]} : store'[d] = store[d]
      BY <3>4 DEF TypeOK, DurableTypeOK
    <3>6. /\ \A q \in Workers \ {p} : pc'[q] = pc[q]
          /\ pc'[p] = "recover" /\ cid'[p] = cid[p]
      BY <3>4, HoldMoves
    <3>7. \A q \in Workers \ {p} : pc[q] = "idle"
      BY <3>3 DEF PlacementInv, AloneInv, RecoverLabels
    <3>8. rec[p].state \notin Undecided /\ \A c \in Cids \ {cid[p]} : store[c].state \in Undecided => c \in todo
      BY <3>3 DEF RecoveryInv, RecoverLabels
    <3>. QED
      BY <3>4, <3>5, <3>6, <3>7, <3>8 DEF RecoveryInv, RecoverLabels
  <2>. QED
    BY <2>1, <2>2
<1>6. ASSUME NEW p \in Workers, Call(p) \/ Kill(p) PROVE RecoveryInv'
  BY <1>6 DEF Call, Reserve, Resubmit, CancelOrder, MonitorOrder, HandleFill, Free, Kill, systemVars
<1>. QED
  BY <1>2, <1>3, <1>4, <1>5, <1>6 DEF Next

(* When startup recovery could read the order book, trading starts with no   *)
(* order in doubt and no intent half way to its submission, whatever calls   *)
(* the crash cut off and however often recovery itself was cut off.          *)
THEOREM RecoverySettles ==
  ASSUME ReadableBook
  PROVE  Spec => RecoveryLeavesNoDoubt
<1>. DEFINE Leaves == phase = "recovering" /\ phase' = "running" =>
          \A c \in Cids : store[c].state \notin BlockedStates \union PreSubmitStates
<1>1. Init => RecoveryInv
  BY DEF Init, RecoveryInv, RecoverLabels
<1>2. TypeOK /\ PlacementInv /\ PlacementInv' /\ RecoveryInv /\ [Next]_vars => RecoveryInv'
  BY NextRecovery
<1>3. ASSUME TypeOK, PlacementInv, RecoveryInv, [Next]_vars PROVE [Leaves]_vars
  <2>. SUFFICES ASSUME phase = "recovering", phase' = "running", NEW c \in Cids
                PROVE  store[c].state \notin Undecided
    BY DEF Undecided
  <2>1. \E p \in Workers : RecoverDone(p)
    BY <1>3 DEF Next, Step, Save, SubmitStep, HandleExistingIntent, CheckBlocking, RunGates, Arm,
       PlaceOrder, PlaceAccepted, PlaceAmbiguous, PollImmediate, ResolveUnknown, FillStep,
       ApplyFill, LogTrade, ReadPosition, WritePosition, SendCancel, MonitorPoll, MonitorTimeout,
       RecoverStep, RecoverStart, RecoverNext, RecoverIntent, RecoverOrder, Settle,
       Call, Reserve, Resubmit, CancelOrder, MonitorOrder, HandleFill, Kill, Crash, Restart,
       Broker, Land, Lose, Open, Execute, Finish, SetOrder, systemVars, vars
  <2>. QED
    BY <1>3, <2>1 DEF RecoverDone, RecoveryInv, RecoverLabels
<1>4. TypeOK /\ PlacementInv /\ RecoveryInv /\ [Next]_vars => [Leaves]_vars
  BY <1>3
<1>. HIDE DEF Leaves
<1>5. Spec => [][Leaves]_vars
  BY <1>1, <1>2, <1>4, TypeCorrect, PlacementCorrect, PTL DEF Spec
<1>. QED
  BY <1>5 DEF RecoveryLeavesNoDoubt, Leaves

-----------------------------------------------------------------------------
(* One caller: no order beside one in doubt                                  *)

OneCaller == \A p, q \in Workers : p = q

(* From the check to the broker call, no other order of the symbol and       *)
(* strategy is in doubt.                                                     *)
Clear(p) ==
    pc[p] \in Owning \ {"blocking"} => \A d \in Cids \ {cid[p]} : ~Blocks(d, cid[p])

(* A step that is not the caller's way from the check to the broker call.    *)
LEMMA NextClear ==
  ASSUME OneCaller, TypeOK, NEW p \in Workers, Clear(p), [Next]_vars
  PROVE  Clear(p)'
<1>. DEFINE Ahead == Owning \ {"blocking"}
<1>1. \A q \in Workers : q = p
  BY DEF OneCaller
<1>2. ASSUME pc'[p] \notin Ahead PROVE Clear(p)'
  BY <1>2 DEF Clear
<1>3. ASSUME UNCHANGED store, pc'[p] \in Ahead => cid'[p] = cid[p] /\ pc[p] \in Ahead
      PROVE  Clear(p)'
  BY <1>3 DEF Clear, Blocks
<1>4. ASSUME NEW r, NEW l, Hold(p, r, l) PROVE pc'[p] = l /\ cid'[p] = cid[p]
  BY <1>4, HoldMoves
<1>5. ASSUME Return(p) PROVE Clear(p)'
  BY <1>2, <1>5, ReturnMoves DEF Owning
<1>6. CASE Save(p)
  <2>1. store' = [store EXCEPT ![cid[p]] = rec[p]] /\ pc[p] \in DOMAIN SaveThen /\ cid[p] \in Cids
    BY <1>6 DEF Save, SaveThen, TypeOK, HandsOK
  <2>2. CASE Hold(p, rec[p], SaveThen[pc[p]])
    <3>1. pc'[p] = SaveThen[pc[p]] /\ cid'[p] = cid[p]
      BY <1>4, <2>2
    <3>2. pc'[p] \in Ahead => pc[p] \in Ahead
      BY <2>1, <3>1 DEF SaveThen, Owning
    <3>3. \A d \in Cids \ {cid[p]} : store'[d] = store[d]
      BY <2>1 DEF TypeOK, DurableTypeOK
    <3>. QED
      BY <3>1, <3>2, <3>3 DEF Clear, Blocks
  <2>. QED
    BY <1>5, <1>6, <2>2 DEF Save
<1>7. CASE SubmitStep(p)
  <2>1. UNCHANGED store
    BY <1>7 DEF SubmitStep, HandleExistingIntent, CheckBlocking, RunGates, Arm, PlaceOrder,
           PlaceAccepted, PlaceAmbiguous, PollImmediate, ResolveUnknown, durable
  <2>2. CASE CheckBlocking(p)
    <3>1. CASE ~ \E d \in Cids : Blocks(d, cid[p])
      <4>1. cid'[p] = cid[p]
        BY <2>2, <1>4 DEF CheckBlocking, Enter
      <4>. QED
        BY <2>1, <3>1, <4>1 DEF Clear, Blocks
    <3>2. CASE Enter(p, "RISK_REJECTED", "saveLast")
      BY <1>2, <1>4, <3>2 DEF Enter, Owning
    <3>. QED
      BY <2>2, <3>1, <3>2 DEF CheckBlocking
  <2>3. CASE RunGates(p) \/ Arm(p)
    <3>1. pc[p] \in Ahead /\ cid'[p] = cid[p]
      BY <1>4, <2>3 DEF RunGates, Arm, Enter, Owning
    <3>. QED
      BY <1>3, <2>1, <3>1
  <2>4. CASE PlaceOrder(p) \/ PlaceAccepted(p) \/ PlaceAmbiguous(p)
    <3>1. pc'[p] \in {"await", "saveAcked", "saveAmbiguous"}
      BY <1>4, <2>4 DEF PlaceOrder, PlaceAccepted, PlaceAmbiguous, Enter
    <3>. QED
      BY <1>2, <3>1 DEF Owning
  <2>5. CASE PollImmediate(p) /\ ~Return(p)
    <3>1. pc'[p] = "readFill"
      BY <2>5 DEF PollImmediate, Goto, TypeOK, WorkerTypeOK
    <3>. QED
      BY <1>2, <3>1 DEF Owning
  <2>6. CASE (ResolveUnknown(p) \/ HandleExistingIntent(p)) /\ ~Return(p)
    <3>1. pc'[p] \in {"saveLast", "resolve"}
      BY <1>4, <2>6 DEF ResolveUnknown, HandleExistingIntent, Enter
    <3>. QED
      BY <1>2, <3>1 DEF Owning
  <2>. QED
    BY <1>5, <1>7, <2>2, <2>3, <2>4, <2>5, <2>6 DEF SubmitStep
<1>8. CASE FillStep(p) /\ ~Return(p)
  <2>1. pc'[p] \in {"logTrade", "saveFill", "writePosition"}
    BY <1>4, <1>8 DEF FillStep, ApplyFill, LogTrade, ReadPosition, WritePosition, Enter, Goto,
                      TypeOK, WorkerTypeOK
  <2>. QED
    BY <1>2, <2>1 DEF Owning
<1>9. CASE RecoverStep(p) /\ ~Return(p)
  <2>1. pc'[p] \in RecoverLabels
    <3>1. CASE RecoverStart(p)
      BY <3>1 DEF RecoverStart, Goto, TypeOK, WorkerTypeOK, RecoverLabels
    <3>2. ASSUME NEW c \in Cids, RecoverNext(p, c) PROVE pc'[p] \in RecoverLabels
      BY <3>2, BeginMoves DEF RecoverNext, RecoverLabels
    <3>3. CASE RecoverIntent(p) \/ RecoverOrder(p)
      BY <1>4, <1>9, <3>3 DEF RecoverIntent, RecoverOrder, Settle, Enter, RecoverLabels
    <3>. QED
      BY <1>9, <3>1, <3>2, <3>3 DEF RecoverStep, RecoverDone
  <2>. QED
    BY <1>2, <2>1 DEF Owning, RecoverLabels
<1>10. CASE (SendCancel(p) \/ MonitorPoll(p) \/ MonitorTimeout(p)) /\ ~Return(p)
  <2>1. pc'[p] \in {"saveLast", "saveMonitor", "monitor"}
    BY <1>4, <1>10 DEF SendCancel, MonitorPoll, MonitorTimeout, Enter
  <2>. QED
    BY <1>2, <2>1 DEF Owning
<1>11. CASE Call(p)
  <2>1. PICK c \in Cids :
          \/ Reserve(p, c) \/ Resubmit(p, c) \/ CancelOrder(p, c) \/ MonitorOrder(p, c)
          \/ \E n \in 1..Qty : HandleFill(p, c, n)
    BY <1>11 DEF Call
  <2>2. ASSUME NEW r, NEW l, Begin(p, c, r, l) PROVE pc'[p] = l
    BY <2>2, BeginMoves
  <2>3. pc'[p] \in {"blocking", "existing", "sendCancel", "saveCancelPending", "monitorBlind", "readFill"}
    <3>1. CASE \E n \in 1..Qty : HandleFill(p, c, n)
      BY <3>1 DEF HandleFill, Goto, TypeOK, WorkerTypeOK
    <3>. QED
      BY <2>1, <2>2, <3>1 DEF Reserve, Resubmit, CancelOrder, MonitorOrder
  <2>. QED
    BY <1>2, <2>3 DEF Owning
<1>12. CASE Kill(p)
  BY <1>5, <1>12 DEF Kill
<1>13. CASE Crash
  BY <1>2, <1>13 DEF Crash, Owning
<1>14. CASE Restart \/ Broker \/ UNCHANGED vars
  <2>1. UNCHANGED <<store, pc, cid>>
    BY <1>14 DEF Restart, Broker, Land, Lose, Open, Execute, Finish, SetOrder, durable,
                 workerVars, vars
  <2>. QED
    BY <1>3, <2>1
<1>. QED
  BY <1>1, <1>5, <1>6, <1>7, <1>8, <1>9, <1>10, <1>11, <1>12, <1>13, <1>14 DEF Next, Step

(* While an order is in doubt, a single caller sends no other order for its  *)
(* symbol and strategy to the broker.                                        *)
THEOREM NothingBesideUnknown ==
  ASSUME OneCaller
  PROVE  Spec => NoOrderBesideUnknown
<1>. DEFINE AllClear == \A p \in Workers : Clear(p)
            Sends == \A c \in Cids : sent'[c] > sent[c] => ~ \E d \in Cids \ {c} : Blocks(d, c)
<1>1. Init => AllClear
  BY DEF Init, Clear, Owning
<1>2. TypeOK /\ AllClear /\ [Next]_vars => AllClear'
  BY NextClear
<1>3. ASSUME TypeOK, AllClear, [Next]_vars PROVE [Sends]_vars
  <2>. SUFFICES ASSUME NEW c \in Cids, sent'[c] > sent[c]
                PROVE  \A d \in Cids \ {c} : ~Blocks(d, c)
    OBVIOUS
  <2>1. sent' # sent
    <3>1. sent[c] \in Nat
      BY <1>3 DEF TypeOK, BrokerTypeOK
    <3>. QED
      BY <3>1
  <2>2. ~Broker
    BY <2>1 DEF Broker, Land, Lose, Open, Execute, Finish, SetOrder
  <2>3. PICK p \in Workers : PlaceOrder(p)
    BY <1>3, <2>1, <2>2, VisibleSteps DEF Save, Reserve, brokerVars
  <2>4. sent' = [sent EXCEPT ![cid[p]] = @ + 1] /\ pc[p] = "place"
    BY <2>3 DEF PlaceOrder
  <2>5. cid[p] = c
    <3>1. sent \in [Cids -> Nat] /\ sent[c] \in Nat
      BY <1>3 DEF TypeOK, BrokerTypeOK
    <3>2. cid[p] # c => sent'[c] = sent[c]
      BY <2>4, <3>1
    <3>. QED
      BY <3>1, <3>2
  <2>. QED
    BY <1>3, <2>4, <2>5 DEF Clear, Owning
<1>4. TypeOK /\ AllClear /\ [Next]_vars => [Sends]_vars
  BY <1>3
<1>. HIDE DEF AllClear, Sends
<1>5. Spec => [][Sends]_vars
  BY <1>1, <1>2, <1>4, TypeCorrect, PTL DEF Spec
<1>. QED
  BY <1>5 DEF NoOrderBesideUnknown, Sends
=============================================================================
