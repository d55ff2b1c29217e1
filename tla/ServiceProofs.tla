---------------------------- MODULE ServiceProofs ----------------------------
(* The execution service, alone and composed with startup recovery, for     *)
(* every number of callers, signals and restarts and every fault.           *)
EXTENDS StartupRecovery, Sums, TLAPS

LEMMA NamesDiffer ==
  /\ Signals \subseteq Keys /\ FlatKeys \subseteq Keys /\ NoKey \notin Signals
  /\ "idle" \notin Steps
BY KeysAssumption DEF Signals, Keys, Steps

LEMMA IdleShape ==
  Idle.at = "idle" /\ Idle.key = NoKey /\ Idle.why = "none" /\ Idle.stopped = FALSE
BY DEF Idle

LEMMA FrameShape ==
  ASSUME NEW f \in Frames \cup {Idle}
  PROVE  /\ f.at \in Steps \cup {"idle"} /\ f.key \in Keys \cup {NoKey}
         /\ f.why \in Outcomes /\ f.stopped \in BOOLEAN
         /\ f = [at |-> f.at, key |-> f.key, why |-> f.why, stopped |-> f.stopped]
         /\ f = Idle => f.at = "idle" /\ ~f.stopped
<1>1. CASE f \in Frames
  <2>1. f # Idle
    BY <1>1, NamesDiffer, IdleShape DEF Frames
  <2>. QED
    BY <1>1, <2>1 DEF Frames
<1>2. CASE f = Idle
  BY <1>2 DEF Idle, Outcomes
<1>. QED
  BY <1>1, <1>2

LEMMA FrameMoves ==
  ASSUME NEW f \in Frames \cup {Idle}, NEW s \in Steps
  PROVE  LET g == [f EXCEPT !.at = s]
         IN  g \in Frames /\ g.at = s /\ g.key = f.key /\ g.stopped = f.stopped
<1>. DEFINE g == [f EXCEPT !.at = s]
<1>1. g = [at |-> s, key |-> f.key, why |-> f.why, stopped |-> f.stopped]
  BY FrameShape
<1>. QED
  BY <1>1, FrameShape DEF Frames

LEMMA FrameBlocks ==
  ASSUME NEW f \in Frames \cup {Idle}, NEW w \in Outcomes
  PROVE  [at |-> "block", key |-> f.key, why |-> w, stopped |-> f.stopped] \in Frames
<1>1. "block" \in Steps /\ f.key \in Keys \cup {NoKey} /\ f.stopped \in BOOLEAN
  BY FrameShape DEF Steps
<1>. QED
  BY <1>1 DEF Frames

LEMMA FrameTakes ==
  ASSUME NEW f \in {Cancelling, Flattening}, NEW k \in Keys
  PROVE  LET g == [f EXCEPT !.key = k]
         IN  g \in Frames /\ g.at = f.at /\ g.key = k /\ ~g.stopped
<1>1. CASE f = Cancelling
  BY <1>1 DEF Cancelling, Idle, Frames, Steps, Outcomes
<1>2. CASE f = Flattening
  BY <1>2 DEF Flattening, Idle, Frames, Steps, Outcomes
<1>. QED
  BY <1>1, <1>2

-----------------------------------------------------------------------------
(* What the proofs need of the types: TypeOK without the books.             *)

SignalSteps == {"claim", "gates", "place", "reply", "resolve", "block", "attach", "sync"}

CallsOK ==
    /\ calls \in [Callers -> Frames \cup {Idle}]
    /\ \A c \in Callers :
         /\ calls[c].at \in SignalSteps => calls[c].key \in Signals
         /\ calls[c].at = "cancel" => calls[c].key \in Signals
         /\ calls[c].at = "flatPlace" => calls[c].key \in FlatKeys

ShapeOK ==
    /\ deployment \in Modes
    /\ rows \in [Signals -> Row] /\ records \in [Keys -> RecordStates]
    /\ market \in [Keys -> Market]
    /\ switch \in BOOLEAN /\ userStop \in BOOLEAN
    /\ CallsOK

(* One signal, one order.  A call past its claim has the only claim, and     *)
(* until it places nothing has been sent; nobody takes a claim back.        *)
PlacingSteps == {"gates", "place"}

OnceInv ==
    /\ \A k \in Signals :
         /\ market[k].sent <= 1
         /\ market[k].sent > 0 => rows[k].status # "none" /\ market[k].status # "none"
    /\ \A c \in Callers :
         /\ calls[c].at \in PlacingSteps =>
               rows[calls[c].key].status # "none" /\ market[calls[c].key].sent = 0
         /\ calls[c].at \in {"reply", "attach", "sync"} => market[calls[c].key].sent > 0
    /\ \A c, d \in Callers :
         calls[c].at \in PlacingSteps /\ calls[d].at \in PlacingSteps
           /\ calls[c].key = calls[d].key => c = d

(* With a durable switch the operator's flag never stands without it, and no *)
(* call got in under either.                                                *)
StopInv ==
    deployment.redis => (userStop => switch) /\ \A c \in Callers : ~calls[c].stopped

(* With durable records a flatten order's reservation is never taken back.   *)
FlatInv ==
    deployment.redis =>
      /\ \A k \in FlatKeys : market[k].sent <= 1 /\ (market[k].sent > 0 => records[k] # "none")
      /\ \A c \in Callers : calls[c].at = "flatPlace" =>
           records[calls[c].key] # "none" /\ market[calls[c].key].sent = 0
      /\ \A c, d \in Callers :
           calls[c].at = "flatPlace" /\ calls[d].at = "flatPlace" /\ calls[c].key = calls[d].key
             => c = d

ServiceInv == ShapeOK /\ OnceInv /\ StopInv /\ FlatInv

LEMMA CallFields ==
  ASSUME CallsOK, NEW c \in Callers
  PROVE  /\ calls[c] \in Frames \cup {Idle}
         /\ calls[c].at \in Steps \cup {"idle"} /\ calls[c].stopped \in BOOLEAN
         /\ calls[c] = Idle => calls[c].at = "idle" /\ ~calls[c].stopped
<1>1. calls[c] \in Frames \cup {Idle}
  BY DEF CallsOK
<1>. QED
  BY <1>1, FrameShape, IdleShape

LEMMA MarketFields ==
  ASSUME ShapeOK, NEW k \in Keys
  PROVE  market[k].sent \in Nat /\ market[k].status \in {"none", "OPEN", "COMPLETE", "REJECTED", "CANCELLED"}
BY DEF ShapeOK, Market

LEMMA InitService == Init => ServiceInv
<1>. SUFFICES ASSUME Init PROVE ServiceInv
  OBVIOUS
<1>1. \A c \in Callers : calls[c] = Idle /\ calls[c].at = "idle" /\ ~calls[c].stopped
  BY IdleShape DEF Init
<1>2. \A k \in Keys : market[k].sent = 0
  BY DEF Init
<1>3. ShapeOK
  <2>1. CallsOK
    BY <1>1 DEF Init, CallsOK, SignalSteps
  <2>. QED
    BY <2>1 DEF Init, ShapeOK, Row, RecordStates, Market, Construct
<1>. QED
  BY <1>1, <1>2, <1>3, NamesDiffer
     DEF Init, ServiceInv, OnceInv, StopInv, FlatInv, PlacingSteps

-----------------------------------------------------------------------------
(* The step lemmas: each action keeps the invariant.                        *)

(* A call that moves leaves the others where they are.                      *)
LEMMA GoKeeps ==
  ASSUME CallsOK, NEW c \in Callers, NEW f, f \in Frames \cup {Idle}, Go(c, f),
         f.at \in SignalSteps \cup {"cancel"} => f.key \in Signals,
         f.at = "flatPlace" => f.key \in FlatKeys
  PROVE  /\ CallsOK' /\ calls'[c] = f
         /\ \A d \in Callers : d # c => calls'[d] = calls[d]
BY DEF CallsOK, Go

LEMMA AnswerKeeps ==
  ASSUME CallsOK, NEW c \in Callers, Answer(c)
  PROVE  /\ CallsOK' /\ calls'[c].at = "idle" /\ ~calls'[c].stopped
         /\ \A d \in Callers : d # c => calls'[d] = calls[d]
<1>1. Idle.at \notin SignalSteps \cup {"cancel"} /\ Idle.at # "flatPlace"
  BY IdleShape DEF SignalSteps
<1>. QED
  BY <1>1, GoKeeps, IdleShape DEF Answer

LEMMA ProceedKeeps ==
  ASSUME CallsOK, NEW c \in Callers, NEW s \in Steps, Proceed(c, s),
         s \in SignalSteps => calls[c].at \in SignalSteps,
         s # "cancel" /\ s # "flatPlace"
  PROVE  /\ CallsOK' /\ calls'[c].at = s /\ calls'[c].key = calls[c].key
         /\ calls'[c].stopped = calls[c].stopped
         /\ \A d \in Callers : d # c => calls'[d] = calls[d]
<1>. DEFINE f == [calls[c] EXCEPT !.at = s]
<1>1. f \in Frames /\ f.at = s /\ f.key = calls[c].key /\ f.stopped = calls[c].stopped
  BY CallFields, FrameMoves
<1>2. f.at \in SignalSteps => f.key \in Signals
  BY <1>1 DEF CallsOK
<1>3. Go(c, f)
  BY DEF Proceed
<1>. HIDE DEF f
<1>. QED
  BY <1>1, <1>2, <1>3, GoKeeps

LEMMA BlockKeeps ==
  ASSUME CallsOK, NEW c \in Callers, NEW w \in Outcomes, Block(c, w), calls[c].at \in SignalSteps
  PROVE  /\ CallsOK' /\ calls'[c].at = "block" /\ calls'[c].key = calls[c].key
         /\ calls'[c].stopped = calls[c].stopped
         /\ \A d \in Callers : d # c => calls'[d] = calls[d]
<1>. DEFINE f == [at |-> "block", key |-> calls[c].key, why |-> w, stopped |-> calls[c].stopped]
<1>1. f \in Frames
  BY CallFields, FrameBlocks
<1>2. f.at = "block" /\ f.key = calls[c].key /\ f.stopped = calls[c].stopped /\ Go(c, f)
  BY DEF Block
<1>3. calls[c].key \in Signals
  BY DEF CallsOK
<1>. HIDE DEF f
<1>. QED
  BY <1>1, <1>2, <1>3, GoKeeps

LEMMA ClaimStep ==
  ASSUME ServiceInv, NEW c \in Callers, Claim(c)
  PROVE  ServiceInv'
<1>. DEFINE k == calls[c].key
<1>. USE DEF At, PlacingSteps
<1>1. ShapeOK /\ CallsOK /\ calls[c].at = "claim" /\ k \in Signals /\ k \in Keys
  BY NamesDiffer DEF ServiceInv, ShapeOK, CallsOK, SignalSteps, Claim
<1>2. UNCHANGED <<deployment, records, market, switch, userStop>>
  BY DEF Claim, system
<1>3. CASE rows[k].status = "none" /\ rows' = [rows EXCEPT ![k].status = "INTENT_CREATED"]
           /\ Proceed(c, "gates")
  <2>1. /\ CallsOK' /\ calls'[c].at = "gates" /\ calls'[c].key = k
        /\ calls'[c].stopped = calls[c].stopped
        /\ \A d \in Callers : d # c => calls'[d] = calls[d]
    BY <1>1, <1>3, ProceedKeeps DEF Steps, SignalSteps
  <2>2. rows' \in [Signals -> Row] /\ rows'[k].status = "INTENT_CREATED"
        /\ \A j \in Signals : j # k => rows'[j] = rows[j]
    BY <1>1, <1>3 DEF ShapeOK, Row
  <2>3. market[k].sent = 0
    BY <1>1, <1>3, MarketFields DEF ServiceInv, OnceInv
  <2>. QED
    BY <1>1, <1>2, <1>3, <2>1, <2>2, <2>3 DEF ServiceInv, ShapeOK, OnceInv, StopInv, FlatInv
<1>4. CASE UNCHANGED rows /\ Answer(c)
  BY <1>1, <1>2, <1>4, AnswerKeeps DEF ServiceInv, ShapeOK, OnceInv, StopInv, FlatInv
<1>. QED
  BY <1>3, <1>4 DEF Claim

LEMMA GatesStep ==
  ASSUME ServiceInv, NEW c \in Callers, Gates(c)
  PROVE  ServiceInv'
<1>. DEFINE k == calls[c].key
<1>. USE DEF At, PlacingSteps
<1>1. ShapeOK /\ CallsOK /\ calls[c].at = "gates" /\ k \in Signals /\ k \in Keys
  BY NamesDiffer DEF ServiceInv, ShapeOK, CallsOK, SignalSteps, Gates
<1>2. UNCHANGED <<deployment, rows, market, switch, userStop>>
  BY DEF Gates, system, durable
<1>3. /\ records' \in [Keys -> RecordStates]
      /\ \A j \in FlatKeys : records'[j] = records[j]
  BY <1>1, NamesDiffer, FlatAssumption DEF Gates, ShapeOK, RecordStates
<1>4. CASE Proceed(c, "place")
  <2>1. /\ CallsOK' /\ calls'[c].at = "place" /\ calls'[c].key = k
        /\ calls'[c].stopped = calls[c].stopped
        /\ \A d \in Callers : d # c => calls'[d] = calls[d]
    BY <1>1, <1>4, ProceedKeeps DEF Steps, SignalSteps
  <2>. QED
    BY <1>1, <1>2, <1>3, <2>1 DEF ServiceInv, ShapeOK, OnceInv, StopInv, FlatInv, CallsOK
<1>5. CASE Block(c, "BLOCKED_RISK")
  <2>1. /\ CallsOK' /\ calls'[c].at = "block" /\ calls'[c].key = k
        /\ calls'[c].stopped = calls[c].stopped
        /\ \A d \in Callers : d # c => calls'[d] = calls[d]
    BY <1>1, <1>5, BlockKeeps DEF Outcomes, SignalSteps
  <2>. QED
    BY <1>1, <1>2, <1>3, <2>1 DEF ServiceInv, ShapeOK, OnceInv, StopInv, FlatInv, CallsOK
<1>. QED
  BY <1>4, <1>5 DEF Gates

(* The broker takes the order of k, and no other order moves.               *)
LEMMA TakenMoves ==
  ASSUME ShapeOK, NEW k \in Keys, Taken(k)
  PROVE  /\ market' \in [Keys -> Market] /\ market'[k].sent = market[k].sent + 1
         /\ market'[k].status # "none"
         /\ \A j \in Keys : j # k => market'[j] = market[j]
<1>1. PICK s \in Replies(k) : market' = [market EXCEPT ![k] = [status |-> s, sent |-> @.sent + 1]]
  BY DEF Taken
<1>2. s \in {"REJECTED", "OPEN", "COMPLETE"}
  BY DEF Replies
<1>. QED
  BY <1>1, <1>2, MarketFields DEF ShapeOK, Market

(* The request of k, which nobody else is placing, is on its way.           *)
LEMMA SentOnce ==
  ASSUME ServiceInv, NEW c \in Callers, NEW k \in Signals, calls[c].at = "place", calls[c].key = k,
         Taken(k) \/ UNCHANGED market
  PROVE  /\ market' \in [Keys -> Market]
         /\ Taken(k) => market'[k].sent > 0
         /\ \A j \in Signals : market'[j].sent <= 1
         /\ \A j \in Signals : market'[j].sent > 0 =>
               rows[j].status # "none" /\ market'[j].status # "none"
         /\ \A j \in FlatKeys : market'[j] = market[j]
         /\ \A d \in Callers : calls[d].at \in PlacingSteps /\ d # c =>
               market'[calls[d].key].sent = 0
         /\ \A d \in Callers : calls[d].at \in {"reply", "attach", "sync"} =>
               market'[calls[d].key].sent > 0
<1>1. ShapeOK /\ CallsOK /\ k \in Keys
  BY NamesDiffer DEF ServiceInv, ShapeOK
<1>2. market[k].sent = 0 /\ rows[k].status # "none"
  BY DEF ServiceInv, OnceInv, PlacingSteps
<1>3. \A d \in Callers : calls[d].at \in PlacingSteps \cup {"reply", "attach", "sync"} =>
        calls[d].key \in Signals /\ calls[d].key \in Keys
  BY <1>1, NamesDiffer DEF CallsOK, PlacingSteps, SignalSteps
<1>4. CASE Taken(k)
  BY <1>1, <1>2, <1>3, <1>4, TakenMoves, MarketFields, NamesDiffer, FlatAssumption
     DEF ServiceInv, OnceInv, PlacingSteps
<1>5. CASE UNCHANGED market
  BY <1>1, <1>2, <1>3, <1>5, TakenMoves, MarketFields, NamesDiffer
     DEF ServiceInv, OnceInv, PlacingSteps, ShapeOK
<1>. QED
  BY <1>4, <1>5

LEMMA PlaceStep ==
  ASSUME ServiceInv, NEW c \in Callers, Place(c)
  PROVE  ServiceInv'
<1>. DEFINE k == calls[c].key
<1>. USE DEF At, PlacingSteps
<1>1. ShapeOK /\ CallsOK /\ calls[c].at = "place" /\ k \in Signals /\ k \in Keys
  BY NamesDiffer DEF ServiceInv, ShapeOK, CallsOK, SignalSteps, Place
<1>2. UNCHANGED <<deployment, rows, switch, userStop>>
  BY DEF Place, system, durable
<1>3. /\ records' \in [Keys -> RecordStates]
      /\ \A j \in FlatKeys : records'[j] = records[j]
  BY <1>1, NamesDiffer, FlatAssumption DEF Place, ShapeOK, RecordStates
<1>4. Taken(k) \/ UNCHANGED market
  BY DEF Place
<1>5. CASE Taken(k) /\ Proceed(c, "reply")
  <2>1. /\ CallsOK' /\ calls'[c].at = "reply" /\ calls'[c].key = k
        /\ calls'[c].stopped = calls[c].stopped
        /\ \A d \in Callers : d # c => calls'[d] = calls[d]
    BY <1>1, <1>5, ProceedKeeps DEF Steps, SignalSteps
  <2>. QED
    BY <1>1, <1>2, <1>3, <1>4, <1>5, <2>1, SentOnce
       DEF ServiceInv, ShapeOK, OnceInv, StopInv, FlatInv, CallsOK
<1>6. CASE Proceed(c, "resolve")
  <2>1. /\ CallsOK' /\ calls'[c].at = "resolve" /\ calls'[c].key = k
        /\ calls'[c].stopped = calls[c].stopped
        /\ \A d \in Callers : d # c => calls'[d] = calls[d]
    BY <1>1, <1>6, ProceedKeeps DEF Steps, SignalSteps
  <2>. QED
    BY <1>1, <1>2, <1>3, <1>4, <1>6, <2>1, SentOnce
       DEF ServiceInv, ShapeOK, OnceInv, StopInv, FlatInv, CallsOK
<1>. QED
  BY <1>5, <1>6 DEF Place

(* An action of a call that sends nothing: the rows it writes exist, and it  *)
(* leaves the placing steps or was never there.                             *)
LEMMA QuietStep ==
  ASSUME ServiceInv, NEW c \in Callers, CallsOK',
         UNCHANGED <<deployment, market, switch, userStop>>,
         rows' \in [Signals -> Row], records' \in [Keys -> RecordStates],
         \A j \in Signals : rows[j].status # "none" => rows'[j].status # "none",
         \A j \in FlatKeys : records[j] # "none" => records'[j] # "none",
         \A d \in Callers : d # c => calls'[d] = calls[d],
         calls'[c].at \notin PlacingSteps \cup {"flatPlace"},
         calls'[c].at \in {"reply", "attach", "sync"} => market[calls'[c].key].sent > 0,
         deployment.redis => ~calls'[c].stopped
  PROVE  ServiceInv'
<1>1. \A d \in Callers : calls[d].at = "flatPlace" => calls[d].key \in FlatKeys
  BY DEF ServiceInv, ShapeOK, CallsOK
<1>2. \A d \in Callers : calls[d].at \in PlacingSteps => calls[d].key \in Signals
  BY DEF ServiceInv, ShapeOK, CallsOK, PlacingSteps, SignalSteps
<1>3. ShapeOK'
  BY DEF ServiceInv, ShapeOK
<1>4. OnceInv'
  BY <1>2 DEF ServiceInv, OnceInv, PlacingSteps
<1>5. StopInv'
  BY DEF ServiceInv, StopInv
<1>6. FlatInv'
  BY <1>1 DEF ServiceInv, FlatInv
<1>. QED
  BY <1>3, <1>4, <1>5, <1>6 DEF ServiceInv

LEMMA ReplyStep ==
  ASSUME ServiceInv, NEW c \in Callers, Reply(c)
  PROVE  ServiceInv'
<1>. DEFINE k == calls[c].key
<1>. USE DEF At, PlacingSteps
<1>1. ShapeOK /\ CallsOK /\ calls[c].at = "reply" /\ k \in Signals /\ k \in Keys
      /\ rows[k] \in Row
  BY NamesDiffer DEF ServiceInv, ShapeOK, CallsOK, SignalSteps, Reply
<1>2. UNCHANGED <<deployment, market, switch, userStop>>
  BY DEF Reply, system, durable
<1>3. rows' = rows /\ records' \in [Keys -> RecordStates]
      /\ \A j \in FlatKeys : records'[j] = records[j]
  BY <1>1, NamesDiffer, FlatAssumption DEF Reply, ShapeOK, RecordStates, durable
<1>4. market[k].sent > 0 /\ (deployment.redis => ~calls[c].stopped)
  BY <1>1 DEF ServiceInv, OnceInv, StopInv
<1>5. CASE Proceed(c, "attach")
  <2>1. /\ CallsOK' /\ calls'[c].at = "attach" /\ calls'[c].key = k
        /\ calls'[c].stopped = calls[c].stopped
        /\ \A d \in Callers : d # c => calls'[d] = calls[d]
    BY <1>1, <1>5, ProceedKeeps DEF Steps, SignalSteps
  <2>. QED
    BY <1>1, <1>2, <1>3, <1>4, <2>1, QuietStep DEF ShapeOK
<1>6. CASE Block(c, "BLOCKED_RISK")
  <2>1. /\ CallsOK' /\ calls'[c].at = "block" /\ calls'[c].stopped = calls[c].stopped
        /\ \A d \in Callers : d # c => calls'[d] = calls[d]
    BY <1>1, <1>6, BlockKeeps DEF Outcomes, SignalSteps
  <2>. QED
    BY <1>1, <1>2, <1>3, <1>4, <2>1, QuietStep DEF ShapeOK
<1>. QED
  BY <1>5, <1>6 DEF Reply

LEMMA ResolveStep ==
  ASSUME ServiceInv, NEW c \in Callers, Resolve(c)
  PROVE  ServiceInv'
<1>. DEFINE k == calls[c].key
<1>. USE DEF At, PlacingSteps
<1>1. ShapeOK /\ CallsOK /\ calls[c].at = "resolve" /\ k \in Signals /\ k \in Keys
      /\ rows[k] \in Row
  BY NamesDiffer DEF ServiceInv, ShapeOK, CallsOK, SignalSteps, Resolve
<1>2. UNCHANGED <<deployment, market, switch, userStop>>
  BY DEF Resolve, system, durable
<1>3. rows' = rows /\ records' \in [Keys -> RecordStates]
      /\ \A j \in FlatKeys : records'[j] = records[j]
  BY <1>1, NamesDiffer, FlatAssumption DEF Resolve, ShapeOK, RecordStates, durable
<1>4. deployment.redis => ~calls[c].stopped
  BY <1>1 DEF ServiceInv, StopInv
<1>5. CASE market[k].sent > 0 /\ Proceed(c, "attach")
  <2>1. /\ CallsOK' /\ calls'[c].at = "attach" /\ calls'[c].key = k
        /\ calls'[c].stopped = calls[c].stopped
        /\ \A d \in Callers : d # c => calls'[d] = calls[d]
    BY <1>1, <1>5, ProceedKeeps DEF Steps, SignalSteps
  <2>. QED
    BY <1>1, <1>2, <1>3, <1>4, <1>5, <2>1, QuietStep DEF ShapeOK
<1>6. ASSUME NEW w \in Outcomes, Block(c, w)
      PROVE  ServiceInv'
  <2>1. /\ CallsOK' /\ calls'[c].at = "block" /\ calls'[c].stopped = calls[c].stopped
        /\ \A d \in Callers : d # c => calls'[d] = calls[d]
    BY <1>1, <1>6, BlockKeeps DEF SignalSteps
  <2>. QED
    BY <1>1, <1>2, <1>3, <1>4, <2>1, QuietStep DEF ShapeOK
<1>. QED
  BY <1>5, <1>6 DEF Resolve, Outcomes

LEMMA RecordBlockStep ==
  ASSUME ServiceInv, NEW c \in Callers, RecordBlock(c)
  PROVE  ServiceInv'
<1>. DEFINE k == calls[c].key
<1>. USE DEF At, PlacingSteps
<1>1. ShapeOK /\ CallsOK /\ calls[c].at = "block" /\ k \in Signals /\ k \in Keys
      /\ rows[k] \in Row
  BY NamesDiffer DEF ServiceInv, ShapeOK, CallsOK, SignalSteps, RecordBlock
<1>2. UNCHANGED <<deployment, market, switch, userStop>>
  BY DEF RecordBlock, system, durable
<1>3. records' = records /\ rows' \in [Signals -> Row]
      /\ \A j \in Signals : rows[j].status # "none" => rows'[j].status # "none"
  BY <1>1 DEF RecordBlock, ShapeOK, Row
<1>4. /\ CallsOK' /\ calls'[c].at = "idle" /\ ~calls'[c].stopped
      /\ \A d \in Callers : d # c => calls'[d] = calls[d]
  BY <1>1, AnswerKeeps DEF RecordBlock
<1>. QED
  BY <1>1, <1>2, <1>3, <1>4, QuietStep DEF ShapeOK

LEMMA AttachStep ==
  ASSUME ServiceInv, NEW c \in Callers, Attach(c)
  PROVE  ServiceInv'
<1>. DEFINE k == calls[c].key
<1>. USE DEF At, PlacingSteps
<1>1. ShapeOK /\ CallsOK /\ calls[c].at = "attach" /\ k \in Signals /\ k \in Keys
      /\ rows[k] \in Row
  BY NamesDiffer DEF ServiceInv, ShapeOK, CallsOK, SignalSteps, Attach
<1>2. UNCHANGED <<deployment, market, switch, userStop>>
  BY DEF Attach, system, durable
<1>3. records' = records /\ rows' \in [Signals -> Row]
      /\ \A j \in Signals : rows[j].status # "none" => rows'[j].status # "none"
  <2>1. [status |-> "SUBMITTED", attached |-> TRUE] \in Row
    BY DEF Row
  <2>2. \/ rows' = [rows EXCEPT ![k] = [status |-> "SUBMITTED", attached |-> TRUE]]
        \/ rows' = rows
    BY DEF Attach
  <2>3. records' = records
    BY DEF Attach
  <2>. QED
    BY <1>1, <2>1, <2>2, <2>3 DEF ShapeOK
<1>4. market[k].sent > 0 /\ (deployment.redis => ~calls[c].stopped)
  BY <1>1 DEF ServiceInv, OnceInv, StopInv
<1>5. CASE Proceed(c, "sync")
  <2>1. /\ CallsOK' /\ calls'[c].at = "sync" /\ calls'[c].key = k
        /\ calls'[c].stopped = calls[c].stopped
        /\ \A d \in Callers : d # c => calls'[d] = calls[d]
    BY <1>1, <1>5, ProceedKeeps DEF Steps, SignalSteps
  <2>. QED
    BY <1>1, <1>2, <1>3, <1>4, <2>1, QuietStep DEF ShapeOK
<1>6. CASE Answer(c)
  <2>1. /\ CallsOK' /\ calls'[c].at = "idle" /\ ~calls'[c].stopped
        /\ \A d \in Callers : d # c => calls'[d] = calls[d]
    BY <1>1, <1>6, AnswerKeeps
  <2>. QED
    BY <1>1, <1>2, <1>3, <2>1, QuietStep DEF ShapeOK
<1>. QED
  BY <1>5, <1>6 DEF Attach

LEMMA SyncStep ==
  ASSUME ServiceInv, NEW c \in Callers, Sync(c)
  PROVE  ServiceInv'
<1>. DEFINE k == calls[c].key
<1>. USE DEF At, PlacingSteps
<1>1. ShapeOK /\ CallsOK /\ calls[c].at = "sync" /\ k \in Signals /\ k \in Keys
      /\ rows[k] \in Row
  BY NamesDiffer DEF ServiceInv, ShapeOK, CallsOK, SignalSteps, Sync
<1>2. UNCHANGED <<deployment, market, switch, userStop>>
  BY DEF Sync, system, durable
<1>3. market[k].sent > 0 /\ market[k].status \in {"OPEN", "COMPLETE", "REJECTED", "CANCELLED"}
  BY <1>1, MarketFields DEF ServiceInv, OnceInv
<1>4. records' = records /\ rows' \in [Signals -> Row]
      /\ \A j \in Signals : rows[j].status # "none" => rows'[j].status # "none"
  BY <1>1, <1>3 DEF Sync, ShapeOK, Row
<1>5. /\ CallsOK' /\ calls'[c].at = "idle" /\ ~calls'[c].stopped
      /\ \A d \in Callers : d # c => calls'[d] = calls[d]
  BY <1>1, AnswerKeeps DEF Sync
<1>. QED
  BY <1>1, <1>2, <1>4, <1>5, QuietStep DEF ShapeOK

(* The broker moves orders it has: what was sent stays sent.                *)
LEMMA BrokerMoves ==
  ASSUME ServiceInv, CallsOK', UNCHANGED <<deployment, rows, switch, userStop>>,
         records' \in [Keys -> RecordStates], market' \in [Keys -> Market],
         \A j \in FlatKeys : records[j] # "none" => records'[j] # "none",
         \A j \in Keys : market'[j].sent = market[j].sent,
         \A j \in Keys : market[j].status # "none" => market'[j].status # "none",
         \A d \in Callers :
            calls'[d] = calls[d]
            \/ /\ calls'[d].at \notin PlacingSteps \cup {"flatPlace", "reply", "attach", "sync"}
               /\ deployment.redis => ~calls'[d].stopped
  PROVE  ServiceInv'
<1>1. \A d \in Callers : calls[d].at = "flatPlace" => calls[d].key \in FlatKeys /\ calls[d].key \in Keys
  BY NamesDiffer DEF ServiceInv, ShapeOK, CallsOK
<1>2. \A d \in Callers : calls[d].at \in PlacingSteps \cup {"reply", "attach", "sync"} =>
        calls[d].key \in Signals /\ calls[d].key \in Keys
  BY NamesDiffer DEF ServiceInv, ShapeOK, CallsOK, PlacingSteps, SignalSteps
<1>3. ShapeOK'
  BY DEF ServiceInv, ShapeOK
<1>4. OnceInv'
  BY <1>2, NamesDiffer DEF ServiceInv, OnceInv, PlacingSteps
<1>5. StopInv'
  BY DEF ServiceInv, StopInv
<1>6. FlatInv'
  BY <1>1, NamesDiffer DEF ServiceInv, FlatInv
<1>. QED
  BY <1>3, <1>4, <1>5, <1>6 DEF ServiceInv

LEMMA ExecuteStep ==
  ASSUME ServiceInv, NEW k \in Keys, Execute(k)
  PROVE  ServiceInv'
<1>1. ShapeOK /\ CallsOK
  BY DEF ServiceInv, ShapeOK
<1>2. market' \in [Keys -> Market] /\ \A j \in Keys : market'[j].sent = market[j].sent
      /\ (market[j].status # "none" => market'[j].status # "none")
  BY <1>1 DEF Execute, ShapeOK, Market
<1>3. UNCHANGED <<deployment, rows, switch, userStop, records, calls>>
  BY DEF Execute, durable, system
<1>4. CallsOK'
  BY <1>1, <1>3 DEF CallsOK
<1>. QED
  BY <1>1, <1>2, <1>3, <1>4, BrokerMoves DEF ShapeOK

LEMMA SendCancelStep ==
  ASSUME ServiceInv, NEW c \in Callers, SendCancel(c)
  PROVE  ServiceInv'
<1>. DEFINE k == calls[c].key
            dead == [market EXCEPT ![k].status = "CANCELLED"]
<1>1. ShapeOK /\ CallsOK /\ calls[c].at = "cancel" /\ k \in Signals /\ k \in Keys
  BY NamesDiffer DEF ServiceInv, ShapeOK, CallsOK, SendCancel, At
<1>2. records' \in [Keys -> RecordStates] /\ \A j \in FlatKeys : records'[j] = records[j]
  BY <1>1, NamesDiffer, FlatAssumption DEF SendCancel, ShapeOK, RecordStates
<1>3. market' = market \/ market' = dead
  BY DEF SendCancel
<1>4. dead \in [Keys -> Market] /\ \A j \in Keys : dead[j].sent = market[j].sent
      /\ (market[j].status # "none" => dead[j].status # "none")
  BY <1>1 DEF ShapeOK, Market
<1>5. UNCHANGED <<deployment, rows, switch, userStop>>
  BY DEF SendCancel, durable, system
<1>6. /\ CallsOK' /\ calls'[c].at = "idle" /\ ~calls'[c].stopped
      /\ \A d \in Callers : d # c => calls'[d] = calls[d]
  BY <1>1, AnswerKeeps DEF SendCancel
<1>. HIDE DEF dead, k
<1>7. market' \in [Keys -> Market] /\ \A j \in Keys : market'[j].sent = market[j].sent
      /\ (market[j].status # "none" => market'[j].status # "none")
  BY <1>1, <1>3, <1>4 DEF ShapeOK
<1>. QED
  BY <1>1, <1>2, <1>5, <1>6, <1>7, BrokerMoves DEF ShapeOK, PlacingSteps

LEMMA FlattenCancelsStep ==
  ASSUME ServiceInv, NEW c \in Callers, FlattenCancels(c)
  PROVE  ServiceInv'
<1>1. ShapeOK /\ CallsOK /\ calls[c].at = "flatCancel"
  BY DEF ServiceInv, ShapeOK, FlattenCancels, At
<1>2. PICK gone \in SUBSET Keys :
        /\ market' = [k \in Keys |->
              IF k \in gone THEN [market[k] EXCEPT !.status = "CANCELLED"] ELSE market[k]]
        /\ records' = [k \in Keys |-> IF k \in gone /\ records[k] = "ACKNOWLEDGED"
                                      THEN "CANCELLED" ELSE records[k]]
  BY DEF FlattenCancels
<1>3. market' \in [Keys -> Market] /\ \A j \in Keys : market'[j].sent = market[j].sent
      /\ (market[j].status # "none" => market'[j].status # "none")
  BY <1>1, <1>2 DEF ShapeOK, Market
<1>4. records' \in [Keys -> RecordStates]
      /\ \A j \in FlatKeys : records[j] # "none" => records'[j] # "none"
  BY <1>1, <1>2, NamesDiffer DEF ShapeOK, RecordStates
<1>5. UNCHANGED <<deployment, rows, switch, userStop>> /\ Proceed(c, "flatRead")
  BY DEF FlattenCancels, durable, system
<1>6. /\ CallsOK' /\ calls'[c].at = "flatRead" /\ calls'[c].stopped = calls[c].stopped
      /\ \A d \in Callers : d # c => calls'[d] = calls[d]
  BY <1>1, <1>5, ProceedKeeps DEF Steps, SignalSteps
<1>7. deployment.redis => ~calls'[c].stopped
  BY <1>6 DEF ServiceInv, StopInv
<1>. QED
  BY <1>3, <1>4, <1>5, <1>6, <1>7, BrokerMoves DEF PlacingSteps

LEMMA FlattenReadsStep ==
  ASSUME ServiceInv, NEW c \in Callers, FlattenReads(c)
  PROVE  ServiceInv'
<1>1. ShapeOK /\ CallsOK /\ calls[c].at = "flatRead"
  BY DEF ServiceInv, ShapeOK, FlattenReads, At
<1>2. UNCHANGED <<deployment, rows, market, switch, userStop>>
  BY DEF FlattenReads, durable, system
<1>3. CASE UNCHANGED records /\ Answer(c)
  <2>1. /\ CallsOK' /\ calls'[c].at = "idle" /\ ~calls'[c].stopped
        /\ \A d \in Callers : d # c => calls'[d] = calls[d]
    BY <1>1, <1>3, AnswerKeeps
  <2>. QED
    BY <1>1, <1>2, <1>3, <2>1, QuietStep DEF ShapeOK, PlacingSteps
<1>4. ASSUME NEW q \in FlatKeys, records[q] = "none",
             records' = [records EXCEPT ![q] = "SUBMITTED"],
             Go(c, [Flattening EXCEPT !.key = q])
      PROVE  ServiceInv'
  <2>. DEFINE f == [Flattening EXCEPT !.key = q]
  <2>1. f \in Frames /\ f.at = "flatPlace" /\ f.key = q /\ ~f.stopped
    BY <1>4, FrameTakes, NamesDiffer DEF Flattening, Idle
  <2>. HIDE DEF f
  <2>2. /\ CallsOK' /\ calls'[c] = f
        /\ \A d \in Callers : d # c => calls'[d] = calls[d]
    BY <1>1, <1>4, <2>1, GoKeeps DEF SignalSteps, f
  <2>3. /\ records' \in [Keys -> RecordStates] /\ records'[q] # "none"
        /\ \A j \in Keys : j # q => records'[j] = records[j]
    BY <1>1, <1>4, NamesDiffer DEF ShapeOK, RecordStates
  <2>4. ShapeOK'
    BY <1>1, <1>2, <2>2, <2>3 DEF ShapeOK
  <2>5. OnceInv'
    BY <1>2, <2>1, <2>2 DEF ServiceInv, OnceInv, PlacingSteps
  <2>6. StopInv'
    BY <1>2, <2>1, <2>2 DEF ServiceInv, StopInv
  <2>7. FlatInv'
    <3>1. deployment.redis => market[q].sent = 0
      BY <1>1, <1>4, MarketFields, NamesDiffer DEF ServiceInv, FlatInv
    <3>2. \A d \in Callers : calls[d].at = "flatPlace" => calls[d].key \in FlatKeys
      BY <1>1 DEF CallsOK
    <3>. QED
      BY <1>2, <1>4, <2>1, <2>2, <2>3, <3>1, <3>2, NamesDiffer DEF ServiceInv, FlatInv
  <2>. QED
    BY <2>4, <2>5, <2>6, <2>7 DEF ServiceInv
<1>. QED
  BY <1>3, <1>4 DEF FlattenReads, FlatKeys

LEMMA FlattenPlacesStep ==
  ASSUME ServiceInv, NEW c \in Callers, FlattenPlaces(c)
  PROVE  ServiceInv'
<1>. DEFINE q == calls[c].key
<1>1. ShapeOK /\ CallsOK /\ calls[c].at = "flatPlace" /\ q \in FlatKeys /\ q \in Keys
  BY NamesDiffer DEF ServiceInv, ShapeOK, CallsOK, FlattenPlaces, At
<1>2. UNCHANGED <<deployment, rows, switch, userStop>> /\ Taken(q)
      /\ records' = [records EXCEPT ![q] = "ACKNOWLEDGED"]
  BY DEF FlattenPlaces, durable, system
<1>3. /\ market' \in [Keys -> Market] /\ market'[q].sent = market[q].sent + 1
      /\ \A j \in Keys : j # q => market'[j] = market[j]
  BY <1>1, <1>2, TakenMoves
<1>4. /\ records' \in [Keys -> RecordStates] /\ records'[q] # "none"
      /\ \A j \in Keys : j # q => records'[j] = records[j]
  BY <1>1, <1>2 DEF ShapeOK, RecordStates
<1>5. /\ CallsOK' /\ calls'[c].at = "idle" /\ ~calls'[c].stopped
      /\ \A d \in Callers : d # c => calls'[d] = calls[d]
  BY <1>1, AnswerKeeps DEF FlattenPlaces
<1>6. \A j \in Signals : market'[j] = market[j]
  BY <1>1, <1>3, NamesDiffer, FlatAssumption
<1>7. \A d \in Callers : calls[d].at \in PlacingSteps \cup {"reply", "attach", "sync"} =>
        calls[d].key \in Signals
  BY <1>1 DEF CallsOK, PlacingSteps, SignalSteps
<1>8. ShapeOK'
  BY <1>1, <1>2, <1>3, <1>4, <1>5 DEF ShapeOK
<1>9. OnceInv'
  BY <1>2, <1>5, <1>6, <1>7 DEF ServiceInv, OnceInv, PlacingSteps
<1>10. StopInv'
  BY <1>2, <1>5 DEF ServiceInv, StopInv
<1>11. FlatInv'
  <2>1. deployment.redis => market[q].sent = 0
    BY <1>1 DEF ServiceInv, FlatInv
  <2>2. \A d \in Callers : calls[d].at = "flatPlace" =>
          calls[d].key \in FlatKeys /\ calls[d].key \in Keys
    BY <1>1, NamesDiffer DEF CallsOK
  <2>. QED
    BY <1>1, <1>2, <1>3, <1>4, <1>5, <2>1, <2>2, NamesDiffer DEF ServiceInv, FlatInv
<1>. QED
  BY <1>8, <1>9, <1>10, <1>11 DEF ServiceInv

(* A call is only let in while the switch, as it is read, is off.           *)
LEMMA SubmitStep ==
  ASSUME ServiceInv, NEW c \in Callers, NEW k \in Signals, Submit(c, k)
  PROVE  ServiceInv'
<1>1. ShapeOK /\ CallsOK
  BY DEF ServiceInv, ShapeOK
<1>2. UNCHANGED <<deployment, rows, records, market, switch, userStop>>
  BY DEF Submit, durable, system
<1>. DEFINE f == [at |-> "claim", key |-> k, why |-> "none", stopped |-> switch \/ userStop]
<1>3. CASE UNCHANGED calls
  <2>1. CallsOK'
    BY <1>1, <1>3 DEF CallsOK
  <2>. QED
    BY <1>1, <1>2, <1>3, <2>1, BrokerMoves DEF ShapeOK
<1>4. CASE Go(c, f) /\ ~switch
  <2>1. f \in Frames
    BY <1>1, NamesDiffer DEF ShapeOK, Frames, Steps, Outcomes
  <2>2. f.at = "claim" /\ f.key = k /\ (deployment.redis => ~f.stopped)
    BY <1>1, <1>4 DEF ServiceInv, StopInv
  <2>. HIDE DEF f
  <2>3. CallsOK' /\ calls'[c] = f /\ \A d \in Callers : d # c => calls'[d] = calls[d]
    BY <1>1, <1>4, <2>1, <2>2, GoKeeps
  <2>. QED
    BY <1>1, <1>2, <2>2, <2>3, BrokerMoves DEF ShapeOK, PlacingSteps
<1>5. \/ UNCHANGED calls \/ (Go(c, f) /\ ~switch)
  <2>1. PICK active, permits \in BOOLEAN :
          /\ SwitchReads(active)
          /\ IF GateVerdict(active, permits) = "none" THEN Go(c, f) ELSE UNCHANGED calls
    BY DEF Submit
  <2>2. CASE active
    BY <2>1, <2>2 DEF GateVerdict
  <2>3. CASE ~active
    BY <1>1, <2>1, <2>3 DEF SwitchReads, ShapeOK
  <2>. QED
    BY <2>2, <2>3
<1>. QED
  BY <1>3, <1>4, <1>5

LEMMA StartCancelStep ==
  ASSUME ServiceInv, NEW c \in Callers, NEW k \in Stops, StartCancel(c, k)
  PROVE  ServiceInv'
<1>1. ShapeOK /\ CallsOK /\ k \in Signals /\ k \in Keys
  BY NamesDiffer DEF ServiceInv, ShapeOK, Signals
<1>2. UNCHANGED <<deployment, rows, market, switch, userStop>>
  BY DEF StartCancel, durable, system
<1>. DEFINE f == [Cancelling EXCEPT !.key = k]
<1>3. \/ UNCHANGED <<records, calls>>
      \/ Go(c, f) /\ records' = [records EXCEPT ![k] = "CANCEL_PENDING"]
  BY DEF StartCancel
<1>4. f \in Frames /\ f.at = "cancel" /\ f.key = k /\ ~f.stopped
  BY <1>1, FrameTakes DEF Cancelling, Idle
<1>. HIDE DEF f
<1>5. CASE UNCHANGED <<records, calls>>
  <2>1. CallsOK'
    BY <1>1, <1>5 DEF CallsOK
  <2>. QED
    BY <1>1, <1>2, <1>5, <2>1, BrokerMoves DEF ShapeOK
<1>6. CASE Go(c, f) /\ records' = [records EXCEPT ![k] = "CANCEL_PENDING"]
  <2>1. CallsOK' /\ calls'[c] = f /\ \A d \in Callers : d # c => calls'[d] = calls[d]
    BY <1>1, <1>4, <1>6, GoKeeps
  <2>2. records' \in [Keys -> RecordStates] /\ \A j \in FlatKeys : records'[j] = records[j]
    BY <1>1, <1>6, NamesDiffer, FlatAssumption DEF ShapeOK, RecordStates
  <2>. QED
    BY <1>1, <1>2, <1>4, <2>1, <2>2, BrokerMoves DEF ShapeOK, PlacingSteps
<1>. QED
  BY <1>3, <1>5, <1>6

(* The operator, the flatten and the restart throw the switch or clear calls.*)
LEMMA SwitchStep ==
  ASSUME ServiceInv, CallsOK', UNCHANGED <<deployment, rows, market>>,
         records' \in [Keys -> RecordStates],
         deployment.redis => \A j \in FlatKeys : records[j] # "none" => records'[j] # "none",
         switch' \in BOOLEAN, userStop' \in BOOLEAN,
         deployment.redis => (userStop' => switch'),
         \A d \in Callers :
            calls'[d] = calls[d]
            \/ /\ calls'[d].at \notin PlacingSteps \cup {"flatPlace", "reply", "attach", "sync"}
               /\ deployment.redis => ~calls'[d].stopped
  PROVE  ServiceInv'
<1>1. \A d \in Callers : calls[d].at = "flatPlace" => calls[d].key \in FlatKeys
  BY DEF ServiceInv, ShapeOK, CallsOK
<1>2. ShapeOK'
  BY DEF ServiceInv, ShapeOK
<1>3. OnceInv'
  BY DEF ServiceInv, OnceInv, PlacingSteps
<1>4. StopInv'
  BY DEF ServiceInv, StopInv
<1>5. FlatInv'
  BY <1>1 DEF ServiceInv, FlatInv
<1>. QED
  BY <1>2, <1>3, <1>4, <1>5 DEF ServiceInv

LEMMA FlattenStep ==
  ASSUME ServiceInv, NEW c \in Callers, NEW override \in BOOLEAN, Flatten(c, override)
  PROVE  ServiceInv'
<1>1. ShapeOK /\ CallsOK /\ calls[c] = Idle /\ Proceed(c, "flatCancel") /\ switch' = TRUE
      /\ UNCHANGED <<deployment, rows, market, records, userStop>>
  BY DEF ServiceInv, ShapeOK, Flatten, durable, system
<1>2. /\ CallsOK' /\ calls'[c].at = "flatCancel" /\ ~calls'[c].stopped
      /\ \A d \in Callers : d # c => calls'[d] = calls[d]
  BY <1>1, ProceedKeeps, IdleShape DEF Steps, SignalSteps
<1>. QED
  BY <1>1, <1>2, SwitchStep DEF ShapeOK, PlacingSteps

LEMMA OperatorStep ==
  ASSUME ServiceInv, Activate \/ Deactivate
  PROVE  ServiceInv'
<1>1. ShapeOK /\ CallsOK /\ UNCHANGED <<deployment, rows, market, records, calls>>
      /\ switch' \in BOOLEAN /\ userStop' \in BOOLEAN /\ (userStop' => switch')
  BY DEF ServiceInv, ShapeOK, Activate, Deactivate, system
<1>2. CallsOK'
  BY <1>1 DEF CallsOK
<1>. QED
  BY <1>1, <1>2, SwitchStep DEF ShapeOK

LEMMA RestartStep ==
  ASSUME ServiceInv, Restart
  PROVE  ServiceInv'
<1>1. ShapeOK /\ CallsOK /\ UNCHANGED <<deployment, rows, market, userStop>>
      /\ calls' = [c \in Callers |-> Idle]
  BY DEF ServiceInv, ShapeOK, Restart, durable
<1>2. /\ deployment.redis => UNCHANGED <<records, switch>>
      /\ ~deployment.redis => records' = [k \in Keys |-> "none"] /\ switch' = FALSE
  BY DEF Restart
<1>3. \A c \in Callers : calls'[c].at = "idle" /\ ~calls'[c].stopped
  BY <1>1, IdleShape
<1>4. CallsOK'
  BY <1>1, <1>3 DEF CallsOK, SignalSteps
<1>5. switch' \in BOOLEAN /\ records' \in [Keys -> RecordStates]
  <2>1. deployment.redis \in BOOLEAN
    BY <1>1, ModesAssumption DEF ShapeOK
  <2>. QED
    BY <1>1, <1>2, <2>1 DEF ShapeOK, RecordStates
<1>. QED
  BY <1>1, <1>2, <1>3, <1>4, <1>5, SwitchStep DEF ServiceInv, StopInv, ShapeOK, PlacingSteps

LEMMA FrameStep ==
  ASSUME ServiceInv, UNCHANGED <<deployment, rows, records, market, userStop, calls>>,
         switch' = switch \/ switch' = TRUE
  PROVE  ServiceInv'
<1>1. CallsOK'
  BY DEF ServiceInv, ShapeOK, CallsOK
<1>. QED
  BY <1>1, SwitchStep DEF ServiceInv, ShapeOK, StopInv

LEMMA StepStep ==
  ASSUME ServiceInv, NEW c \in Callers, Step(c) \/ Call(c)
  PROVE  ServiceInv'
BY ClaimStep, GatesStep, PlaceStep, ReplyStep, ResolveStep, RecordBlockStep, AttachStep, SyncStep,
   SendCancelStep, FlattenCancelsStep, FlattenReadsStep, FlattenPlacesStep,
   SubmitStep, StartCancelStep, FlattenStep
   DEF Step, Call

LEMMA NextService == ServiceInv /\ [Next]_vars => ServiceInv'
<1>1. ASSUME ServiceInv, OpenGate PROVE ServiceInv'
  BY <1>1, FrameStep DEF OpenGate, durable
<1>2. ASSUME ServiceInv, UNCHANGED vars PROVE ServiceInv'
  BY <1>2, FrameStep DEF vars
<1>. QED
  BY <1>1, <1>2, StepStep, ExecuteStep, OperatorStep, RestartStep DEF Next

LEMMA ServiceImplies == ServiceInv => OneOrderPerKey /\ StopHoldsWithRedis /\ FlattenSentOnce
<1>1. ASSUME ServiceInv PROVE \A n \in Sizes : FlatKey(n) \in FlatKeys
  BY DEF FlatKeys
<1>. QED
  BY <1>1 DEF ServiceInv, OnceInv, StopInv, FlatInv, PlacingSteps,
              OneOrderPerKey, StopHoldsWithRedis, UserStopHolds, FlattenSentOnce

-----------------------------------------------------------------------------
(* The service                                                              *)

(* One signal reaches the broker at most once, whatever retries, restarts,   *)
(* lost records and failing databases there are: the database's claim of the *)
(* signal (persistence.py, claim_idempotency_key) is enough.                *)
THEOREM OneOrder == Spec => []OneOrderPerKey
<1>. QED
  BY InitService, NextService, ServiceImplies, PTL DEF Spec

(* Where the switch is durable, no order of a call that came in under an     *)
(* engaged switch or operator's stop is ever placed.                        *)
THEOREM StopHolds == Spec => []StopHoldsWithRedis
<1>. QED
  BY InitService, NextService, ServiceImplies, PTL DEF Spec

(* Where the records are durable, one position is flattened by one order     *)
(* however many flattens overlap (order_manager.py, emergency_flatten_all).  *)
THEOREM FlattenOnce == Spec => []FlattenSentOnce
<1>. QED
  BY InitService, NextService, ServiceImplies, PTL DEF Spec

-----------------------------------------------------------------------------
(* The composition with startup recovery                                    *)

(* The recovery keeps its report of a halt while it works.                  *)
HaltInv == "halted" \in DOMAIN recovery /\ (recovery.halted => switch)

LEMMA StartedShape ==
  ASSUME NEW h
  PROVE  LET s == Started(h)
             f == [s EXCEPT !.phase = "done"]
         IN  /\ "halted" \in DOMAIN s /\ s.halted = h
             /\ "halted" \in DOMAIN f /\ f.halted = h
BY DEF Started

(* A step of the recovery leaves the orders and the database alone; it may   *)
(* engage the switch, and what it reports as a halt is one.                 *)
LEMMA RecoverStep ==
  ASSUME HaltInv, switch \in BOOLEAN, Recover
  PROVE  HaltInv' /\ UNCHANGED frame /\ (switch' = switch \/ switch' = TRUE)
<1>1. CASE Connect
  BY <1>1, StartedShape DEF Connect, Finish, HaltInv
<1>2. CASE LoadLocal
  BY <1>2 DEF LoadLocal, HaltInv
<1>3. CASE QueryBroker
  <2>1. \A source : "halted" \in DOMAIN ReplyOf(source) /\ ReplyOf(source).halted = recovery.halted
    BY <1>3 DEF ReplyOf, HaltInv
  <2>2. ASSUME NEW r, "halted" \in DOMAIN r
        PROVE  "halted" \in DOMAIN Moved(r) /\ Moved(r).halted = r.halted
    BY <2>2 DEF Moved
  <2>3. LET r == [recovery EXCEPT !.missing = @ \cup {"broker"}]
        IN  "halted" \in DOMAIN r /\ r.halted = recovery.halted
    BY DEF HaltInv
  <2>. QED
    BY <1>3, <2>1, <2>2, <2>3 DEF QueryBroker, HaltInv
<1>4. CASE Judge
  BY <1>4, StartedShape DEF Judge, Finish, Enter, HaltInv
<1>5. CASE ResolveSafely
  BY <1>5 DEF ResolveSafely, Enter, HaltInv
<1>6. CASE Halt
  BY <1>6, StartedShape DEF Halt, Finish, HaltInv
<1>. QED
  BY <1>1, <1>2, <1>3, <1>4, <1>5, <1>6 DEF Recover

StartupInv == ServiceInv /\ HaltInv

LEMMA InitStartup == StartupInit => StartupInv
BY InitService, StartedShape DEF StartupInit, StartupInv, HaltInv

LEMMA NextStartup == StartupInv /\ [StartupNext]_allVars => StartupInv'
<1>. SUFFICES ASSUME StartupInv, [StartupNext]_allVars PROVE StartupInv'
  OBVIOUS
<1>1. ServiceInv /\ HaltInv /\ switch \in BOOLEAN
  BY DEF StartupInv, ServiceInv, ShapeOK
<1>2. CASE Recover
  BY <1>1, <1>2, RecoverStep, FrameStep DEF frame, durable, StartupInv
<1>3. CASE Start
  <2>1. deployment.redis => switch' = switch
    BY <1>3 DEF Start, Restart
  <2>2. ServiceInv'
    BY <1>1, <1>3, RestartStep DEF Start
  <2>. QED
    BY <1>1, <1>3, <2>1, <2>2, StartedShape DEF Start, HaltInv, StartupInv
<1>4. CASE Release
  BY <1>1, <1>4, OperatorStep DEF Release, HaltInv, StartupInv
<1>5. CASE Serve /\ UNCHANGED recovery
  <2>1. ServiceInv'
    BY <1>1, <1>5, StepStep, ExecuteStep, OperatorStep DEF Serve
  <2>2. switch' = switch \/ switch' = TRUE
    BY <1>5 DEF Serve, Step, Call, Claim, Gates, Place, Reply, Resolve, RecordBlock, Attach, Sync,
                SendCancel, FlattenCancels, FlattenReads, FlattenPlaces, Submit, StartCancel, Flatten,
                Execute, Activate, durable
  <2>. QED
    BY <1>1, <1>5, <2>1, <2>2 DEF HaltInv, StartupInv
<1>6. CASE UNCHANGED allVars
  BY <1>1, <1>6, FrameStep DEF allVars, vars, HaltInv, StartupInv
<1>. QED
  BY <1>2, <1>3, <1>4, <1>5, <1>6 DEF StartupNext

(* What holds of the service holds with a recovery at every start.          *)
THEOREM ServiceUnderRecovery ==
    StartupSpec => [](OneOrderPerKey /\ StopHoldsWithRedis /\ FlattenSentOnce)
<1>1. StartupInv => ServiceInv
  BY DEF StartupInv
<1>. QED
  BY <1>1, InitStartup, NextStartup, ServiceImplies, PTL DEF StartupSpec

(* A halt the recovery reported as persisted (recovery.py,                   *)
(* _activate_kill_switch) is in force until an operator releases it.         *)
THEOREM HaltsAreReal == StartupSpec => []HaltIsReal
<1>1. StartupInv => HaltIsReal
  BY DEF StartupInv, HaltInv, HaltIsReal
<1>. QED
  BY <1>1, InitStartup, NextStartup, PTL DEF StartupSpec

-----------------------------------------------------------------------------
(* The books                                                                *)

(* Net adds up what the orders signed.                                      *)
Sign == [k \in Keys |-> Signed(k)]

LEMMA NetSums ==
  ASSUME NEW S, S \subseteq Keys, IsFiniteSet(S)
  PROVE  \E g : Summing(Sign, S, g) /\ Net(S) = g[S]
<1>. DEFINE F(g) == [s \in SUBSET S |->
                       IF s = {} THEN 0
                       ELSE LET x == CHOOSE y \in s : TRUE IN Signed(x) + g[s \ {x}]]
            E(g) == [s \in SUBSET S |-> IF s = {} THEN 0 ELSE Sign[Chosen(s)] + g[s \ {Chosen(s)}]]
            h == CHOOSE g : g = F(g)
<1>1. ASSUME NEW g PROVE F(g) = E(g)
  <2>1. ASSUME NEW s \in SUBSET S, s # {}
        PROVE  Signed(CHOOSE y \in s : TRUE) = Sign[Chosen(s)]
    <3>1. Chosen(s) \in Keys
      BY <2>1, ChosenIn
    <3>. QED
      BY <3>1 DEF Sign, Chosen
  <2>2. ASSUME NEW s \in SUBSET S PROVE F(g)[s] = E(g)[s]
    BY <2>1 DEF Chosen
  <2>3. F(g) = [s \in SUBSET S |-> F(g)[s]] /\ E(g) = [s \in SUBSET S |-> E(g)[s]]
    OBVIOUS
  <2>. HIDE DEF F, E
  <2>. QED
    BY <2>2, <2>3
<1>2. \E g : g = E(g)
  <2>1. PICK g : Summing(Sign, S, g)
    BY SummingExists
  <2>2. g = E(g)
    BY <2>1 DEF Summing
  <2>. HIDE DEF E
  <2>. QED
    BY <2>2
<1>3. Net(S) = h[S]
  BY DEF Net, MapThenSumSet, MapThenFoldSet
<1>4. h = F(h)
  <2>. HIDE DEF F, E
  <2>1. \E g : g = F(g)
    BY <1>1, <1>2
  <2>. QED
    BY <2>1
<1>5. h = E(h)
  <2>. HIDE DEF F, E, h
  <2>. QED
    BY <1>1, <1>4
<1>6. Summing(Sign, S, h)
  <2>. HIDE DEF h
  <2>. QED
    BY <1>5 DEF Summing
<1>. QED
  BY <1>3, <1>6

LEMMA SignWhole == \A k \in Signals : Sign[k] = Signed(k) /\ Signed(k) \in Int
BY NamesDiffer DEF Sign, Signed, Signals

LEMMA NetOfNone == Net({}) = 0
<1>1. PICK g : Summing(Sign, {}, g) /\ Net({}) = g[{}]
  BY NetSums, FS_EmptySet
<1>. QED
  BY <1>1, SummingAt

LEMMA NetInt ==
  ASSUME NEW S, S \subseteq Signals, IsFiniteSet(S)
  PROVE  Net(S) \in Int
<1>1. S \subseteq Keys
  BY NamesDiffer
<1>2. PICK g : Summing(Sign, S, g) /\ Net(S) = g[S]
  BY <1>1, NetSums
<1>3. Whole(Sign, S)
  BY SignWhole DEF Whole
<1>. QED
  BY <1>2, <1>3, SummingTyped

(* One more order moves the net by its sign.                                *)
LEMMA NetAdds ==
  ASSUME NEW S, S \subseteq Signals, IsFiniteSet(S), NEW k \in Signals, k \notin S
  PROVE  Net(S \cup {k}) = Net(S) + Signed(k)
<1>1. S \subseteq Keys /\ S \cup {k} \subseteq Keys /\ IsFiniteSet(S \cup {k})
  BY NamesDiffer, FS_AddElement
<1>2. PICK g : Summing(Sign, S, g) /\ Net(S) = g[S]
  BY <1>1, NetSums
<1>3. PICK h : Summing(Sign, S \cup {k}, h) /\ Net(S \cup {k}) = h[S \cup {k}]
  BY <1>1, NetSums
<1>4. Whole(Sign, S \cup {k})
  BY SignWhole DEF Whole
<1>5. h[S \cup {k}] = Sign[k] + g[S]
  BY <1>2, <1>3, <1>4, SummingAdds
<1>6. Net(S) \in Int /\ Signed(k) \in Int /\ Sign[k] = Signed(k)
  BY NetInt, SignWhole
<1>. QED
  BY <1>2, <1>3, <1>5, <1>6

(* A call from its claim to its answer.                                     *)
OwnSteps == SignalSteps \ {"claim"}

(* A signal: its row, its order at the broker, and whether it is booked.    *)
RowOK(row, m, b) ==
    /\ m.sent = 0 => m.status = "none"
    /\ m.sent > 0 => row.status \notin {"none", "BLOCKED_RISK"}
    /\ b \/ row.status = "COMPLETE" => m.status = "COMPLETE"

(* A call that has claimed a signal finds the row as it left it, and knows   *)
(* what it says when it says that nothing was sent.                         *)
OwnOK(f, row, m, b) ==
    f.at \in OwnSteps =>
      /\ row.status \in {"INTENT_CREATED", "SUBMITTED"} /\ ~b
      /\ f.at = "block" /\ f.why # "AMBIGUOUS" => m.sent = 0

OwnersOK ==
    /\ \A c \in Callers :
         OwnOK(calls[c], rows[calls[c].key], market[calls[c].key], calls[c].key \in booked)
    /\ \A c, d \in Callers :
         calls[c].at \in OwnSteps /\ calls[d].at \in OwnSteps /\ calls[c].key = calls[d].key => c = d

RowsOK == \A k \in Signals : RowOK(rows[k], market[k], k \in booked)

CashOK ==
    /\ booked \subseteq Signals /\ IsFiniteSet(booked)
    /\ cash = Opening - Net(booked)

SystemOK ==
    /\ deployment.mode = "live" => deployment.authorized
    /\ gate \in {"BLOCKED", "RECOVERING", "READY"} /\ starts \in Nat

BooksInv == RowsOK /\ OwnersOK /\ CashOK /\ SystemOK

LEMMA OwnedSignals ==
  ASSUME CallsOK, NEW c \in Callers, calls[c].at \in OwnSteps
  PROVE  calls[c].key \in Signals /\ calls[c].key \in Keys
BY NamesDiffer DEF CallsOK, OwnSteps

LEMMA BooksTrue == ServiceInv /\ BooksInv => BooksAreTrue
<1>. SUFFICES ASSUME ServiceInv, BooksInv PROVE BooksAreTrue
  OBVIOUS
<1>1. ShapeOK /\ CallsOK /\ RowsOK /\ CashOK /\ SystemOK
  BY DEF ServiceInv, ShapeOK, BooksInv
<1>2. cash \in Int
  BY <1>1, NetInt, OpeningAssumption DEF CashOK
<1>3. \A c \in Callers :
        /\ calls[c].at \in {"claim", "gates", "place", "reply", "resolve", "block", "attach", "sync"}
              => calls[c].key \in Signals
        /\ calls[c].at \in {"cancel", "flatPlace"} => calls[c].key \in Keys
  BY <1>1, NamesDiffer DEF CallsOK, SignalSteps
<1>4. TypeOK
  BY <1>1, <1>2, <1>3 DEF TypeOK, ShapeOK, CallsOK, CashOK, SystemOK
<1>. QED
  BY <1>1, <1>4 DEF BooksAreTrue, RowsOK, RowOK, CashOK

LEMMA InitBooks == Init => BooksInv
<1>. SUFFICES ASSUME Init PROVE BooksInv
  OBVIOUS
<1>1. \A c \in Callers : calls[c].at \notin OwnSteps
  BY IdleShape DEF Init, OwnSteps, SignalSteps
<1>2. RowsOK
  BY NamesDiffer DEF Init, RowsOK, RowOK
<1>3. CashOK
  BY NetOfNone, OpeningAssumption, FS_EmptySet DEF Init, CashOK
<1>. QED
  BY <1>1, <1>2, <1>3 DEF Init, BooksInv, OwnersOK, OwnOK, SystemOK, Construct

(* The one caller that owns a signal, or claims it when nobody does, moves    *)
(* it on; nothing else moves.                                               *)
LEMMA OwnerMoves ==
  ASSUME CallsOK, RowsOK, OwnersOK, NEW c \in Callers, NEW k \in Signals,
         \A d \in Callers : d # c /\ calls[d].at \in OwnSteps => calls[d].key # k,
         \A d \in Callers : d # c => calls'[d] = calls[d],
         calls'[c].at \in OwnSteps => calls'[c].key = k,
         \A j \in Signals : j # k =>
            rows'[j] = rows[j] /\ market'[j] = market[j] /\ (j \in booked' <=> j \in booked),
         RowOK(rows'[k], market'[k], k \in booked'),
         calls'[c].at \in OwnSteps => OwnOK(calls'[c], rows'[k], market'[k], k \in booked')
  PROVE  (RowsOK /\ OwnersOK)'
<1>1. RowsOK'
  <2>1. ASSUME NEW j \in Signals, j # k PROVE RowOK(rows'[j], market'[j], j \in booked')
    <3>1. RowOK(rows[j], market[j], j \in booked)
      BY DEF RowsOK
    <3>. QED
      BY <2>1, <3>1 DEF RowOK
  <2>. QED
    BY <2>1 DEF RowsOK
<1>2. ASSUME NEW d \in Callers
      PROVE  OwnOK(calls'[d], rows'[calls'[d].key], market'[calls'[d].key], calls'[d].key \in booked')
  <2>1. CASE d = c
    BY <2>1 DEF OwnOK
  <2>2. CASE d # c
    <3>1. OwnOK(calls[d], rows[calls[d].key], market[calls[d].key], calls[d].key \in booked)
      BY DEF OwnersOK
    <3>2. calls[d].at \in OwnSteps => calls[d].key \in Signals /\ calls[d].key # k
      BY <2>2, OwnedSignals
    <3>. QED
      BY <2>2, <3>1, <3>2 DEF OwnOK
  <2>. QED
    BY <2>1, <2>2
<1>3. ASSUME NEW d \in Callers, NEW e \in Callers, calls'[d].at \in OwnSteps, calls'[e].at \in OwnSteps,
             calls'[d].key = calls'[e].key
      PROVE  d = e
  <2>1. ASSUME NEW b \in Callers, b # c, calls'[b].at \in OwnSteps PROVE calls'[b].key # k
    BY <2>1
  <2>2. CASE d # c /\ e # c
    BY <1>3, <2>2 DEF OwnersOK
  <2>. QED
    BY <1>3, <2>1, <2>2
<1>. QED
  BY <1>1, <1>2, <1>3 DEF OwnersOK

(* The broker moves resting orders, and calls that own nothing come and go.  *)
LEMMA OthersMove ==
  ASSUME CallsOK, RowsOK, OwnersOK, UNCHANGED <<rows, booked>>,
         \A d \in Callers : calls'[d] = calls[d] \/ calls'[d].at \notin OwnSteps,
         \A j \in Signals :
            \/ market'[j] = market[j]
            \/ /\ market[j].status = "OPEN" /\ market'[j].status \in {"COMPLETE", "CANCELLED"}
               /\ market'[j].sent = market[j].sent
  PROVE  (RowsOK /\ OwnersOK)'
<1>1. RowsOK'
  <2>1. ASSUME NEW j \in Signals PROVE RowOK(rows[j], market'[j], j \in booked)
    <3>1. RowOK(rows[j], market[j], j \in booked)
      BY DEF RowsOK
    <3>. QED
      BY <3>1 DEF RowOK
  <2>. QED
    BY <2>1 DEF RowsOK
<1>2. ASSUME NEW d \in Callers
      PROVE  OwnOK(calls'[d], rows[calls'[d].key], market'[calls'[d].key], calls'[d].key \in booked)
  <2>1. OwnOK(calls[d], rows[calls[d].key], market[calls[d].key], calls[d].key \in booked)
    BY DEF OwnersOK
  <2>2. calls[d].at \in OwnSteps => calls[d].key \in Signals
    BY OwnedSignals
  <2>3. calls[d].at \in OwnSteps => market'[calls[d].key].sent = market[calls[d].key].sent
    BY <2>2
  <2>. QED
    BY <2>1, <2>3 DEF OwnOK
<1>. QED
  BY <1>1, <1>2 DEF OwnersOK

(* What the owner of a signal has, and that it is alone.                    *)
LEMMA Owning ==
  ASSUME ServiceInv, BooksInv, NEW c \in Callers, calls[c].at \in OwnSteps
  PROVE  LET k == calls[c].key
         IN  /\ k \in Signals /\ k \in Keys
             /\ rows \in [Signals -> Row] /\ market \in [Keys -> Market] /\ CallsOK
             /\ RowOK(rows[k], market[k], k \in booked)
             /\ OwnOK(calls[c], rows[k], market[k], k \in booked)
             /\ \A d \in Callers : d # c /\ calls[d].at \in OwnSteps => calls[d].key # k
<1>1. CallsOK /\ calls[c].key \in Signals /\ calls[c].key \in Keys
  BY OwnedSignals DEF ServiceInv, ShapeOK
<1>. QED
  BY <1>1 DEF ServiceInv, ShapeOK, BooksInv, RowsOK, OwnersOK

(* A call that leaves its signal to nobody.                                 *)
LEMMA AnswerBooks ==
  ASSUME CallsOK, NEW c \in Callers, Answer(c)
  PROVE  calls'[c].at \notin OwnSteps /\ \A d \in Callers : d # c => calls'[d] = calls[d]
<1>1. calls'[c].at = "idle"
  BY AnswerKeeps
<1>. QED
  BY <1>1, AnswerKeeps DEF OwnSteps, SignalSteps

LEMMA ProceedBooks ==
  ASSUME CallsOK, NEW c \in Callers, NEW s \in Steps, Proceed(c, s), calls[c].at \in SignalSteps,
         s # "cancel", s # "flatPlace", s # "block"
  PROVE  /\ calls'[c].key = calls[c].key /\ calls'[c].at # "block"
         /\ \A d \in Callers : d # c => calls'[d] = calls[d]
BY ProceedKeeps

LEMMA BlockBooks ==
  ASSUME CallsOK, NEW c \in Callers, NEW w \in Outcomes, Block(c, w), calls[c].at \in SignalSteps
  PROVE  /\ calls'[c].key = calls[c].key /\ calls'[c].why = w
         /\ \A d \in Callers : d # c => calls'[d] = calls[d]
<1>1. calls' = [calls EXCEPT ![c] = [at |-> "block", key |-> calls[c].key, why |-> w,
                                     stopped |-> calls[c].stopped]]
  BY DEF Block, Go
<1>2. calls'[c].why = w
  BY <1>1 DEF CallsOK
<1>. QED
  BY <1>2, BlockKeeps

LEMMA ClaimBooks ==
  ASSUME ServiceInv, BooksInv, NEW c \in Callers, Claim(c)
  PROVE  (RowsOK /\ OwnersOK)' /\ UNCHANGED <<booked, cash>>
<1>. DEFINE k == calls[c].key
<1>1. ShapeOK /\ CallsOK /\ calls[c].at = "claim" /\ k \in Signals /\ k \in Keys /\ RowsOK /\ OwnersOK
  BY NamesDiffer DEF ServiceInv, ShapeOK, CallsOK, SignalSteps, Claim, At, BooksInv
<1>2. UNCHANGED <<booked, cash, market>>
  BY DEF Claim
<1>3. CASE rows[k].status = "none" /\ rows' = [rows EXCEPT ![k].status = "INTENT_CREATED"]
           /\ Proceed(c, "gates")
  <2>1. /\ calls'[c].key = k /\ calls'[c].at # "block"
        /\ \A d \in Callers : d # c => calls'[d] = calls[d]
    BY <1>1, <1>3, ProceedBooks DEF Steps, SignalSteps
  <2>2. rows'[k].status = "INTENT_CREATED" /\ \A j \in Signals : j # k => rows'[j] = rows[j]
    BY <1>1, <1>3 DEF ShapeOK, Row
  <2>3. market[k].sent = 0 /\ k \notin booked /\ RowOK(rows[k], market[k], k \in booked)
    <3>1. RowOK(rows[k], market[k], k \in booked) /\ market[k].sent \in Nat
      BY <1>1, MarketFields DEF RowsOK
    <3>. QED
      BY <1>3, <3>1 DEF RowOK
  <2>4. \A d \in Callers : d # c /\ calls[d].at \in OwnSteps => calls[d].key # k
    BY <1>1, <1>3 DEF OwnersOK, OwnOK
  <2>5. RowOK(rows'[k], market'[k], k \in booked') /\ OwnOK(calls'[c], rows'[k], market'[k], k \in booked')
    BY <1>2, <2>1, <2>2, <2>3 DEF RowOK, OwnOK
  <2>. HIDE DEF k
  <2>. QED
    BY <1>1, <1>2, <2>1, <2>2, <2>4, <2>5, OwnerMoves
<1>4. CASE UNCHANGED rows /\ Answer(c)
  BY <1>1, <1>2, <1>4, AnswerBooks, OthersMove
<1>. QED
  BY <1>2, <1>3, <1>4 DEF Claim

LEMMA GatesBooks ==
  ASSUME ServiceInv, BooksInv, NEW c \in Callers, Gates(c)
  PROVE  (RowsOK /\ OwnersOK)' /\ UNCHANGED <<booked, cash>>
<1>. DEFINE k == calls[c].key
<1>1. calls[c].at = "gates" /\ calls[c].at \in OwnSteps /\ calls[c].at \in SignalSteps
  BY DEF Gates, At, OwnSteps, SignalSteps
<1>2. UNCHANGED <<rows, booked, cash, market>>
  BY DEF Gates, durable
<1>3. market[k].sent = 0
  BY <1>1 DEF ServiceInv, OnceInv, PlacingSteps
<1>4. /\ calls'[c].key = k /\ OwnOK(calls'[c], rows[k], market[k], k \in booked)
      /\ \A d \in Callers : d # c => calls'[d] = calls[d]
  <2>1. CallsOK /\ OwnOK(calls[c], rows[k], market[k], k \in booked)
    BY <1>1, Owning
  <2>2. CASE Proceed(c, "place")
    <3>1. calls'[c].key = k /\ calls'[c].at # "block" /\ \A d \in Callers : d # c => calls'[d] = calls[d]
      BY <1>1, <2>1, <2>2, ProceedBooks DEF Steps
    <3>. QED
      BY <1>1, <2>1, <3>1 DEF OwnOK
  <2>3. CASE Block(c, "BLOCKED_RISK")
    <3>1. calls'[c].key = k /\ \A d \in Callers : d # c => calls'[d] = calls[d]
      BY <1>1, <2>1, <2>3, BlockBooks DEF Outcomes
    <3>. QED
      BY <1>1, <1>3, <2>1, <3>1 DEF OwnOK
  <2>. QED
    BY <2>2, <2>3 DEF Gates
<1>5. k \in Signals /\ CallsOK /\ RowOK(rows[k], market[k], k \in booked)
      /\ \A d \in Callers : d # c /\ calls[d].at \in OwnSteps => calls[d].key # k
  BY <1>1, Owning
<1>. HIDE DEF k
<1>. QED
  BY <1>2, <1>4, <1>5, OwnerMoves DEF BooksInv

LEMMA PlaceBooks ==
  ASSUME ServiceInv, BooksInv, NEW c \in Callers, Place(c)
  PROVE  (RowsOK /\ OwnersOK)' /\ UNCHANGED <<booked, cash>>
<1>. DEFINE k == calls[c].key
<1>1. calls[c].at = "place" /\ calls[c].at \in OwnSteps /\ calls[c].at \in SignalSteps
  BY DEF Place, At, OwnSteps, SignalSteps
<1>2. UNCHANGED <<rows, booked, cash>>
  BY DEF Place, durable
<1>3. k \in Signals /\ k \in Keys /\ CallsOK /\ RowOK(rows[k], market[k], k \in booked)
      /\ OwnOK(calls[c], rows[k], market[k], k \in booked)
      /\ \A d \in Callers : d # c /\ calls[d].at \in OwnSteps => calls[d].key # k
  BY <1>1, Owning
<1>4. calls'[c].key = k /\ calls'[c].at # "block" /\ \A d \in Callers : d # c => calls'[d] = calls[d]
  BY <1>1, <1>3, ProceedBooks DEF Place, Steps
<1>5. \/ market' = market
      \/ market'[k].sent = market[k].sent + 1 /\ \A j \in Keys : j # k => market'[j] = market[j]
  BY <1>3, TakenMoves DEF Place, ServiceInv
<1>6. market[k].sent \in Nat
  BY <1>3, MarketFields DEF ServiceInv
<1>7. RowOK(rows[k], market'[k], k \in booked) /\ OwnOK(calls'[c], rows[k], market'[k], k \in booked)
  BY <1>1, <1>3, <1>4, <1>5, <1>6 DEF RowOK, OwnOK
<1>8. \A j \in Signals : j # k => market'[j] = market[j]
  BY <1>5, NamesDiffer
<1>. HIDE DEF k
<1>. QED
  BY <1>2, <1>3, <1>4, <1>7, <1>8, OwnerMoves DEF BooksInv

(* What the reply says is saved: the order store can be written.            *)
LEMMA ReplyBooks ==
  ASSUME ServiceInv, BooksInv, "store" \notin Faults, NEW c \in Callers, Reply(c)
  PROVE  (RowsOK /\ OwnersOK)' /\ UNCHANGED <<booked, cash>>
<1>. DEFINE k == calls[c].key
<1>1. calls[c].at = "reply" /\ calls[c].at \in OwnSteps /\ calls[c].at \in SignalSteps
  BY DEF Reply, At, OwnSteps, SignalSteps
<1>2. UNCHANGED <<rows, booked, cash, market>> /\ Proceed(c, "attach")
  BY DEF Reply, durable, Fault
<1>3. k \in Signals /\ CallsOK /\ RowOK(rows[k], market[k], k \in booked)
      /\ OwnOK(calls[c], rows[k], market[k], k \in booked)
      /\ \A d \in Callers : d # c /\ calls[d].at \in OwnSteps => calls[d].key # k
  BY <1>1, Owning
<1>4. calls'[c].key = k /\ calls'[c].at # "block" /\ \A d \in Callers : d # c => calls'[d] = calls[d]
  BY <1>1, <1>2, <1>3, ProceedBooks DEF Steps
<1>5. OwnOK(calls'[c], rows[k], market[k], k \in booked)
  BY <1>1, <1>3, <1>4 DEF OwnOK
<1>. HIDE DEF k
<1>. QED
  BY <1>2, <1>3, <1>4, <1>5, OwnerMoves DEF BooksInv

LEMMA ResolveBooks ==
  ASSUME ServiceInv, BooksInv, NEW c \in Callers, Resolve(c)
  PROVE  (RowsOK /\ OwnersOK)' /\ UNCHANGED <<booked, cash>>
<1>. DEFINE k == calls[c].key
<1>1. calls[c].at = "resolve" /\ calls[c].at \in OwnSteps /\ calls[c].at \in SignalSteps
  BY DEF Resolve, At, OwnSteps, SignalSteps
<1>2. UNCHANGED <<rows, booked, cash, market>>
  BY DEF Resolve, durable
<1>3. k \in Signals /\ CallsOK /\ RowOK(rows[k], market[k], k \in booked)
      /\ OwnOK(calls[c], rows[k], market[k], k \in booked)
      /\ \A d \in Callers : d # c /\ calls[d].at \in OwnSteps => calls[d].key # k
  BY <1>1, Owning
<1>4. /\ calls'[c].key = k /\ OwnOK(calls'[c], rows[k], market[k], k \in booked)
      /\ \A d \in Callers : d # c => calls'[d] = calls[d]
  <2>1. CASE Proceed(c, "attach")
    <3>1. calls'[c].key = k /\ calls'[c].at # "block" /\ \A d \in Callers : d # c => calls'[d] = calls[d]
      BY <1>1, <1>3, <2>1, ProceedBooks DEF Steps
    <3>. QED
      BY <1>1, <1>3, <3>1 DEF OwnOK
  <2>2. ASSUME NEW w \in Outcomes, Block(c, w), w # "AMBIGUOUS" => market[k].sent = 0
        PROVE  /\ calls'[c].key = k /\ OwnOK(calls'[c], rows[k], market[k], k \in booked)
               /\ \A d \in Callers : d # c => calls'[d] = calls[d]
    <3>1. calls'[c].key = k /\ calls'[c].why = w /\ \A d \in Callers : d # c => calls'[d] = calls[d]
      BY <1>1, <1>3, <2>2, BlockBooks
    <3>. QED
      BY <1>1, <1>3, <2>2, <3>1 DEF OwnOK
  <2>. QED
    BY <2>1, <2>2 DEF Resolve, Outcomes
<1>. HIDE DEF k
<1>. QED
  BY <1>2, <1>3, <1>4, OwnerMoves DEF BooksInv

LEMMA RecordBlockBooks ==
  ASSUME ServiceInv, BooksInv, NEW c \in Callers, RecordBlock(c)
  PROVE  (RowsOK /\ OwnersOK)' /\ UNCHANGED <<booked, cash>>
<1>. DEFINE k == calls[c].key
<1>1. calls[c].at = "block" /\ calls[c].at \in OwnSteps
  BY DEF RecordBlock, At, OwnSteps, SignalSteps
<1>2. UNCHANGED <<booked, cash, market>> /\ Answer(c)
  BY DEF RecordBlock
<1>3. k \in Signals /\ CallsOK /\ rows \in [Signals -> Row] /\ RowOK(rows[k], market[k], k \in booked)
      /\ OwnOK(calls[c], rows[k], market[k], k \in booked)
      /\ \A d \in Callers : d # c /\ calls[d].at \in OwnSteps => calls[d].key # k
  BY <1>1, Owning
<1>4. calls'[c].at \notin OwnSteps /\ \A d \in Callers : d # c => calls'[d] = calls[d]
  BY <1>2, <1>3, AnswerBooks
<1>5. /\ \A j \in Signals : j # k => rows'[j] = rows[j]
      /\ \/ rows'[k] = rows[k]
         \/ rows'[k].status = "UNKNOWN"
         \/ rows'[k].status = "BLOCKED_RISK" /\ calls[c].why # "AMBIGUOUS"
  BY <1>3 DEF RecordBlock, Row
<1>6. RowOK(rows'[k], market[k], k \in booked)
  BY <1>1, <1>3, <1>5 DEF RowOK, OwnOK
<1>. HIDE DEF k
<1>. QED
  BY <1>2, <1>3, <1>4, <1>5, <1>6, OwnerMoves DEF BooksInv

LEMMA AttachBooks ==
  ASSUME ServiceInv, BooksInv, NEW c \in Callers, Attach(c)
  PROVE  (RowsOK /\ OwnersOK)' /\ UNCHANGED <<booked, cash>>
<1>. DEFINE k == calls[c].key
<1>1. calls[c].at = "attach" /\ calls[c].at \in OwnSteps /\ calls[c].at \in SignalSteps
  BY DEF Attach, At, OwnSteps, SignalSteps
<1>2. UNCHANGED <<booked, cash, market>>
  BY DEF Attach
<1>3. k \in Signals /\ CallsOK /\ rows \in [Signals -> Row] /\ RowOK(rows[k], market[k], k \in booked)
      /\ OwnOK(calls[c], rows[k], market[k], k \in booked)
      /\ \A d \in Callers : d # c /\ calls[d].at \in OwnSteps => calls[d].key # k
  BY <1>1, Owning
<1>4. CASE Proceed(c, "sync") /\ rows' = [rows EXCEPT ![k] = [status |-> "SUBMITTED", attached |-> TRUE]]
  <2>1. calls'[c].key = k /\ calls'[c].at # "block" /\ \A d \in Callers : d # c => calls'[d] = calls[d]
    BY <1>1, <1>3, <1>4, ProceedBooks DEF Steps
  <2>2. rows'[k].status = "SUBMITTED" /\ \A j \in Signals : j # k => rows'[j] = rows[j]
    BY <1>3, <1>4
  <2>3. RowOK(rows'[k], market[k], k \in booked) /\ OwnOK(calls'[c], rows'[k], market[k], k \in booked)
    BY <1>1, <1>3, <2>1, <2>2 DEF RowOK, OwnOK
  <2>. HIDE DEF k
  <2>. QED
    BY <1>2, <1>3, <2>1, <2>2, <2>3, OwnerMoves DEF BooksInv
<1>5. CASE UNCHANGED rows /\ Answer(c)
  BY <1>2, <1>3, <1>5, AnswerBooks, OthersMove DEF BooksInv
<1>. QED
  BY <1>2, <1>4, <1>5 DEF Attach

LEMMA SyncBooks ==
  ASSUME ServiceInv, BooksInv, NEW c \in Callers, Sync(c)
  PROVE  (RowsOK /\ OwnersOK)' /\ CashOK'
<1>. DEFINE k == calls[c].key
<1>1. calls[c].at = "sync" /\ calls[c].at \in OwnSteps
  BY DEF Sync, At, OwnSteps, SignalSteps
<1>2. UNCHANGED market /\ Answer(c)
  BY DEF Sync
<1>3. k \in Signals /\ k \in Keys /\ CallsOK /\ rows \in [Signals -> Row] /\ RowOK(rows[k], market[k], k \in booked)
      /\ OwnOK(calls[c], rows[k], market[k], k \in booked)
      /\ \A d \in Callers : d # c /\ calls[d].at \in OwnSteps => calls[d].key # k
  BY <1>1, Owning
<1>4. calls'[c].at \notin OwnSteps /\ \A d \in Callers : d # c => calls'[d] = calls[d]
  BY <1>2, <1>3, AnswerBooks
<1>5. k \notin booked /\ market[k].sent > 0 /\ market[k].status \in {"OPEN", "COMPLETE", "REJECTED", "CANCELLED"}
  <2>1. market[k].sent > 0 /\ market[k].status # "none"
    BY <1>1, <1>3 DEF ServiceInv, OnceInv
  <2>. QED
    BY <1>1, <1>3, <2>1, MarketFields DEF ServiceInv, OwnOK
<1>6. /\ \A j \in Signals : j # k => rows'[j] = rows[j]
      /\ rows'[k] = rows[k] \/ rows'[k].status \in {market[k].status, "UNKNOWN"}
  BY <1>3 DEF Sync, Row
<1>7. UNCHANGED <<booked, cash>> \/ (market[k].status = "COMPLETE" /\ Book(k))
  BY DEF Sync
<1>8. \A j \in Signals : j # k => (j \in booked' <=> j \in booked)
  BY <1>7 DEF Book
<1>9. RowOK(rows'[k], market[k], k \in booked')
  BY <1>3, <1>5, <1>6, <1>7 DEF RowOK
<1>10. (RowsOK /\ OwnersOK)'
  <2>. HIDE DEF k
  <2>. QED
    BY <1>2, <1>3, <1>4, <1>6, <1>8, <1>9, OwnerMoves DEF BooksInv
<1>11. CashOK'
  <2>1. booked \subseteq Signals /\ IsFiniteSet(booked) /\ cash = Opening - Net(booked)
        /\ Net(booked) \in Int /\ Opening \in Int
    BY NetInt, OpeningAssumption DEF BooksInv, CashOK
  <2>2. CASE UNCHANGED <<booked, cash>>
    BY <2>1, <2>2 DEF CashOK
  <2>3. CASE Book(k)
    <3>1. booked' = booked \cup {k} /\ cash' = cash - Signed(k)
      BY <2>3 DEF Book
    <3>2. Net(booked \cup {k}) = Net(booked) + Signed(k) /\ Signed(k) \in Int
      BY <1>3, <1>5, <2>1, NetAdds, SignWhole
    <3>3. IsFiniteSet(booked')
      BY <2>1, <3>1, FS_AddElement
    <3>4. cash' = Opening - (Net(booked) + Signed(k))
      BY <2>1, <3>1, <3>2
    <3>. QED
      BY <1>3, <2>1, <3>1, <3>2, <3>3, <3>4 DEF CashOK
  <2>. QED
    BY <1>7, <2>2, <2>3
<1>. QED
  BY <1>10, <1>11

(* Calls that own nothing, and the broker                                   *)

(* How orders move when none of them is placed.                             *)
RestingMoves(K) ==
    \A j \in K :
       \/ market'[j] = market[j]
       \/ /\ market[j].status = "OPEN" /\ market'[j].status \in {"COMPLETE", "CANCELLED"}
          /\ market'[j].sent = market[j].sent

LEMMA SignalsMove == RestingMoves(Keys) => RestingMoves(Signals)
BY NamesDiffer DEF RestingMoves

LEMMA ExecuteMoves ==
  ASSUME ShapeOK, NEW k \in Keys, Execute(k) PROVE RestingMoves(Keys)
BY NamesDiffer DEF Execute, ShapeOK, Market, RestingMoves

LEMMA SendCancelMoves ==
  ASSUME ShapeOK, NEW c \in Callers, SendCancel(c) PROVE RestingMoves(Keys)
<1>. DEFINE k == calls[c].key
            dead == [market EXCEPT ![k].status = "CANCELLED"]
<1>1. market' = market \/ (market[k].status = "OPEN" /\ market' = dead)
  BY DEF SendCancel
<1>2. k \in Keys
  BY NamesDiffer DEF ShapeOK, CallsOK, SendCancel, At
<1>3. \A j \in Keys : IF j = k THEN dead[j].status = "CANCELLED" /\ dead[j].sent = market[j].sent
                      ELSE dead[j] = market[j]
  BY <1>2 DEF ShapeOK, Market
<1>. HIDE DEF dead, k
<1>. QED
  BY <1>1, <1>3, NamesDiffer DEF RestingMoves

LEMMA FlattenCancelsMoves ==
  ASSUME ShapeOK, NEW c \in Callers, FlattenCancels(c) PROVE RestingMoves(Keys)
<1>1. PICK gone \in SUBSET {k \in Keys : market[k].status = "OPEN"} :
        market' = [k \in Keys |->
              IF k \in gone THEN [market[k] EXCEPT !.status = "CANCELLED"] ELSE market[k]]
  BY DEF FlattenCancels
<1>2. ASSUME NEW j \in Keys
      PROVE  \/ market'[j] = market[j]
             \/ /\ market[j].status = "OPEN" /\ market'[j].status \in {"COMPLETE", "CANCELLED"}
                /\ market'[j].sent = market[j].sent
  <2>1. market[j] \in Market
    BY DEF ShapeOK
  <2>2. CASE j \in gone
    BY <1>1, <1>2, <2>1, <2>2 DEF Market
  <2>3. CASE j \notin gone
    BY <1>1, <1>2, <2>1, <2>3
  <2>. QED
    BY <2>2, <2>3
<1>. QED
  BY <1>2 DEF RestingMoves

LEMMA FlattenPlacesMoves ==
  ASSUME ShapeOK, NEW c \in Callers, FlattenPlaces(c) PROVE RestingMoves(Signals)
<1>1. calls[c].key \in FlatKeys /\ calls[c].key \in Keys /\ Taken(calls[c].key)
  BY NamesDiffer DEF FlattenPlaces, At, ShapeOK, CallsOK
<1>2. \A j \in Keys : j # calls[c].key => market'[j] = market[j]
  BY <1>1, TakenMoves
<1>. QED
  BY <1>1, <1>2, NamesDiffer, FlatAssumption DEF RestingMoves

LEMMA OthersBooks ==
  ASSUME ServiceInv, BooksInv, NEW c \in Callers,
         \/ SendCancel(c) \/ FlattenCancels(c) \/ FlattenReads(c) \/ FlattenPlaces(c) \/ Call(c)
  PROVE  (RowsOK /\ OwnersOK)' /\ UNCHANGED <<booked, cash>>
<1>. USE DEF OwnSteps, SignalSteps
<1>1. ShapeOK /\ CallsOK /\ RowsOK /\ OwnersOK
  BY DEF ServiceInv, ShapeOK, BooksInv
<1>2. UNCHANGED <<rows, booked, cash>>
  BY DEF SendCancel, FlattenCancels, FlattenReads, FlattenPlaces, Call, Submit, StartCancel, Flatten,
         durable
<1>3. RestingMoves(Signals)
  <2>1. CASE FlattenReads(c) \/ Call(c)
    BY <2>1 DEF FlattenReads, Call, Submit, StartCancel, Flatten, RestingMoves
  <2>. QED
    BY <1>1, <2>1, SendCancelMoves, FlattenCancelsMoves, FlattenPlacesMoves, SignalsMove
<1>4. ASSUME NEW f, Go(c, f), f.at \notin OwnSteps
      PROVE  \A d \in Callers : calls'[d] = calls[d] \/ calls'[d].at \notin OwnSteps
  BY <1>1, <1>4 DEF Go, CallsOK
<1>5. \A d \in Callers : calls'[d] = calls[d] \/ calls'[d].at \notin OwnSteps
  <2>1. CASE Answer(c)
    BY <1>4, <2>1, IdleShape DEF Answer
  <2>2. ASSUME NEW s \in {"flatRead", "flatCancel"}, Proceed(c, s)
        PROVE  \A d \in Callers : calls'[d] = calls[d] \/ calls'[d].at \notin OwnSteps
    <3>1. calls'[c].at = s /\ \A d \in Callers : d # c => calls'[d] = calls[d]
      BY <1>1, <2>2, ProceedKeeps DEF Steps
    <3>. QED
      BY <2>2, <3>1
  <2>3. ASSUME NEW q, Go(c, [Flattening EXCEPT !.key = q]) \/ Go(c, [Cancelling EXCEPT !.key = q])
        PROVE  \A d \in Callers : calls'[d] = calls[d] \/ calls'[d].at \notin OwnSteps
    <3>1. [Flattening EXCEPT !.key = q].at = "flatPlace" /\ [Cancelling EXCEPT !.key = q].at = "cancel"
      BY DEF Flattening, Cancelling, Idle
    <3>. DEFINE f == [Flattening EXCEPT !.key = q]
                g == [Cancelling EXCEPT !.key = q]
    <3>. HIDE DEF f, g
    <3>. QED
      BY <1>4, <2>3, <3>1 DEF f, g
  <2>4. ASSUME NEW k, Submit(c, k)
        PROVE  \A d \in Callers : calls'[d] = calls[d] \/ calls'[d].at \notin OwnSteps
    <3>. DEFINE f == [at |-> "claim", key |-> k, why |-> "none", stopped |-> switch \/ userStop]
    <3>1. f.at = "claim" /\ (Go(c, f) \/ UNCHANGED calls)
      BY <2>4 DEF Submit
    <3>. HIDE DEF f
    <3>. QED
      BY <1>4, <3>1
  <2>5. CASE SendCancel(c) \/ FlattenPlaces(c)
    BY <2>1, <2>5 DEF SendCancel, FlattenPlaces
  <2>6. CASE FlattenCancels(c)
    BY <2>2, <2>6 DEF FlattenCancels
  <2>7. CASE FlattenReads(c)
    BY <2>1, <2>3, <2>7 DEF FlattenReads
  <2>8. CASE Call(c)
    <3>1. ASSUME NEW k \in Stops, StartCancel(c, k)
          PROVE  \A d \in Callers : calls'[d] = calls[d] \/ calls'[d].at \notin OwnSteps
      BY <2>3, <3>1 DEF StartCancel
    <3>2. ASSUME NEW o \in BOOLEAN, Flatten(c, o)
          PROVE  \A d \in Callers : calls'[d] = calls[d] \/ calls'[d].at \notin OwnSteps
      BY <2>2, <3>2 DEF Flatten
    <3>. QED
      BY <2>4, <2>8, <3>1, <3>2 DEF Call
  <2>. QED
    BY <2>5, <2>6, <2>7, <2>8
<1>. QED
  BY <1>1, <1>2, <1>3, <1>5, OthersMove DEF RestingMoves

LEMMA StillBooks ==
  ASSUME ServiceInv, BooksInv, UNCHANGED <<rows, booked, cash>>, RestingMoves(Signals),
         \A d \in Callers : calls'[d] = calls[d] \/ calls'[d].at \notin OwnSteps
  PROVE  (RowsOK /\ OwnersOK /\ CashOK)'
<1>1. CallsOK /\ RowsOK /\ OwnersOK /\ CashOK
  BY DEF ServiceInv, ShapeOK, BooksInv
<1>2. CashOK'
  BY <1>1 DEF CashOK
<1>. QED
  BY <1>1, <1>2, OthersMove DEF RestingMoves

LEMMA StepBooks ==
  ASSUME ServiceInv, BooksInv, "store" \notin Faults, NEW c \in Callers, Step(c) \/ Call(c)
  PROVE  (RowsOK /\ OwnersOK /\ CashOK)'
<1>1. CASE Sync(c)
  BY <1>1, SyncBooks
<1>2. CASE ~Sync(c)
  <2>1. (RowsOK /\ OwnersOK)' /\ UNCHANGED <<booked, cash>>
    BY <1>2, ClaimBooks, GatesBooks, PlaceBooks, ReplyBooks, ResolveBooks, RecordBlockBooks, AttachBooks,
       OthersBooks DEF Step
  <2>. QED
    BY <2>1 DEF BooksInv, CashOK
<1>. QED
  BY <1>1, <1>2

LEMMA SystemStep ==
  ASSUME BooksInv,
         \/ \E c \in Callers : Step(c) \/ Call(c)
         \/ \E k \in Keys : Execute(k)
         \/ Activate \/ Deactivate \/ Restart \/ OpenGate \/ UNCHANGED vars
  PROVE  SystemOK'
<1>1. SystemOK
  BY DEF BooksInv
<1>2. CASE Restart
  BY <1>1, <1>2 DEF Restart, SystemOK
<1>3. CASE OpenGate
  BY <1>1, <1>3 DEF OpenGate, SystemOK
<1>4. CASE ~Restart /\ ~OpenGate
  <2>1. UNCHANGED system
    BY <1>4 DEF Step, Call, Claim, Gates, Place, Reply, Resolve, RecordBlock, Attach, Sync, SendCancel,
       FlattenCancels, FlattenReads, FlattenPlaces, Submit, StartCancel, Flatten, Execute, Activate,
       Deactivate, vars, system
  <2>. QED
    BY <1>1, <2>1 DEF SystemOK, system
<1>. QED
  BY <1>2, <1>3, <1>4

LEMMA NextBooks ==
  ASSUME "store" \notin Faults, ServiceInv, BooksInv, [Next]_vars
  PROVE  BooksInv'
<1>1. SystemOK'
  BY SystemStep DEF Next
<1>2. ASSUME NEW k \in Keys, Execute(k) PROVE (RowsOK /\ OwnersOK /\ CashOK)'
  BY <1>2, ExecuteMoves, SignalsMove, StillBooks DEF ServiceInv, Execute, durable
<1>3. CASE Activate \/ Deactivate \/ OpenGate \/ UNCHANGED vars
  <2>1. UNCHANGED <<rows, booked, cash, market, calls>>
    BY <1>3 DEF Activate, Deactivate, OpenGate, vars, durable
  <2>. QED
    BY <1>1, <2>1, StillBooks DEF RestingMoves, BooksInv
<1>4. CASE Restart
  <2>1. UNCHANGED <<rows, booked, cash, market>> /\ calls' = [c \in Callers |-> Idle]
    BY <1>4 DEF Restart, durable
  <2>2. \A c \in Callers : calls'[c].at \notin OwnSteps
    BY <2>1, IdleShape DEF OwnSteps, SignalSteps
  <2>. QED
    BY <1>1, <2>1, <2>2, StillBooks DEF RestingMoves, BooksInv
<1>. QED
  BY <1>1, <1>2, <1>3, <1>4, StepBooks DEF Next, BooksInv

(* While the order store can be written, the database tells the truth about   *)
(* the broker whatever else fails: the transaction that books a trade and     *)
(* moves the cash (persistence.py, _apply_fill) runs once for an order, and   *)
(* only for one that traded.                                                *)
THEOREM BooksTold ==
  ASSUME "store" \notin Faults
  PROVE  Spec => []BooksAreTrue
<1>1. BooksInv /\ ServiceInv /\ [Next]_vars => BooksInv'
  BY NextBooks
<1>. QED
  BY <1>1, InitService, NextService, InitBooks, BooksTrue, PTL DEF Spec

-----------------------------------------------------------------------------
(* A verdict of READY                                                       *)

(* Records that outlive the process: a flatten order is sent once.          *)
DurableRecords == \A d \in Modes : d.redis

(* An order is placed once, moves from resting to its end, and stays there.  *)
OrdersMove ==
    \A j \in Keys :
       \/ market'[j] = market[j]
       \/ market[j].sent = 0 /\ market'[j].sent > 0
       \/ /\ market[j].status = "OPEN" /\ market'[j].status \in {"COMPLETE", "CANCELLED"}
          /\ market'[j].sent = market[j].sent

LEMMA RestingOrders == RestingMoves(Keys) => OrdersMove
BY DEF RestingMoves, OrdersMove

LEMMA PlacedMoves ==
  ASSUME ServiceInv, DurableRecords, NEW c \in Callers, Place(c) \/ FlattenPlaces(c)
  PROVE  OrdersMove
<1>1. ShapeOK /\ CallsOK /\ deployment.redis
  BY DEF ServiceInv, ShapeOK, DurableRecords
<1>2. calls[c].key \in Keys /\ market[calls[c].key].sent = 0 /\ (Taken(calls[c].key) \/ UNCHANGED market)
  BY <1>1, NamesDiffer DEF Place, FlattenPlaces, At, CallsOK, SignalSteps, ServiceInv, OnceInv, FlatInv,
     PlacingSteps
<1>3. CASE Taken(calls[c].key)
  <2>1. /\ market'[calls[c].key].sent = market[calls[c].key].sent + 1
        /\ \A j \in Keys : j # calls[c].key => market'[j] = market[j]
    BY <1>1, <1>2, <1>3, TakenMoves
  <2>. QED
    BY <1>2, <2>1 DEF OrdersMove
<1>. QED
  BY <1>2, <1>3 DEF OrdersMove

LEMMA ServeMoves ==
  ASSUME ServiceInv, DurableRecords, Serve
  PROVE  OrdersMove
<1>1. ShapeOK
  BY DEF ServiceInv
<1>2. ASSUME NEW c \in Callers, Step(c) \/ Call(c) PROVE OrdersMove
  <2>1. CASE Place(c) \/ FlattenPlaces(c)
    BY <2>1, PlacedMoves
  <2>2. CASE SendCancel(c) \/ FlattenCancels(c)
    BY <1>1, <2>2, SendCancelMoves, FlattenCancelsMoves, RestingOrders
  <2>3. CASE UNCHANGED market
    BY <2>3 DEF OrdersMove
  <2>. QED
    BY <1>2, <2>1, <2>2, <2>3 DEF Step, Call, Claim, Gates, Reply, Resolve, RecordBlock, Attach, Sync,
       FlattenReads, Submit, StartCancel, Flatten
<1>3. ASSUME NEW k \in Keys, Execute(k) PROVE OrdersMove
  BY <1>1, <1>3, ExecuteMoves, RestingOrders
<1>4. CASE Activate
  BY <1>4 DEF Activate, OrdersMove
<1>. QED
  BY <1>2, <1>3, <1>4 DEF Serve

Fields == {"phase", "next", "missing", "positions", "orders", "trades", "cash", "verified", "began",
           "resting", "halted"}

Recovering == {"load", "query", "judge", "resolve"}

(* Where the recovery is, and how far its queries are.                      *)
PhaseOK(r, g) ==
    /\ DOMAIN r = Fields /\ r.phase \in Phases
    /\ g = "READY" => r.phase = "done"
    /\ g = "RECOVERING" <=> r.phase \in Recovering
    /\ r.phase = "query" => r.next \in 1..4
    /\ r.phase = "judge" => r.next = 5

(* What had traded still has, what rested was sent; and what the queries said *)
(* covers what there was when the recovery began and is not ahead of the     *)
(* broker.                                                                  *)
ReadOK(r, m) ==
    /\ \A k \in Keys : m[k].sent = 0 => m[k].status = "none"
    /\ r.began \subseteq {k \in Keys : m[k].status = "COMPLETE"}
    /\ \A k \in r.resting : k \in Keys /\ m[k].sent > 0
    /\ r.phase \in {"query", "judge"} /\ r.missing = {} =>
         /\ r.next > 2 => \A k \in r.resting : m[k].status = "OPEN" => r.orders[k] = "OPEN"
         /\ r.next > 3 => /\ r.began \subseteq r.trades
                          /\ r.trades \subseteq {k \in Keys : m[k].status = "COMPLETE"}

AgreeInv == PhaseOK(recovery, gate) /\ ReadOK(recovery, market)

LEMMA StartedFields ==
  ASSUME NEW h
  PROVE  LET s == Started(h)
             f == [s EXCEPT !.phase = "done"]
         IN  /\ DOMAIN s = Fields /\ s.phase = "connect" /\ s.began = {} /\ s.resting = {}
             /\ DOMAIN f = Fields /\ f.phase = "done" /\ f.began = {} /\ f.resting = {}
BY DEF Started, Fields

LEMMA InitAgree == StartupInit => AgreeInv
<1>. SUFFICES ASSUME StartupInit PROVE AgreeInv
  OBVIOUS
<1>1. recovery = Started(FALSE) /\ gate = "BLOCKED" /\ \A k \in Keys : market[k].status = "none"
  BY DEF StartupInit, Init
<1>. QED
  BY <1>1, StartedFields DEF AgreeInv, PhaseOK, ReadOK, Phases, Recovering

(* The orders move on; the recovery waits.                                  *)
LEMMA OrdersAgree ==
  ASSUME ShapeOK, AgreeInv, OrdersMove, UNCHANGED <<recovery, gate>>
  PROVE  AgreeInv'
<1>1. ReadOK(recovery, market) /\ PhaseOK(recovery, gate)
  BY DEF AgreeInv
<1>2. \A k \in Keys : market'[k].sent = 0 => market'[k].status = "none"
  BY <1>1 DEF ReadOK, OrdersMove
<1>3. \A k \in Keys : market[k].status = "COMPLETE" => market'[k].status = "COMPLETE"
  BY <1>1 DEF ReadOK, OrdersMove
<1>4. \A k \in Keys : market[k].sent > 0 => market'[k].sent > 0
                        /\ (market'[k].status = "OPEN" => market[k].status = "OPEN")
  BY <1>1 DEF ReadOK, OrdersMove
<1>. QED
  BY <1>1, <1>2, <1>3, <1>4 DEF AgreeInv, ReadOK

LEMMA ConnectAgree ==
  ASSUME ShapeOK, AgreeInv, Connect
  PROVE  AgreeInv'
<1>1. market' = market /\ PhaseOK(recovery, gate) /\ ReadOK(recovery, market)
  BY DEF Connect, frame, AgreeInv
<1>2. CASE /\ gate' = "RECOVERING"
           /\ recovery' = [recovery EXCEPT !.phase = "load", !.began = Traded, !.resting = Resting]
  <2>1. /\ DOMAIN recovery' = Fields /\ recovery'.phase = "load" /\ recovery'.began = Traded
        /\ recovery'.resting = Resting
    BY <1>1, <1>2 DEF PhaseOK, Fields
  <2>2. \A k \in Keys : market[k].sent \in Nat
    BY MarketFields
  <2>. QED
    BY <1>1, <1>2, <2>1, <2>2 DEF AgreeInv, PhaseOK, ReadOK, Phases, Recovering, Traded, Resting
<1>3. CASE gate' = "BLOCKED" /\ Finish(recovery.halted)
  BY <1>1, <1>3, StartedFields DEF Finish, AgreeInv, PhaseOK, ReadOK, Phases, Recovering
<1>. QED
  BY <1>2, <1>3 DEF Connect

LEMMA LoadAgree ==
  ASSUME AgreeInv, LoadLocal
  PROVE  AgreeInv'
<1>1. market' = market /\ gate' = gate /\ recovery.phase = "load" /\ PhaseOK(recovery, gate)
      /\ ReadOK(recovery, market)
  BY DEF LoadLocal, frame, AgreeInv
<1>2. PICK gone : recovery' = [recovery EXCEPT !.phase = "query", !.next = 1, !.missing = gone]
  BY DEF LoadLocal
<1>3. /\ DOMAIN recovery' = Fields /\ recovery'.phase = "query" /\ recovery'.next = 1
      /\ recovery'.began = recovery.began /\ recovery'.resting = recovery.resting
  BY <1>1, <1>2 DEF PhaseOK, Fields
<1>. QED
  BY <1>1, <1>3 DEF AgreeInv, PhaseOK, ReadOK, Phases, Recovering

(* One reply: the orders are the second, the trades the third.              *)
LEMMA QueryReads ==
  ASSUME AgreeInv, QueryBroker
  PROVE  /\ DOMAIN recovery' = Fields /\ recovery.next \in 1..4 /\ recovery'.next = recovery.next + 1
         /\ recovery'.phase = IF recovery.next = 4 THEN "judge" ELSE "query"
         /\ recovery'.began = recovery.began /\ recovery'.resting = recovery.resting
         /\ recovery'.missing = {} =>
              /\ recovery.missing = {}
              /\ recovery'.orders = IF recovery.next = 2 THEN [k \in Keys |-> market[k].status]
                                    ELSE recovery.orders
              /\ recovery'.trades = IF recovery.next = 3 THEN Traded ELSE recovery.trades
<1>1. DOMAIN recovery = Fields /\ recovery.next \in 1..4
  BY DEF AgreeInv, PhaseOK, QueryBroker
<1>2. Len(Sources) = 4 /\ Sources[1] = "positions" /\ Sources[2] = "orders" /\ Sources[3] = "trades"
      /\ Sources[4] = "cash"
  BY DEF Sources
<1>3. ASSUME NEW r, DOMAIN r = Fields, r.next = recovery.next
      PROVE  LET q == Moved(r)
             IN  /\ DOMAIN q = Fields /\ q.next = recovery.next + 1
                 /\ q.phase = IF recovery.next = 4 THEN "judge" ELSE "query"
                 /\ q.began = r.began /\ q.resting = r.resting /\ q.missing = r.missing
                 /\ q.orders = r.orders /\ q.trades = r.trades
  BY <1>2, <1>3 DEF Moved, Fields
<1>4. CASE recovery' = Moved(ReplyOf(Sources[recovery.next]))
  <2>. DEFINE r == ReplyOf(Sources[recovery.next])
  <2>1. /\ DOMAIN r = Fields /\ r.next = recovery.next /\ r.began = recovery.began
        /\ r.resting = recovery.resting /\ r.missing = recovery.missing
        /\ r.orders = IF recovery.next = 2 THEN [k \in Keys |-> market[k].status] ELSE recovery.orders
        /\ r.trades = IF recovery.next = 3 THEN Traded ELSE recovery.trades
    <3>1. CASE recovery.next = 1
      BY <1>1, <1>2, <3>1 DEF ReplyOf, Fields
    <3>2. CASE recovery.next = 2
      BY <1>1, <1>2, <3>2 DEF ReplyOf, Fields
    <3>3. CASE recovery.next = 3
      BY <1>1, <1>2, <3>3 DEF ReplyOf, Fields
    <3>4. CASE recovery.next = 4
      BY <1>1, <1>2, <3>4 DEF ReplyOf, Fields
    <3>5. recovery.next = 1 \/ recovery.next = 2 \/ recovery.next = 3 \/ recovery.next = 4
      BY <1>1
    <3>. QED
      BY <3>1, <3>2, <3>3, <3>4, <3>5
  <2>. HIDE DEF r
  <2>. QED
    BY <1>1, <1>3, <1>4, <2>1 DEF r
<1>5. CASE recovery' = Moved([recovery EXCEPT !.missing = @ \cup {"broker"}])
  <2>. DEFINE r == [recovery EXCEPT !.missing = @ \cup {"broker"}]
  <2>1. /\ DOMAIN r = Fields /\ r.next = recovery.next /\ r.began = recovery.began
        /\ r.resting = recovery.resting /\ "broker" \in r.missing
    BY <1>1 DEF Fields
  <2>. HIDE DEF r
  <2>. QED
    BY <1>1, <1>3, <1>5, <2>1 DEF r
<1>. QED
  BY <1>4, <1>5 DEF QueryBroker

LEMMA QueryAgree ==
  ASSUME AgreeInv, QueryBroker
  PROVE  AgreeInv'
<1>1. market' = market /\ gate' = gate /\ recovery.phase = "query" /\ PhaseOK(recovery, gate)
      /\ ReadOK(recovery, market)
  BY DEF QueryBroker, frame, AgreeInv
<1>2. PhaseOK(recovery', gate)
  BY <1>1, QueryReads DEF PhaseOK, Phases, Recovering
<1>3. ASSUME recovery'.missing = {}, recovery'.next > 2, NEW k \in recovery'.resting, market[k].status = "OPEN"
      PROVE  recovery'.orders[k] = "OPEN"
  <2>1. k \in Keys /\ k \in recovery.resting
    BY <1>1, <1>3, QueryReads DEF ReadOK
  <2>2. CASE recovery.next = 2
    BY <1>3, <2>1, <2>2, QueryReads
  <2>3. CASE recovery.next # 2
    BY <1>1, <1>3, <2>1, <2>3, QueryReads DEF ReadOK
  <2>. QED
    BY <2>2, <2>3
<1>4. ASSUME recovery'.missing = {}, recovery'.next > 3
      PROVE  recovery'.began \subseteq recovery'.trades /\ recovery'.trades \subseteq Traded
  <2>1. recovery.began \subseteq Traded
    BY <1>1 DEF ReadOK, Traded
  <2>2. CASE recovery.next = 3
    BY <1>4, <2>1, <2>2, QueryReads
  <2>3. CASE recovery.next # 3
    BY <1>1, <1>4, <2>3, QueryReads DEF ReadOK, Traded
  <2>. QED
    BY <2>2, <2>3
<1>5. ReadOK(recovery', market)
  BY <1>1, <1>3, <1>4, QueryReads DEF ReadOK, Traded
<1>. QED
  BY <1>1, <1>2, <1>5 DEF AgreeInv

LEMMA LaterAgree ==
  ASSUME AgreeInv, Judge \/ ResolveSafely \/ Halt
  PROVE  AgreeInv'
<1>1. market' = market /\ PhaseOK(recovery, gate) /\ ReadOK(recovery, market)
  BY DEF Judge, ResolveSafely, Halt, frame, AgreeInv
<1>2. ASSUME NEW h, Finish(h), gate' # "RECOVERING" PROVE AgreeInv'
  BY <1>1, <1>2, StartedFields DEF Finish, AgreeInv, PhaseOK, ReadOK, Phases, Recovering
<1>3. ASSUME NEW p \in {"load", "resolve", "halt"},
             Enter(p) \/ recovery' = [recovery EXCEPT !.phase = p, !.verified = TRUE],
             gate' # "READY", gate' = "RECOVERING" <=> p \in Recovering
      PROVE  AgreeInv'
  <2>1. /\ DOMAIN recovery' = Fields /\ recovery'.phase = p
        /\ recovery'.began = recovery.began /\ recovery'.resting = recovery.resting
    BY <1>1, <1>3 DEF Enter, PhaseOK, Fields
  <2>. QED
    BY <1>1, <1>3, <2>1 DEF AgreeInv, PhaseOK, ReadOK, Phases, Recovering
<1>4. CASE Judge
  <2>1. gate = "RECOVERING"
    BY <1>1, <1>4 DEF Judge, PhaseOK, Recovering
  <2>. QED
    BY <1>2, <1>3, <1>4, <2>1 DEF Judge, Recovering
<1>5. CASE ResolveSafely
  <2>1. gate = "RECOVERING"
    BY <1>1, <1>5 DEF ResolveSafely, PhaseOK, Recovering
  <2>. QED
    BY <1>3, <1>5, <2>1 DEF ResolveSafely, Recovering
<1>6. CASE Halt
  <2>1. gate' = gate /\ gate # "RECOVERING"
    BY <1>1, <1>6 DEF Halt, PhaseOK, Recovering
  <2>. QED
    BY <1>2, <1>6, <2>1 DEF Halt
<1>. QED
  BY <1>4, <1>5, <1>6

LEMMA NextAgree ==
  ASSUME DurableRecords, ServiceInv, AgreeInv, [StartupNext]_allVars
  PROVE  AgreeInv'
<1>1. ShapeOK /\ PhaseOK(recovery, gate) /\ ReadOK(recovery, market)
  BY DEF ServiceInv, AgreeInv
<1>2. CASE Start
  <2>1. market' = market /\ gate' = "BLOCKED" /\ recovery' = Started(recovery.halted /\ deployment.redis)
    BY <1>2 DEF Start, Restart
  <2>. QED
    BY <1>1, <2>1, StartedFields DEF AgreeInv, PhaseOK, ReadOK, Phases, Recovering
<1>3. CASE Release
  <2>1. UNCHANGED <<market, gate>> /\ recovery' = [recovery EXCEPT !.halted = FALSE]
    BY <1>3 DEF Release, Deactivate, system
  <2>2. /\ DOMAIN recovery' = Fields /\ recovery'.phase = recovery.phase /\ recovery'.next = recovery.next
        /\ recovery'.missing = recovery.missing /\ recovery'.orders = recovery.orders
        /\ recovery'.trades = recovery.trades
        /\ recovery'.began = recovery.began /\ recovery'.resting = recovery.resting
    BY <1>1, <2>1 DEF PhaseOK, Fields
  <2>. QED
    BY <1>1, <2>1, <2>2 DEF AgreeInv, PhaseOK, ReadOK
<1>4. CASE Serve /\ UNCHANGED recovery
  <2>1. UNCHANGED gate
    BY <1>4 DEF Serve, Step, Call, Claim, Gates, Place, Reply, Resolve, RecordBlock, Attach, Sync, SendCancel,
       FlattenCancels, FlattenReads, FlattenPlaces, Submit, StartCancel, Flatten, Execute, Activate, system
  <2>. QED
    BY <1>1, <1>4, <2>1, ServeMoves, OrdersAgree
<1>5. CASE UNCHANGED allVars
  BY <1>5 DEF allVars, vars, AgreeInv
<1>. QED
  BY <1>1, <1>2, <1>3, <1>4, <1>5, ConnectAgree, LoadAgree, QueryAgree, LaterAgree DEF StartupNext, Recover

(* A verdict of OK found nothing missing and nothing different.              *)
LEMMA VerdictAgrees ==
  ASSUME ServiceInv, AgreeInv, recovery.phase = "judge", Classify = "OK"
  PROVE  /\ recovery.began \subseteq booked
         /\ booked \subseteq Traded
         /\ \A k \in recovery.resting \cap Resting : k \in Signals /\ rows[k].attached
         /\ \A k \in Signals : rows[k].status \in {"none", "OPEN", "COMPLETE", "REJECTED", "CANCELLED"}
<1>1. Comparable /\ Discrepancies = {}
  BY DEF Classify
<1>2. recovery.missing = {} /\ ReconcileOrders = {} /\ ReconcileFills = {} /\ IdentifyUnknown = {}
  BY <1>1 DEF Comparable, Discrepancies
<1>3. recovery.trades = booked
  BY <1>2 DEF ReconcileFills
<1>4. recovery.next = 5 /\ ReadOK(recovery, market)
  BY DEF AgreeInv, PhaseOK
<1>5. recovery.began \subseteq booked /\ booked \subseteq Traded
  BY <1>2, <1>3, <1>4 DEF ReadOK, Traded
<1>6. ASSUME NEW k \in recovery.resting \cap Resting PROVE k \in Signals /\ rows[k].attached
  <2>. k \in recovery.resting /\ k \in Resting
    BY <1>6
  <2>0. k \in Keys /\ market[k].status = "OPEN"
    BY DEF Resting
  <2>1. k \in Keys /\ market[k].status = "OPEN" /\ recovery.orders[k] = "OPEN"
    <3>1. recovery.next > 2 => \A j \in recovery.resting : market[j].status = "OPEN" => recovery.orders[j] = "OPEN"
      BY <1>2, <1>4 DEF ReadOK
    <3>2. recovery.next > 2
      BY <1>4
    <3>. QED
      BY <2>0, <3>1, <3>2
  <2>2. Classified("OPEN") = "open"
    BY DEF Classified, OpenStatuses, TerminalStatuses
  <2>. QED
    BY <1>2, <2>1, <2>2 DEF ReconcileOrders
<1>7. ASSUME NEW k \in Signals PROVE rows[k].status \in {"none", "OPEN", "COMPLETE", "REJECTED", "CANCELLED"}
  BY <1>2 DEF IdentifyUnknown, UnknownRows, Classified, OpenStatuses, TerminalStatuses
<1>. QED
  BY <1>5, <1>6, <1>7

(* Trading is permitted after a start only when the database and the broker   *)
(* agree, though the broker's four replies are of four moments                *)
(* (reconciliation.py, fetch_broker; recovery.py, _finish).                  *)
THEOREM ReadyAgrees ==
  ASSUME DurableRecords
  PROVE  StartupSpec => ReadyMeansAgreed
<1>. DEFINE Agreed ==
        gate' = "READY" /\ gate # "READY" =>
          /\ recovery.began \subseteq booked
          /\ booked \subseteq Traded
          /\ \A k \in recovery.resting \cap Resting : k \in Signals /\ rows[k].attached
          /\ \A k \in Signals : rows[k].status \in {"none", "OPEN", "COMPLETE", "REJECTED", "CANCELLED"}
<1>1. StartupInv => ServiceInv
  BY DEF StartupInv
<1>2. ServiceInv /\ AgreeInv /\ [StartupNext]_allVars => AgreeInv'
  BY NextAgree
<1>3. ASSUME ServiceInv, AgreeInv, [StartupNext]_allVars PROVE [Agreed]_allVars
  <2>. SUFFICES ASSUME gate' = "READY", gate # "READY" PROVE recovery.phase = "judge" /\ Classify = "OK"
    BY <1>3, VerdictAgrees
  <2>1. Judge
    BY <1>3 DEF StartupNext, Recover, Connect, LoadLocal, QueryBroker, ResolveSafely, Halt, Start, Restart,
       Release, Deactivate, Serve, Step, Call, Claim, Gates, Place, Reply, Resolve, RecordBlock, Attach,
       Sync, SendCancel, FlattenCancels, FlattenReads, FlattenPlaces, Submit, StartCancel, Flatten, Execute,
       Activate, system, frame, allVars, vars
  <2>. QED
    BY <2>1 DEF Judge
<1>4. ServiceInv /\ AgreeInv /\ [StartupNext]_allVars => [Agreed]_allVars
  BY <1>3
<1>. HIDE DEF Agreed
<1>5. StartupSpec => [][Agreed]_allVars
  BY <1>1, <1>2, <1>4, InitStartup, NextStartup, InitAgree, PTL DEF StartupSpec
<1>. QED
  BY <1>5 DEF ReadyMeansAgreed, Agreed
=============================================================================
