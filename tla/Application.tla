------------------------------ MODULE Application ------------------------------
(***************************************************************************)
(* The life of the API process (main.py, lifespan): the execution stack is     *)
(* built, the intraday loop is armed over the mock feed, both run side by side  *)
(* with the requests, and on shutdown the loop ends before the stack it sends   *)
(* orders through is released.  The feed writes minute bars from which the      *)
(* trader decides and the paper broker fills (broker/tickdata.py).             *)
(***************************************************************************)
EXTENDS Integers, FiniteSets, Sequences

CONSTANTS
    Universe,           \* the symbols traded
    Prices,             \* the prices a tick may have
    Days, Minutes,      \* bounds on the sessions and the minutes of one
    MaxTicks,           \* bound on the ticks of a session
    AutoTrade           \* auto_trade_enabled and the switches beside it

ASSUME ApplicationAssumption == Prices \subseteq Int /\ Minutes \in Nat \ {0}

VARIABLES
    phase,      \* where the lifespan is
    stack,      \* the execution stack
    source,     \* where the paper broker takes its prices from
    stop,       \* the stop event
    feed,       \* the task of the feed
    trader,     \* the task of the trader
    now,        \* <<day, minute>>
    bars,       \* the aggregator's bars: per symbol, by minute
    session,    \* the aggregator's session date, 0 before the first tick
    ticks       \* the ticks of the day so far, per symbol and minute

appVars == <<phase, stack, source, stop, feed, trader, now, bars, session, ticks>>
lifespan == <<phase, stack, source, stop>>
prices == <<bars, session, ticks>>

NoBars == [s \in Universe |-> [m \in {} |-> {}]]
NoTicks == [s \in Universe |-> [m \in 1..Minutes |-> <<>>]]

AppInit ==
    /\ phase = "off" /\ stack = "none" /\ source = "provider" /\ stop = FALSE
    /\ feed = "none" /\ trader = "none" /\ now = <<1, 1>>
    /\ bars = NoBars /\ session = 0 /\ ticks = NoTicks

Launch ==
    /\ phase = "off"
    /\ phase' = "starting"
    /\ UNCHANGED <<stack, source, stop, feed, trader, now, prices>>

(* build_production_stack, or nothing half-configured if it fails.              *)
BuildStack ==
    /\ phase = "starting"
    /\ phase' = "arming" /\ stack' \in {"open", "none"}
    /\ UNCHANGED <<source, stop, feed, trader, now, prices>>

(* The loop is armed if every switch says so and there is a stack; a failure     *)
(* after the broker's prices were swapped leaves them swapped.               *)
Arm ==
    /\ phase = "arming"
    /\ phase' = "serving"
    /\ \/ /\ AutoTrade /\ stack = "open"
          /\ source' = "ticks" /\ feed' = "waiting" /\ trader' = "waiting"
       \/ /\ AutoTrade /\ stack = "open"
          /\ source' \in {"provider", "ticks"} /\ UNCHANGED <<feed, trader>>
       \/ ~(AutoTrade /\ stack = "open") /\ UNCHANGED <<source, feed, trader>>
    /\ UNCHANGED <<stack, stop, now, prices>>

-----------------------------------------------------------------------------
(* The feed and the aggregator                                               *)

(* _ensure_session: the first tick of another date clears every symbol's bars.   *)
Kept(s) == IF session \in {0, now[1]} THEN bars ELSE NoBars

(* on_tick: the minute's bar opens with the tick or takes it in.              *)
Folded(bar, price) ==
    [open |-> bar.open, high |-> IF price > bar.high THEN price ELSE bar.high,
     low |-> IF price < bar.low THEN price ELSE bar.low, close |-> price,
     volume |-> bar.volume + 1, day |-> bar.day]
OnTick(s, price) ==
    LET kept == Kept(s)
        m == now[2]
        opened == [open |-> price, high |-> price, low |-> price, close |-> price,
                   volume |-> 1, day |-> now[1]]
        bar == IF m \in DOMAIN kept[s] THEN Folded(kept[s][m], price) ELSE opened
    IN /\ bars' = [kept EXCEPT ![s] = [x \in DOMAIN @ \cup {m} |-> IF x = m THEN bar ELSE @[x]]]
       /\ session' = now[1]
       /\ ticks' = [ticks EXCEPT ![s][m] = Append(@, price)]

Count == Cardinality({t \in Universe \X (1..Minutes) \X (1..MaxTicks) :
                         t[3] <= Len(ticks[t[1]][t[2]])})
FeedTick ==
    /\ feed = "waiting" /\ ~stop
    /\ \E s \in Universe, price \in Prices :
         Count < MaxTicks /\ OnTick(s, price)
    /\ UNCHANGED <<lifespan, feed, trader, now>>

Clock ==
    /\ phase = "serving"
    /\ now' = IF now[2] < Minutes THEN <<now[1], now[2] + 1>> ELSE <<now[1] + 1, 1>>
    /\ now[2] = Minutes => now[1] < Days
    /\ ticks' = IF now[2] = Minutes THEN NoTicks ELSE ticks
    /\ UNCHANGED <<lifespan, feed, trader, bars, session>>

-----------------------------------------------------------------------------
(* The trader's task                                                        *)

(* A cycle begins if the stop event is not set by then, and waits inside for      *)
(* the broker and the service; an exception does not end the loop.            *)
CycleBegins ==
    /\ trader = "waiting" /\ ~stop
    /\ trader' = "cycle"
    /\ UNCHANGED <<lifespan, feed, now, prices>>

CycleEnds ==
    /\ trader = "cycle"
    /\ trader' = "waiting"
    /\ UNCHANGED <<lifespan, feed, now, prices>>

TasksSeeStop ==
    /\ stop
    /\ \/ feed = "waiting" /\ feed' = "ended" /\ UNCHANGED trader
       \/ trader = "waiting" /\ trader' = "ended" /\ UNCHANGED feed
    /\ UNCHANGED <<lifespan, now, prices>>

-----------------------------------------------------------------------------
(* Shutdown                                                                 *)

Stop ==
    /\ phase = "serving"
    /\ phase' = "stopping" /\ stop' = (trader # "none")
    /\ UNCHANGED <<stack, source, feed, trader, now, prices>>

(* Slip: the tasks are told to stop, not waited for.                         *)
CloseStackAtOnce ==
    /\ phase = "stopping"
    /\ phase' = "disposing" /\ stack' = IF stack = "open" THEN "closed" ELSE stack
    /\ UNCHANGED <<source, stop, feed, trader, now, prices>>

(* gather waits for both tasks, for as long as they take; then the stack closes.  *)
CloseStack ==
    /\ phase = "stopping" /\ feed \in {"none", "ended"} /\ trader \in {"none", "ended"}
    /\ phase' = "disposing" /\ stack' = IF stack = "open" THEN "closed" ELSE stack
    /\ UNCHANGED <<source, stop, feed, trader, now, prices>>

Dispose ==
    /\ phase = "disposing"
    /\ phase' = "stopped"
    /\ UNCHANGED <<stack, source, stop, feed, trader, now, prices>>

Lifespan == BuildStack \/ Arm \/ CloseStack \/ Dispose
Work == CycleEnds \/ TasksSeeStop
AppNext == Launch \/ Lifespan \/ Work \/ Stop \/ FeedTick \/ Clock \/ CycleBegins

(* The lifespan goes on, a cycle ends, and a task whose sleep is over looks at     *)
(* the stop event.                                                          *)
AppFairness == WF_appVars(Lifespan) /\ WF_appVars(CycleEnds) /\ WF_appVars(TasksSeeStop)

-----------------------------------------------------------------------------
(* Properties                                                               *)

(* Once the process is told to stop it stops, whatever the trader is doing, and     *)
(* no cycle of the trader is under way when the stack it sends orders through   *)
(* has been released, nor begins after that.                                  *)
OrderlyShutdown ==
    /\ [](trader = "cycle" => stack = "open")
    /\ (phase = "stopping") ~> (phase = "stopped")

(* What the strategy sees are bars of one session, and each bar is what its       *)
(* ticks were: a symbol that ticks late shows no bar of another day, and no       *)
(* tick of the day is lost or counted twice.                                 *)
BarsAreOfOneSession ==
    LET Priced(s, m) == {ticks[s][m][i] : i \in DOMAIN ticks[s][m]} IN
    /\ \A s \in Universe : \A m \in DOMAIN bars[s] : bars[s][m].day = session
    /\ session = now[1] =>
         \A s \in Universe, m \in 1..now[2] :
           LET all == ticks[s][m] IN
           IF all = <<>> THEN m \notin DOMAIN bars[s]
           ELSE /\ bars[s][m].open = all[1] /\ bars[s][m].close = all[Len(all)]
                /\ bars[s][m].volume = Len(all)
                /\ {bars[s][m].high, bars[s][m].low} \subseteq Priced(s, m)
                /\ \A x \in Priced(s, m) : bars[s][m].low <= x /\ x <= bars[s][m].high

(* What the lifespan owes the trader: whole bars, and a stack while it works.      *)
LifespanHolds == []BarsAreOfOneSession /\ OrderlyShutdown

=============================================================================
