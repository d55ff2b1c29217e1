-------------------------------- MODULE Zerodha --------------------------------
(***************************************************************************)
(* The live adapter (broker/zerodha.py): several tasks call it at once, each waits    *)
(* its turn at the rate limiter, and a request, its effect at the exchange and its    *)
(* answer are three steps, any of which may be the last.  Time is in parts of the     *)
(* second the limiter counts over.                                           *)
(***************************************************************************)
EXTENDS Integers, Sequences, FiniteSetsExt

CONSTANTS
    Tasks,          \* the tasks calling the adapter
    Rps,            \* _RATE_LIMIT_ORDERS
    Second,         \* how many steps of the clock a second has
    Attempts,       \* retries of _call_kite
    MaxClock,       \* bound on the clock
    MaxTrades       \* bound on what the exchange does by itself

ASSUME AdapterAssumption == Rps \in Nat \ {0} /\ Second \in Nat \ {0} /\ Attempts \in Nat

VARIABLES
    session,    \* of the adapter: the kite handle, is_connected, and whether the token is good
    stamps,     \* _RateLimiter._timestamps of the order limiter
    asks,       \* per task, its call
    clock,
    passed,     \* the times and callers of all that went through the limiter
    market      \* at the exchange: per task the orders and cancels that arrived, and the position

zdVars == <<session, stamps, asks, clock, passed, market>>

Silent == [op |-> "none", at |-> "idle", wake |-> 0, attempt |-> 0, arrived |-> FALSE, alone |-> TRUE,
           flat |-> FALSE, answer |-> "none"]
Writes == {"place", "bare stop", "cancel"}   \* what changes the account; a bare stop has no trigger

-----------------------------------------------------------------------------
(* The session                                                               *)

(* connect: the handle is there before the token was tried; without a token it stays       *)
(* unproven, with a bad one the exception leaves it so.                            *)
Connect ==
    /\ session.connected = FALSE
    /\ session' = [session EXCEPT !.handle = TRUE, !.connected = session.token]
    /\ UNCHANGED <<stamps, asks, clock, passed, market>>

(* disconnect: the token is given up only on request; the handle stays.             *)
Disconnect ==
    /\ session.connected
    /\ \E invalidate \in BOOLEAN :
         session' = [session EXCEPT !.connected = FALSE, !.token = @ /\ ~invalidate]
    /\ UNCHANGED <<stamps, asks, clock, passed, market>>

(* exchange_token, after a login by hand.                                       *)
ExchangeToken ==
    /\ ~session.token
    /\ session' = [handle |-> TRUE, connected |-> TRUE, token |-> TRUE]
    /\ UNCHANGED <<stamps, asks, clock, passed, market>>

-----------------------------------------------------------------------------
(* The limiter                                                               *)

(* The stamps are taken off at the left as long as they are older than a second.  A sleep   *)
(* ends just after it is due: a stamp a second old is then older than a second.          *)
Fresh == {i \in DOMAIN stamps : clock - stamps[i] < Second}
Pruned == IF Fresh = {} THEN <<>> ELSE SubSeq(stamps, Min(Fresh), Len(stamps))
Waiting == {t \in Tasks : asks[t].at = "waiting"}

Full(recent) == Len(recent) >= Rps

(* What follows the limiter in the same step: a stop without its trigger and a call without   *)
(* a session are refused, anything else is on its way.                              *)
Proceed(ask) ==
    IF ask.op = "bare stop" THEN [ask EXCEPT !.at = "done", !.answer = "refused"]
    ELSE IF ~session.handle THEN [ask EXCEPT !.at = "done", !.answer = IF ask.op = "cancel" THEN "not done" ELSE "refused"]
    ELSE [ask EXCEPT !.at = "sent", !.attempt = @ + 1]

(* acquire, called for an order: the stamps older than a second go, and with a full       *)
(* window the caller sleeps until its oldest is a second old.                       *)
Ask(t) ==
    /\ asks[t].at = "idle"
    /\ \E op \in Writes :
         LET ask == [Silent EXCEPT !.op = op, !.alone = Waiting = {}] IN
         IF Full(Pruned)
         THEN /\ asks' = [u \in Tasks |-> IF u = t THEN [ask EXCEPT !.at = "waiting", !.wake = Pruned[1] + Second]
                                          ELSE IF u \in Waiting THEN [asks[u] EXCEPT !.alone = FALSE] ELSE asks[u]]
              /\ stamps' = Pruned
              /\ UNCHANGED passed
         ELSE /\ asks' = [u \in Tasks |-> IF u = t THEN Proceed(ask)
                                          ELSE IF u \in Waiting THEN [asks[u] EXCEPT !.alone = FALSE] ELSE asks[u]]
              /\ stamps' = Append(Pruned, clock)
              /\ passed' = Append(passed, [time |-> clock, alone |-> ask.alone])
    /\ UNCHANGED <<session, clock, market>>

(* It wakes, and passes without looking again.                                   *)
Wake(t) ==
    /\ asks[t].at = "waiting" /\ clock >= asks[t].wake
    /\ asks' = [asks EXCEPT ![t] = Proceed(@)]
    /\ stamps' = Append(stamps, clock)
    /\ passed' = Append(passed, [time |-> clock, alone |-> asks[t].alone])
    /\ UNCHANGED <<session, clock, market>>

(* get_positions: the data limiter is ten a second, and is not what limits here.      *)
AskPositions(t) ==
    /\ asks[t].at = "idle"
    /\ asks' = [asks EXCEPT ![t] = Proceed([Silent EXCEPT !.op = "positions", !.flat = market.position = 0])]
    /\ UNCHANGED <<session, stamps, clock, passed, market>>

-----------------------------------------------------------------------------
(* A call of the SDK in an executor                                            *)

Reads(t) == asks[t].op = "positions"

(* The request arrives: with a good token it takes effect.                         *)
Arrive(t) ==
    /\ asks[t].at = "sent" /\ ~asks[t].arrived /\ session.token
    /\ asks' = [asks EXCEPT ![t].arrived = TRUE,
                            ![t].flat = @ \/ (Reads(t) /\ market.position = 0),
                            ![t].answer = IF Reads(t) THEN IF market.position = 0 THEN "flat" ELSE "held" ELSE @]
    /\ market' = [market EXCEPT !.placed[t] = IF asks[t].op = "place" THEN @ + 1 ELSE @,
                                !.cancelled[t] = IF asks[t].op = "cancel" THEN @ + 1 ELSE @]
    /\ UNCHANGED <<session, stamps, clock, passed>>

(* The answer comes back; that of positions may have lost its shape, and is refused then.   *)
Answer(t) ==
    /\ asks[t].at = "sent" /\ asks[t].arrived
    /\ \E whole \in (IF Reads(t) THEN BOOLEAN ELSE {TRUE}) :
         asks' = [asks EXCEPT ![t].at = "done",
                    ![t].answer = IF ~Reads(t) THEN "done" ELSE IF whole THEN @ ELSE "refused"]
    /\ UNCHANGED <<session, stamps, clock, passed, market>>

(* Slip: a write is tried again like a read.                                     *)
FailedRetried(ask) ==
    IF ask.attempt < Attempts THEN [ask EXCEPT !.attempt = @ + 1, !.arrived = FALSE]
    ELSE [ask EXCEPT !.at = "done", !.answer = "unknown"]

(* _call_kite after an exception: a read is tried again; a write never is: its outcome is   *)
(* unknown, which cancel_order reports as not done.                               *)
Failed(ask) ==
    IF ask.op = "positions"
    THEN IF ask.attempt < Attempts THEN [ask EXCEPT !.attempt = @ + 1, !.arrived = FALSE, !.answer = "none"]
         ELSE [ask EXCEPT !.at = "done", !.answer = "refused"]
    ELSE [ask EXCEPT !.at = "done", !.answer = IF ask.op = "cancel" THEN "not done" ELSE "unknown"]

(* No answer, or an error: before the request arrived, when it did, or when it still may.   *)
Fail(t) ==
    /\ asks[t].at = "sent"
    /\ asks' = [asks EXCEPT ![t] = Failed(@)]
    /\ UNCHANGED <<session, stamps, clock, passed, market>>
ArriveLate(t) ==
    /\ asks[t].at = "done" /\ asks[t].answer \in {"unknown", "not done"} /\ asks[t].attempt > 0
    /\ ~asks[t].arrived /\ session.token
    /\ asks' = [asks EXCEPT ![t].arrived = TRUE]
    /\ market' = [market EXCEPT !.placed[t] = IF asks[t].op = "place" THEN @ + 1 ELSE @,
                                !.cancelled[t] = IF asks[t].op = "cancel" THEN @ + 1 ELSE @]
    /\ UNCHANGED <<session, stamps, clock, passed>>

-----------------------------------------------------------------------------
(* Time and the exchange                                                       *)

Pass ==
    /\ clock < MaxClock
    /\ clock' = clock + 1
    /\ UNCHANGED <<session, stamps, asks, passed, market>>
Trade ==
    /\ market.trades < MaxTrades
    /\ market' = [market EXCEPT !.position = 1 - @, !.trades = @ + 1]
    /\ asks' = [t \in Tasks |-> IF Reads(t) /\ asks[t].at = "sent" THEN [asks[t] EXCEPT !.flat = @ \/ market.position = 1] ELSE asks[t]]
    /\ UNCHANGED <<session, stamps, clock, passed>>
TokenExpires ==
    /\ session.token
    /\ session' = [session EXCEPT !.token = FALSE]
    /\ UNCHANGED <<stamps, asks, clock, passed, market>>

ZdInit ==
    /\ session \in {[handle |-> FALSE, connected |-> FALSE, token |-> g] : g \in BOOLEAN}
                      \cup {[handle |-> TRUE, connected |-> TRUE, token |-> TRUE]}
    /\ stamps = <<>> /\ passed = <<>> /\ clock = 0
    /\ asks = [t \in Tasks |-> Silent]
    /\ market = [placed |-> [t \in Tasks |-> 0], cancelled |-> [t \in Tasks |-> 0], position |-> 0, trades |-> 0]

ZdNext ==
    \/ Connect \/ Disconnect \/ ExchangeToken \/ TokenExpires
    \/ \E t \in Tasks : Ask(t) \/ Wake(t) \/ AskPositions(t) \/ Arrive(t) \/ Answer(t) \/ Fail(t) \/ ArriveLate(t)
    \/ Pass \/ Trade

ZdSpec == ZdInit /\ [][ZdNext]_zdVars

-----------------------------------------------------------------------------
(* Properties                                                                *)

(* What a caller is told is what happened: one call is at most one order, a call that was    *)
(* answered is exactly one, a call that was refused is none and never becomes one, and an    *)
(* account is called flat only if it was flat at some moment of the call.  Only "unknown",   *)
(* and "not done" of a cancel, leave it open.                                     *)
ToldTheTruth ==
    \A t \in Tasks :
        /\ market.placed[t] <= 1
        /\ asks[t].at = "done" /\ asks[t].op = "place" /\ asks[t].answer = "done" => market.placed[t] = 1
        /\ asks[t].at = "done" /\ asks[t].op = "cancel" /\ asks[t].answer = "done" => market.cancelled[t] = 1
        /\ asks[t].answer = "refused" => market.placed[t] = 0
        /\ asks[t].at = "done" /\ asks[t].answer = "flat" => asks[t].flat

(* An order that passed the limiter a second or more after the one before it.          *)
Quiet(q) == q = 1 \/ passed[q].time >= passed[q - 1].time + Second

(* From a quiet second on the limiter keeps its rate, an order being at least a second      *)
(* behind the one as many places before it as it allows, until a caller waits beside      *)
(* another, or comes while one waits: a full window lets all that wait through at once     *)
(* when its oldest is a second old, and stays overfull as long as orders keep coming.     *)
RateHeldAlone ==
    \A q, i \in DOMAIN passed :
        /\ q <= i /\ Quiet(q)
        /\ i + Rps \in DOMAIN passed
        /\ \A j \in q..(i + Rps) : passed[j].alone
        => passed[i + Rps].time >= passed[i].time + Second

(* What a caller may rely on: the truth about its call, and the rate.               *)
AdapterHolds == ToldTheTruth /\ RateHeldAlone

=============================================================================
