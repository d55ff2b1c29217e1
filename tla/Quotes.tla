-------------------------------- MODULE Quotes --------------------------------
(***************************************************************************)
(* How a paper order gets its price, and who says the price is fresh: the      *)
(* daily feed with its two caches (data/providers.py, broker/marketdata.py),   *)
(* the quotes of the mock ticks with the daily feed behind them                *)
(* (broker/tickdata.py), the ages the paper broker remembers, the reference     *)
(* price of the order manager, the freshness gate, and the quote the order is   *)
(* filled at.                                                                *)
(*                                                                          *)
(* A quote carries the instant it claims, stamp, and the instant its price was  *)
(* really seen in the market, seen, which no code reads.  A call runs without   *)
(* interruption until it has to wait for the vendor or for the order store.     *)
(***************************************************************************)
EXTENDS Integers

CONSTANTS
    Stocks, Fed,            \* all symbols, and those the mock feed ticks
    Orderers,               \* concurrent calls
    Closes,                 \* prices
    None,                   \* no tick, no file, no answer
    DayLength, SessionEnd,  \* a day's moments; the market is open in 1..SessionEnd
    MaxAge,                 \* max_tick_age_sec and max_quote_age_sec
    Ttl,                    \* quote_ttl_sec
    FirstMoment, LastMoment,\* bounds on the clock
    MaxCalls                \* bound on the calls

ASSUME QuotesAssumption ==
    /\ Fed \subseteq Stocks /\ Closes \subseteq Nat \ {0}
    /\ DayLength \in Nat /\ SessionEnd \in Nat /\ MaxAge \in Nat \ {0} /\ Ttl \in Nat
    /\ FirstMoment \in Nat /\ LastMoment \in Nat /\ MaxCalls \in Nat
    /\ 2 * DayLength <= FirstMoment
    /\ SessionEnd + MaxAge < DayLength

VARIABLES
    moment,     \* the clock
    feeding,    \* the mock feed: not armed yet, alive or dead
    lastTick,   \* the aggregator's last price of a stock
    lastPass,   \* the last pass of the feed over its stocks, 0 before the first
    files,      \* the provider's file of a stock: the day it was fetched and its last bar
    quoteCache, \* MarketDataBroker._cache
    ages,       \* PaperBroker._last_quote_age
    caller,     \* what each call is doing
    made        \* calls made

qtVars == <<moment, feeding, lastTick, lastPass, files, quoteCache, ages, caller, made>>
feedVars == <<moment, feeding, lastTick, lastPass, made>>

(* Ages that are no age: never quoted, and quoted without one.                *)
Never == -2
Unstamped == -1

Resting == [at |-> "idle"]
DayOf(t) == t \div DayLength
MarketOpen(t) == t % DayLength \in 1..SessionEnd

QtInit ==
    /\ moment = FirstMoment /\ feeding = "unarmed" /\ lastPass = 0 /\ made = 0
    /\ lastTick = [s \in Stocks |-> None]
    /\ files = [s \in Stocks |-> None]
    /\ quoteCache = [s \in Stocks |-> None]
    /\ ages = [s \in Stocks |-> Never]
    /\ caller = [c \in Orderers |-> Resting]

-----------------------------------------------------------------------------
(* The daily feed                                                           *)

(* A daily bar became final when its session closed, whenever it is asked for. *)
BarTimestamp(day, asked) == day * DayLength + SessionEnd

(* The last bar before today, or the one before if the vendor is late.        *)
VendorBars(asked) ==
    [day : {DayOf(asked) - 1, DayOf(asked) - 2}, price : Closes]

QuoteOf(bar, asked) ==
    [price |-> bar.price, stamp |-> BarTimestamp(bar.day, asked),
     seen |-> bar.day * DayLength + SessionEnd, traded |-> TRUE]

Cached(s) ==
    /\ quoteCache[s] # None
    /\ moment - quoteCache[s].at < Ttl

-----------------------------------------------------------------------------
(* Asking for a quote.  use is what the answer is for: the reference price of   *)
(* an order, the price it is filled at, or anything else that reads a quote.   *)

(* What the mock ticks answer is stamped with the clock of the question, the     *)
(* daily close they fall back to as well, which comes without a volume.        *)
TickQuote(s) ==
    [price |-> lastTick[s].price, stamp |-> moment, seen |-> lastTick[s].at, traded |-> TRUE]
Restamped(q, asked) == [q EXCEPT !.stamp = asked, !.traded = FALSE]

Armed == feeding # "unarmed"

(* The paper broker keeps the age a quote had when it was read.               *)
Recorded(s, q) == [ages EXCEPT ![s] = moment - q.stamp]

(* A stock without an age passes: strict_quote_staleness is off.               *)
IsStaleTick(known, s) == known[s] = Never \/ known[s] > MaxAge

Finished(o, outcome, q) ==
    [at |-> "done", stock |-> o.stock, type |-> o.type, via |-> o.via, outcome |-> outcome,
     quote |-> q, when |-> moment]

(* The gates of an order: the market is open and the last tick was not old.     *)
Gated(o, known, q) ==
    IF MarketOpen(moment) /\ ~IsStaleTick(known, o.stock)
    THEN [Finished(o, "approved", q) EXCEPT !.at = "approved"]
    ELSE Finished(o, "blocked", q)

(* Slip: freshness is judged before anything is fetched.                     *)
PricedBeforeFetch(o, q) ==
    IF IsStaleTick(ages, o.stock) THEN Finished(o, "stale", q)
    ELSE IF q = None THEN Finished(o, "no_quote", q)
    ELSE Gated(o, Recorded(o.stock, q), q)

(* resolve_reference_price: the age of the quote just fetched is judged.       *)
Priced(o, q) ==
    LET known == IF q = None THEN ages ELSE Recorded(o.stock, q)
    IN IF IsStaleTick(known, o.stock) THEN Finished(o, "stale", q)
       ELSE IF q = None THEN Finished(o, "no_quote", q)
       ELSE Gated(o, known, q)

(* _snapshot and what follows: the answer is looked up by exchange and symbol, *)
(* which the daily feed does not answer by.                                  *)
Usable(o, q) == IF o.via = "provider" THEN None ELSE q
Snapshot(o, q) ==
    IF Usable(o, q) = None THEN Finished(o, "no_price", None)
    ELSE IF moment - q.stamp > MaxAge THEN Finished(o, "stale", q)
    ELSE IF ~q.traded THEN Finished(o, "no_liquidity", q)
    ELSE Finished(o, "priced", q)

Use(o, q) ==
    CASE o.use = "reference" -> Priced(o, q)
      [] o.use = "fill"      -> Snapshot(o, q)
      [] o.use = "read"      -> Resting

AgesAfter(o, q) ==
    IF o.use = "fill" /\ Usable(o, q) = None THEN [ages EXCEPT ![o.stock] = Unstamped]
    ELSE IF q = None THEN ages ELSE Recorded(o.stock, q)

Answered(c, o, q) ==
    /\ caller' = [caller EXCEPT ![c] = Use(o, q)]
    /\ ages' = AgesAfter(o, q)

(* get_quote of whichever source the broker has: the last tick, or the daily    *)
(* feed's cached quote, at once; otherwise a thread asks the provider, which    *)
(* looks for the file of the day first.                                     *)
GetQuote(c, s, type, use) ==
    LET via == IF Armed THEN "ticks" ELSE "provider"
        o == [at |-> "asking", use |-> use, stock |-> s, type |-> type, via |-> via, asked |-> moment,
              file |-> IF files[s] # None /\ files[s].on = DayOf(moment) THEN files[s].bar ELSE None]
    IN /\ IF Armed /\ lastTick[s] # None THEN Answered(c, o, TickQuote(s))
          ELSE IF Cached(s)
          THEN LET q == quoteCache[s].quote
               IN Answered(c, o, IF Armed THEN Restamped(q, moment) ELSE q)
          ELSE caller' = [caller EXCEPT ![c] = o] /\ UNCHANGED ages
       /\ UNCHANGED <<files, quoteCache>>

(* The thread comes back with the file's bar or the vendor's, which becomes     *)
(* the file of the day the question was asked on.                            *)
ProviderAnswers(c) ==
    LET o == caller[c] IN
    /\ o.at = "asking"
    /\ \E bar \in IF o.file # None THEN {o.file} ELSE VendorBars(o.asked) :
         LET q == QuoteOf(bar, o.asked) IN
         /\ files' = IF o.file # None THEN files
                     ELSE [files EXCEPT ![o.stock] = [on |-> DayOf(o.asked), bar |-> bar]]
         /\ quoteCache' = [quoteCache EXCEPT ![o.stock] = [at |-> o.asked, quote |-> q]]
         /\ Answered(c, o, IF o.via = "ticks" THEN Restamped(q, o.asked) ELSE q)
    /\ UNCHANGED feedVars

(* No data, a failed download or an unusable close: the symbol is omitted.      *)
ProviderFails(c) ==
    /\ caller[c].at = "asking"
    /\ Answered(c, caller[c], None)
    /\ UNCHANGED <<feedVars, files, quoteCache>>

-----------------------------------------------------------------------------
(* The calls                                                                *)

Start(c) ==
    /\ caller[c].at \in {"idle", "done"} /\ made < MaxCalls
    /\ made' = made + 1
    /\ UNCHANGED <<moment, feeding, lastTick, lastPass>>

ReadQuote(c, s) == Start(c) /\ GetQuote(c, s, "none", "read")
SubmitMarket(c, s) == Start(c) /\ GetQuote(c, s, "MARKET", "reference")

(* A limit order is judged at its own price: no quote is fetched for it.        *)
SubmitLimit(c, s) ==
    /\ Start(c)
    /\ caller' = [caller EXCEPT ![c] =
                    Gated([stock |-> s, type |-> "LIMIT", via |-> "none"], ages, None)]
    /\ UNCHANGED <<ages, files, quoteCache>>

(* The approved order is stored, which takes its time, then placed.            *)
Place(c) ==
    LET o == caller[c] IN
    /\ o.at = "approved"
    /\ IF MarketOpen(moment) THEN GetQuote(c, o.stock, o.type, "fill")
       ELSE /\ caller' = [caller EXCEPT ![c] = Finished(o, "closed", None)]
            /\ UNCHANGED <<ages, files, quoteCache>>
    /\ UNCHANGED feedVars

-----------------------------------------------------------------------------
(* The mock feed and the clock                                               *)

ArmFeed ==
    /\ feeding = "unarmed" /\ feeding' = "alive"
    /\ UNCHANGED <<moment, lastTick, lastPass, files, quoteCache, ages, caller, made>>

(* One pass ticks every stock of the feed; the first one of a day clears the     *)
(* bars of the day before.                                                   *)
FeedPass ==
    /\ feeding = "alive" /\ MarketOpen(moment) /\ lastPass < moment
    /\ \E price \in Closes :
         lastTick' = [s \in Stocks |->
           IF s \in Fed THEN [price |-> price, at |-> moment]
           ELSE None]
    /\ lastPass' = moment
    /\ UNCHANGED <<moment, feeding, files, quoteCache, ages, caller, made>>

FeedDies ==
    /\ feeding = "alive" /\ feeding' = "dead"
    /\ UNCHANGED <<moment, lastTick, lastPass, files, quoteCache, ages, caller, made>>

(* A feed that is alive passes at least once in a moment of the session.       *)
TimePasses ==
    /\ moment < LastMoment
    /\ (feeding = "alive" /\ MarketOpen(moment)) => lastPass = moment
    /\ moment' = moment + 1
    /\ UNCHANGED <<feeding, lastTick, lastPass, files, quoteCache, ages, caller, made>>

QtNext ==
    \/ \E c \in Orderers :
         \/ \E s \in Stocks : ReadQuote(c, s) \/ SubmitMarket(c, s) \/ SubmitLimit(c, s)
         \/ ProviderAnswers(c) \/ ProviderFails(c) \/ Place(c)
    \/ ArmFeed \/ FeedPass \/ FeedDies \/ TimePasses

-----------------------------------------------------------------------------
(* Properties                                                               *)

(* The daily feed prices no market order: its last close is of an earlier day,     *)
(* and whichever cache it comes from it never passes for the price of today.     *)
DailyIsNeverLive ==
    \A c \in Orderers :
      ~(caller[c].at = "approved" /\ caller[c].type = "MARKET" /\ caller[c].via = "provider")

(* While the feed is alive, a stock it has ticked today is not filled at an older   *)
(* price, though every answer claims to be of the moment: the feed passes in     *)
(* time, and where it does not tick nobody trades.                            *)
TickPricesAreLive ==
    \A c \in Orderers :
      LET o == caller[c] IN
      o.at = "done" /\ o.outcome = "priced" /\ feeding = "alive"
        /\ DayOf(o.quote.seen) = DayOf(o.when)
      => o.when - o.quote.seen <= MaxAge

(* A market order is refused for stale data only when the quote just fetched      *)
(* for it is old or there is none: asking is what makes a stock tradeable.     *)
FreshIsNotRefused ==
    \A c \in Orderers :
      LET o == caller[c] IN
      o.at = "done" /\ o.outcome = "stale" /\ o.type = "MARKET"
      => o.quote = None \/ o.when - o.quote.stamp > MaxAge

QuotesHold == DailyIsNeverLive /\ TickPricesAreLive /\ FreshIsNotRefused
=============================================================================
