-------------------------------- MODULE History --------------------------------
(***************************************************************************)
(* Daily history: how the provider of data/historical.py turns what a broker     *)
(* sends into a series, keeps it in Redis and serves several symbols at once,    *)
(* and how data/quality.py blanks the bars an unadjusted corporate action        *)
(* spoiled.                                                                  *)
(*                                                                          *)
(* A bar is [day, close, volume]; Missing stands for NaN.  Open, high and low    *)
(* follow the close.  Factors are <<numerator, denominator>>.                  *)
(***************************************************************************)
EXTENDS Integers, SequencesExt, FiniteSetsExt

CONSTANTS
    Missing,            \* NaN
    Issues,             \* the symbols asked for
    Series,             \* what the broker may send for one, in any order
    Splits,             \* what it may say of splits: sets of [day, factor]
    MaxFill,            \* _MAX_FFILL_DAYS
    MaxConcurrent,      \* max_concurrent
    Paths,              \* closes of a name that splits once, adjusted for it
    MaxAsks             \* bound on the requests

(* The paths move by less than what is taken for a corporate action.          *)
ASSUME HistoryAssumption ==
    /\ IsFiniteSet(Issues) /\ MaxConcurrent \in Nat /\ Missing \notin Nat
    /\ \A path \in Paths :
         /\ path \in Seq(Nat \ {0})
         /\ \A i \in 2..Len(path) : 2 * path[i] <= 3 * path[i - 1] /\ 2 * path[i - 1] <= 3 * path[i]

VARIABLES
    held,       \* what the broker sends for a symbol
    redis,      \* the cached series of a symbol; none is <<>>
    request     \* the call of get_multiple under way, symbol by symbol

hsVars == <<held, redis, request>>

-----------------------------------------------------------------------------
(* From what the broker sends to a series                                     *)

Normalized(raw) == SortSeq(raw, LAMBDA x, y : x.day < y.day)

(* Every event multiplies the closes before its day and divides the volumes; an   *)
(* event without a positive factor is passed over.                           *)
Scaled(bar, f) ==
    [bar EXCEPT !.close = IF @ = Missing THEN @ ELSE (@ * f[1]) \div f[2],
                !.volume = IF @ = Missing THEN @ ELSE (@ * f[2]) \div f[1]]
ApplyEvent(event, series) ==
    IF event.factor[1] <= 0 THEN series
    ELSE [i \in DOMAIN series |->
            IF series[i].day < event.day THEN Scaled(series[i], event.factor) ELSE series[i]]
ApplyAdjustment(series, events) ==
    FoldRight(ApplyEvent, SetToSortSeq(events, LAMBDA x, y : x.day < y.day), series)

(* The run of missing closes a bar belongs to.                               *)
RunOf(series, i) ==
    {j \in DOMAIN series : \A k \in DOMAIN series :
        k \in Min({i, j})..Max({i, j}) => series[k].close = Missing}

(* One pass: short runs take the last close before them, if there is one.       *)
Filled(series) ==
    [i \in DOMAIN series |->
       LET before == {j \in 1..i : series[j].close # Missing}
       IN IF series[i].close = Missing /\ Cardinality(RunOf(series, i)) <= MaxFill /\ before # {}
          THEN [series[i] EXCEPT !.close = series[Max(before)].close] ELSE series[i]]

(* _handle_missing fills twice; a missing volume is none.                     *)
HandleMissing(series) ==
    Filled([i \in DOMAIN series |->
              [Filled(series)[i] EXCEPT !.volume = IF @ = Missing THEN 0 ELSE @]])

-----------------------------------------------------------------------------
(* get_multiple and get_ohlcv.  A symbol of a request waits for one of           *)
(* max_concurrent turns, then asks Redis, the broker and the broker's factors.   *)

NoRequest == [adjust |-> FALSE, of |-> [s \in Issues |-> [at |-> "off"]], made |-> 0]

HistoryInit ==
    /\ redis = [s \in Issues |-> <<>>]
    /\ held \in [Issues -> [bars : Series, events : Splits]]
    /\ request = NoRequest

GetMultiple ==
    /\ \A s \in Issues : request.of[s].at \in {"off", "out"}
    /\ request.made < MaxAsks
    /\ \E adjust \in BOOLEAN :
         request' = [adjust |-> adjust, made |-> request.made + 1,
                     of |-> [s \in Issues |-> [at |-> "waiting"]]]
    /\ UNCHANGED <<held, redis>>

Goes(s, frame) == request' = [request EXCEPT !.of[s] = frame]

Out(series) == [at |-> "out", series |-> series]
Working == {s \in Issues : request.of[s].at \in {"fetching", "adjusting", "storing"}}

(* A turn begins with Redis, whose failures are misses.                       *)
Enter(s) ==
    /\ request.of[s].at = "waiting" /\ Cardinality(Working) < MaxConcurrent
    /\ \/ redis[s] # <<>> /\ Goes(s, Out(redis[s]))
       \/ Goes(s, [at |-> "fetching"])
    /\ UNCHANGED <<held, redis>>

Fetch(s) ==
    /\ request.of[s].at = "fetching"
    /\ Goes(s, [at |-> IF request.adjust THEN "adjusting" ELSE "storing",
                series |-> Normalized(held[s].bars)])
    /\ UNCHANGED <<held, redis>>

(* The factors are asked for after the bars; a broker that has none is no error. *)
Adjust(s) ==
    /\ request.of[s].at = "adjusting"
    /\ Goes(s, [at |-> "storing",
                series |-> ApplyAdjustment(request.of[s].series, held[s].events)])
    /\ UNCHANGED <<held, redis>>

(* Gaps are handled, the series is cached, and a failure to cache is no error.   *)
Store(s) ==
    LET series == HandleMissing(request.of[s].series) IN
    /\ request.of[s].at = "storing"
    /\ Goes(s, Out(series))
    /\ redis' \in {redis, [redis EXCEPT ![s] = series]}
    /\ UNCHANGED held

(* A symbol whose call raises is left out of the answer.                      *)
Fails(s) ==
    /\ request.of[s].at \in {"fetching", "adjusting"}
    /\ Goes(s, [at |-> "off"])
    /\ UNCHANGED <<held, redis>>

(* The TTL of a cached series ends.                                         *)
Expire(s) ==
    /\ redis[s] # <<>> /\ redis' = [redis EXCEPT ![s] = <<>>]
    /\ UNCHANGED <<held, request>>

HistoryNext ==
    \/ GetMultiple
    \/ \E s \in Issues : Enter(s) \/ Fetch(s) \/ Adjust(s) \/ Store(s) \/ Fails(s) \/ Expire(s)

-----------------------------------------------------------------------------
(* Bars spoiled by a corporate action (mask_corporate_action_artifacts): a move    *)
(* beyond the threshold, the same in adjusted and raw closes, is blanked.       *)

Extreme(a, b) == a # Missing /\ b # Missing /\ (3 * a < 2 * b \/ 3 * b < 2 * a)
Alike(a, b, c, d) == a * d = b * c
Artifact(closes, raw, i) ==
    /\ i > 1 /\ Extreme(closes[i - 1], closes[i])
    /\ \/ Missing \in {raw[i - 1], raw[i]}
       \/ Alike(closes[i - 1], closes[i], raw[i - 1], raw[i])
Masked(closes, raw) ==
    [i \in DOMAIN closes |-> IF Artifact(closes, raw, i) THEN Missing ELSE closes[i]]

-----------------------------------------------------------------------------
(* Properties                                                               *)

(* What a series has to be, said bar by bar: in order, adjusted for every event    *)
(* after the bar or for none, a gap carried over when it is short and closed      *)
(* off by an earlier price, and no price where the broker had none for long.     *)
Due(raw, events, adjust) ==
    LET days == {raw[i].day : i \in DOMAIN raw}
        bar(d) == raw[CHOOSE i \in DOMAIN raw : raw[i].day = d]
        later(d) == IF adjust THEN {e \in events : e.day > d /\ e.factor[1] > 0} ELSE {}
        times(d, k) == FoldSet(LAMBDA e, n : e.factor[k] * n, 1, later(d))
        worth(d) == (bar(d).close * times(d, 1)) \div times(d, 2)
        known == {d \in days : bar(d).close # Missing}
        gap(d) == {x \in days \ known : ~\E y \in known : Min({d, x}) < y /\ y < Max({d, x})}
        close(d) == IF d \in known THEN worth(d)
                    ELSE IF Cardinality(gap(d)) > MaxFill \/ {x \in known : x < d} = {} THEN Missing
                    ELSE worth(Max({x \in known : x < d}))
    IN [d \in days |-> close(d)]
ClosesOf(series) ==
    [d \in {series[i].day : i \in DOMAIN series} |->
       (CHOOSE bar \in Range(series) : bar.day = d).close]

(* Every series given out, from the broker or from the cache, is whole: adjusted    *)
(* once for all its events or not at all, however requests that want it adjusted  *)
(* and requests that do not share the cache; and no more symbols are under way    *)
(* than allowed.                                                             *)
AnswersAreWhole ==
    /\ Cardinality(Working) <= MaxConcurrent
    /\ \A s \in Issues : request.of[s].at = "out" =>
         ClosesOf(request.of[s].series) \in
           {Due(held[s].bars, held[s].events, adjust) : adjust \in BOOLEAN}

(* A split the vendor adjusted neither series for costs the series the one bar of  *)
(* its day and no other, and an ordinary series loses none.                   *)
BlanksOnlySplits ==
    \A path \in Paths : \A k \in DOMAIN path :
      LET left == [i \in DOMAIN path |-> IF i < k THEN 5 * path[i] ELSE path[i]]
      IN Masked(left, left) = IF k = 1 THEN path ELSE [left EXCEPT ![k] = Missing]

HistoryHolds == AnswersAreWhole /\ BlanksOnlySplits
=============================================================================
