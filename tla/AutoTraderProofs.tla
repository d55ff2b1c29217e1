-------------------------- MODULE AutoTraderProofs --------------------------
(* Proofs about the auto-trader.                                            *)
EXTENDS AutoTrader, TLAPS

Busy(where, s) ==
    cycle \in [at : {where}, day : {day}, phase : Phases, dark : SUBSET Symbols,
               symbol : s, left : SUBSET Symbols]

(* The cycle of a trader that is at work, and that began today.             *)
CycleOK ==
    \/ cycle = Sleeping
    \/ Busy("exits", {NoSymbol}) \/ Busy("entries", {NoSymbol})
    \/ Busy("exit", Symbols) \/ Busy("stop", Symbols)

(* An entry of today has claimed today's id, and a cycle never outlives the *)
(* day it began in.                                                         *)
EntryInv ==
    /\ day \in 1..Days /\ phase \in Phases
    /\ entries \in [Symbols -> 0..1]
    /\ \A s \in Symbols : entries[s] = 1 => <<"ENT", s, day, 0>> \in claims
    /\ CycleOK

(* Nothing is entered at first.                                             *)
LEMMA EntryInit == Init => EntryInv
  BY TraderAssumption DEF Init, EntryInv, CycleOK, Sleeping, Phases

(* Claims are never given back.                                             *)
LEMMA ClaimsGrow == ASSUME NEW key, NEW outcome, Claim(key, outcome)
                    PROVE  claims \subseteq claims'
  BY DEF Claim

(* What leaves the day, the entries and the claims alone, or adds claims,   *)
(* disturbs only the cycle.                                                 *)
LEMMA EntryFrame ==
  ASSUME EntryInv, day' = day, phase' \in Phases, entries' = entries,
         claims \subseteq claims', CycleOK'
  PROVE  EntryInv'
  BY DEF EntryInv

(* A cycle goes on, or ends.                                                *)
LEMMA CycleStep ==
  ASSUME EntryInv, day' = day,
         BeginCycle \/ CancelStop \/ SubmitExit \/ ExitRaises \/ BeginEntries
           \/ PlaceStop \/ StopRefused \/ EndCycle
  PROVE  CycleOK'
  <1> USE DEF CycleOK, Busy, Sleeping
  <1> cycle.at = "idle" \/ cycle \in [at : {"exits", "exit", "entries", "stop"}, day : {day},
           phase : Phases, dark : SUBSET Symbols, symbol : Symbols \cup {NoSymbol},
           left : SUBSET Symbols]
    BY DEF EntryInv
  <1>1. CASE BeginCycle
    BY <1>1 DEF BeginCycle, EntryInv, Decisions
  <1>2. CASE CancelStop
    <2>1. Busy("exits", {NoSymbol})
      BY <1>2 DEF CancelStop, EntryInv
    <2>2. PICK s \in cycle.left :
             \/ cycle' = [cycle EXCEPT !.left = @ \ {s}]
             \/ cycle' = [cycle EXCEPT !.at = "exit", !.left = @ \ {s}, !.symbol = s]
      BY <1>2 DEF CancelStop
    <2>3. CASE cycle' = [cycle EXCEPT !.left = @ \ {s}]
      <3>1. Busy("exits", {NoSymbol})'
        BY <2>1, <2>3
      <3> QED BY <3>1
    <2>4. CASE cycle' = [cycle EXCEPT !.at = "exit", !.left = @ \ {s}, !.symbol = s]
      <3>1. Busy("exit", Symbols)'
        BY <2>1, <2>2, <2>4
      <3> QED BY <3>1
    <2> QED BY <2>2, <2>3, <2>4
  <1>3. CASE SubmitExit
    BY <1>3 DEF SubmitExit, Resume, EntryInv
  <1>4. CASE ExitRaises
    BY <1>4 DEF ExitRaises
  <1>5. CASE BeginEntries
    BY <1>5 DEF BeginEntries, Signals, EntryInv
  <1>6. CASE PlaceStop
    BY <1>6 DEF PlaceStop, Resume, EntryInv
  <1>7. CASE StopRefused
    BY <1>7 DEF StopRefused, Resume, EntryInv
  <1>8. CASE EndCycle
    BY <1>8 DEF EndCycle
  <1> QED BY <1>1, <1>2, <1>3, <1>4, <1>5, <1>6, <1>7, <1>8

(* An entry that is placed was not claimed before, so none was counted.     *)
LEMMA EntryStep == ASSUME EntryInv, SubmitEntry PROVE EntryInv'
  <1>1. Busy("entries", {NoSymbol})
    BY DEF SubmitEntry, EntryInv, CycleOK, Busy, Sleeping
  <1>2. PICK s \in cycle.left : \E outcome \in Outcomes(Idem("ENT", s)) :
          /\ Claim(Idem("ENT", s), outcome)
          /\ IF outcome = "placed"
             THEN /\ entries' = [entries EXCEPT ![s] = @ + 1]
                  /\ cycle' = [cycle EXCEPT !.at = "stop", !.left = @ \ {s}, !.symbol = s]
             ELSE /\ cycle' = [cycle EXCEPT !.left = @ \ {s}]
                  /\ UNCHANGED entries
    BY DEF SubmitEntry
  <1>0. PICK outcome \in Outcomes(Idem("ENT", s)) :
          /\ Claim(Idem("ENT", s), outcome)
          /\ IF outcome = "placed"
             THEN /\ entries' = [entries EXCEPT ![s] = @ + 1]
                  /\ cycle' = [cycle EXCEPT !.at = "stop", !.left = @ \ {s}, !.symbol = s]
             ELSE /\ cycle' = [cycle EXCEPT !.left = @ \ {s}]
                  /\ UNCHANGED entries
    BY <1>2
  <1>3. s \in Symbols /\ day' = day /\ phase' = phase
    BY <1>1, <1>2 DEF Busy, SubmitEntry, environment
  <1>4. claims \subseteq claims'
    BY <1>0, ClaimsGrow
  <1>5. CASE outcome # "placed"
    <2>1. CycleOK'
      BY <1>1, <1>0, <1>3, <1>5 DEF Busy, CycleOK
    <2> QED BY <2>1, <1>0, <1>3, <1>4, <1>5, EntryFrame DEF EntryInv
  <1>6. CASE outcome = "placed"
    <2>0. Busy("stop", Symbols)'
      BY <1>1, <1>0, <1>3, <1>6, ZenonT(60) DEF Busy
    <2>1. CycleOK'
      BY <2>0 DEF CycleOK
    <2>2. <<"ENT", s, day, 0>> \notin claims
      BY <1>1, <1>0, <1>6 DEF Outcomes, Idem, Busy
    <2>3. entries[s] = 0
      BY <2>2, <1>3 DEF EntryInv
    <2>4. <<"ENT", s, day, 0>> \in claims'
      BY <1>1, <1>0, <1>6 DEF Claim, Idem, Busy
    <2>5. entries' \in [Symbols -> 0..1]
      BY <2>3, <1>0, <1>3, <1>6 DEF EntryInv
    <2>6. \A t \in Symbols : entries'[t] = 1 => <<"ENT", t, day, 0>> \in claims'
      BY <2>4, <1>0, <1>3, <1>4, <1>6 DEF EntryInv
    <2> QED BY <2>1, <2>5, <2>6, <1>3 DEF EntryInv
  <1> QED BY <1>5, <1>6

(* Every step keeps the invariant.                                          *)
LEMMA EntryNext == ASSUME EntryInv, [Next]_vars PROVE EntryInv'
  <1> USE DEF environment
  <1>1. CASE SubmitEntry
    BY <1>1, EntryStep
  <1>2. CASE BeginCycle \/ CancelStop \/ SubmitExit \/ ExitRaises \/ BeginEntries
               \/ PlaceStop \/ StopRefused \/ EndCycle
    <2>1. day' = day /\ phase' = phase /\ entries' = entries
      BY <1>2 DEF BeginCycle, CancelStop, SubmitExit, ExitRaises, BeginEntries, PlaceStop,
                  StopRefused, EndCycle
    <2>2. claims \subseteq claims'
      BY <1>2, ClaimsGrow DEF BeginCycle, CancelStop, SubmitExit, ExitRaises, BeginEntries,
                              PlaceStop, StopRefused, EndCycle
    <2>3. CycleOK'
      BY <1>2, <2>1, CycleStep
    <2> QED BY <2>1, <2>2, <2>3, EntryFrame DEF EntryInv
  <1>3. CASE Poll \/ KillSwitch \/ UNCHANGED vars
    BY <1>3 DEF Poll, KillSwitch, vars, EntryInv, CycleOK, Busy
  <1>4. CASE Tick
    <2>1. phase' \in Phases /\ day' = day /\ entries' = entries /\ claims' = claims
            /\ cycle' = cycle
      BY <1>4 DEF Tick, EntryInv, Phases
    <2> QED BY <2>1 DEF EntryInv, CycleOK, Busy
  <1>5. CASE NextDay
    <2>1. day' \in 1..Days /\ phase' \in Phases
      BY <1>5, TraderAssumption DEF NextDay, EntryInv, Phases
    <2>2. entries' \in [Symbols -> 0..1] /\ \A s \in Symbols : entries'[s] = 0
      BY <1>5 DEF NextDay
    <2>3. cycle' = Sleeping
      BY <1>5 DEF NextDay, EntryInv, CycleOK, Busy, Sleeping
    <2> QED BY <2>1, <2>2, <2>3 DEF EntryInv, CycleOK
  <1>6. CASE Crash
    BY <1>6 DEF Crash, EntryInv, CycleOK
  <1> QED BY <1>1, <1>2, <1>3, <1>4, <1>5, <1>6 DEF Next

(* One entry per symbol and day reaches the broker, for every number of     *)
(* symbols, days and restarts: IntradayAutoTrader._idem and the claim.      *)
THEOREM EntersOnceADay == Spec => []OneEntryPerDay
  <1>1. EntryInv => OneEntryPerDay
    BY DEF EntryInv, OneEntryPerDay
  <1> QED BY <1>1, EntryInit, EntryNext, PTL DEF Spec
-----------------------------------------------------------------------------
(* The stops                                                                *)

(* A stop that rests is for all of its position, and alone.                 *)
TheStop(s, id) == [symbol |-> s, id |-> id, qty |-> Lot]

Backed ==
    \A s \in Symbols :
      \/ Resting(s) = {}
      \/ held[s] = Lot /\ \E id \in 1..Days : Resting(s) = {TheStop(s, id)}

(* What is still to be entered is not held.                                 *)
Unentered ==
    /\ cycle.at \in {"entries", "stop"} => \A s \in cycle.left : held[s] = 0
    /\ cycle.at = "stop" => cycle.symbol \notin cycle.left

StopInv == EntryInv /\ TypeOK /\ Backed /\ Unentered

(* A position with its stop, and all but those of some symbols.             *)
Covered(s) ==
    held[s] > 0 => \E r \in Resting(s) : r.qty = held[s] /\ r.id = ledger[s].stop
CoveredBut(S) == \A s \in Symbols \ S : Covered(s)

(* Entries are for the first part of the day; the session closes after the  *)
(* square-off, which began in its window.                                   *)
DayInv ==
    /\ swept => phase \in {"squareoff", "closed"}
    /\ phase = "closed" => swept
    /\ cycle.at # "idle" /\ cycle.phase = "squareoff" => phase \in {"squareoff", "closed"}
    /\ cycle.at = "stop" => cycle.phase = "signals"
    /\ cycle.at = "entries" /\ cycle.left # {} => cycle.phase = "signals"

(* In a square-off the positions that are left are those still to exit.     *)
Leaves(S) == cycle.phase = "squareoff" => \A s \in Symbols : held[s] > 0 => s \in S

(* An untroubled cycle, by where it is.                                     *)
IdleOK == cycle.at = "idle" => CoveredBut({})
ExitsOK == cycle.at = "exits" =>
    CoveredBut({}) /\ (\A s \in cycle.left : held[s] > 0) /\ Leaves(cycle.left)
ExitOK == cycle.at = "exit" =>
    /\ CoveredBut({cycle.symbol}) /\ Resting(cycle.symbol) = {}
    /\ cycle.symbol \notin cycle.left /\ \A s \in cycle.left : held[s] > 0
    /\ Leaves(cycle.left \cup {cycle.symbol})
EntriesOK == cycle.at = "entries" => CoveredBut({}) /\ Leaves({})
StopOK == cycle.at = "stop" =>
    /\ CoveredBut({cycle.symbol}) /\ Resting(cycle.symbol) = {}
    /\ held[cycle.symbol] \in {0, Lot}
SweptOK == swept =>
    (\A s \in Symbols : held[s] = 0) /\ (cycle.at = "idle" \/ cycle.phase = "squareoff")

Untroubled == IdleOK /\ ExitsOK /\ ExitOK /\ EntriesOK /\ StopOK /\ SweptOK

SafeInv == StopInv /\ DayInv /\ (trouble = {} => Untroubled)

(* What resting stops earmark: nothing without one, its quantity with one.  *)
LEMMA SumNone == MapThenSumSet(LAMBDA r : r.qty, {}) = 0
  <1> DEFINE g == [s \in {{}} |-> 0]
  <1>1. \E iter : iter = [s \in SUBSET {} |->
            IF s = {} THEN 0 ELSE LET x == CHOOSE y \in s : TRUE IN x.qty + iter[s \ {x}]]
    <2>1. g = [s \in SUBSET {} |->
            IF s = {} THEN 0 ELSE LET x == CHOOSE y \in s : TRUE IN x.qty + g[s \ {x}]]
      OBVIOUS
    <2> QED BY <2>1
  <1> QED BY <1>1 DEF MapThenSumSet, MapThenFoldSet

LEMMA SumOne ==
  ASSUME NEW a, a.qty \in Nat PROVE MapThenSumSet(LAMBDA r : r.qty, {a}) = a.qty
  <1> DEFINE g == [s \in SUBSET {a} |-> IF s = {} THEN 0 ELSE a.qty]
             h == CHOOSE iter : iter = [s \in SUBSET {a} |->
                    IF s = {} THEN 0 ELSE LET x == CHOOSE y \in s : TRUE IN x.qty + iter[s \ {x}]]
  <1>1. \E iter : iter = [s \in SUBSET {a} |->
            IF s = {} THEN 0 ELSE LET x == CHOOSE y \in s : TRUE IN x.qty + iter[s \ {x}]]
    <2>1. \A s \in SUBSET {a} : s = {} \/ s = {a}
      OBVIOUS
    <2>2. (CHOOSE y \in {a} : TRUE) = a
      OBVIOUS
    <2>3. {a} \ {a} = {}
      OBVIOUS
    <2>4. g = [s \in SUBSET {a} |->
            IF s = {} THEN 0 ELSE LET x == CHOOSE y \in s : TRUE IN x.qty + g[s \ {x}]]
      BY <2>1, <2>2, <2>3
    <2> QED BY <2>4
  <1>2. h = [s \in SUBSET {a} |->
            IF s = {} THEN 0 ELSE LET x == CHOOSE y \in s : TRUE IN x.qty + h[s \ {x}]]
    BY <1>1
  <1>3. MapThenSumSet(LAMBDA r : r.qty, {a}) = h[{a}]
    BY DEF MapThenSumSet, MapThenFoldSet
  <1> HIDE DEF h
  <1>4. h[{a}] = a.qty + h[{}]
    BY <1>2
  <1>5. h[{}] = 0
    BY <1>2
  <1> QED BY <1>3, <1>4, <1>5

(* What a sell may take: all of a position without a stop, nothing of one    *)
(* with its stop.                                                           *)
LEMMA FreeOf ==
  ASSUME TypeOK, Backed, NEW s \in Symbols
  PROVE  /\ Resting(s) = {} => Free(s) = held[s]
         /\ Resting(s) # {} => Free(s) = 0 /\ held[s] = Lot
  <1>1. held[s] \in Int /\ Lot \in Nat
    BY TraderAssumption DEF TypeOK
  <1>2. CASE Resting(s) = {}
    BY <1>1, <1>2, SumNone DEF Free
  <1>3. CASE Resting(s) # {}
    <2>1. held[s] = Lot /\ \E id \in 1..Days : Resting(s) = {TheStop(s, id)}
      BY <1>3 DEF Backed
    <2>2. PICK id \in 1..Days : Resting(s) = {TheStop(s, id)}
      BY <2>1
    <2>3. TheStop(s, id).qty = Lot
      BY DEF TheStop
    <2>4. MapThenSumSet(LAMBDA r : r.qty, Resting(s)) = Lot
      BY <1>1, <2>2, <2>3, SumOne
    <2> QED BY <1>1, <1>3, <2>1, <2>4 DEF Free
  <1> QED BY <1>2, <1>3

(* A sell that fills anything is of a position without a stop, and within it. *)
LEMMA SellFills ==
  ASSUME TypeOK, Backed, NEW s \in Symbols, NEW q \in Nat \ {0}
  PROVE  /\ Fills("SELL", s, q) \subseteq 0..q /\ 0 \in Fills("SELL", s, q)
         /\ Fills("SELL", s, q) # {0} => Resting(s) = {} /\ q <= held[s] /\ phase # "closed"
  <1>1. held[s] \in Int /\ Lot \in Nat
    BY TraderAssumption DEF TypeOK
  <1>2. CASE phase = "closed" \/ q > Free(s)
    BY <1>2 DEF Fills
  <1>3. CASE ~(phase = "closed" \/ q > Free(s))
    <2>1. Fills("SELL", s, q) = 0..q
      BY <1>3 DEF Fills
    <2>2. Resting(s) = {}
      BY <1>1, <1>3, FreeOf
    <2> QED BY <1>1, <1>3, <2>1, <2>2, FreeOf
  <1> QED BY <1>2, <1>3

(* No order is short of being backed when stops only go, and where one      *)
(* stays the position does.                                                 *)
LEMMA BackedFewer ==
  ASSUME Backed, resting' \subseteq resting,
         \A s \in Symbols : held'[s] = held[s] \/ Resting(s)' = {}
  PROVE  Backed'
  <1> SUFFICES ASSUME NEW s \in Symbols, Resting(s)' # {}
               PROVE  held'[s] = Lot /\ \E id \in 1..Days : Resting(s)' = {TheStop(s, id)}
    BY DEF Backed, TheStop
  <1>1. Resting(s)' \subseteq Resting(s)
    BY DEF Resting
  <1>2. held[s] = Lot /\ \E id \in 1..Days : Resting(s) = {TheStop(s, id)}
    BY <1>1 DEF Backed
  <1>3. PICK id \in 1..Days : Resting(s) = {TheStop(s, id)}
    BY <1>2
  <1>4. Resting(s)' = {TheStop(s, id)}
    BY <1>1, <1>3
  <1> QED BY <1>2, <1>4

(* A busy cycle is of today, and of a symbol when it works on one.          *)
LEMMA CycleAt ==
  ASSUME EntryInv
  PROVE  /\ cycle.at = "idle" => cycle = Sleeping
         /\ cycle.at \in {"idle", "exits", "exit", "entries", "stop"}
         /\ cycle.at # "idle" =>
              cycle \in [at : {cycle.at}, day : {day}, phase : Phases, dark : SUBSET Symbols,
                         symbol : IF cycle.at \in {"exit", "stop"} THEN Symbols ELSE {NoSymbol},
                         left : SUBSET Symbols]
  BY DEF EntryInv, CycleOK, Busy, Sleeping

LEMMA CycleTyped == ASSUME EntryInv PROVE CycleTypeOK
  <1>1. day \in 1..Days
    BY DEF EntryInv
  <1>2. CASE cycle.at = "idle"
    BY <1>2, CycleAt DEF CycleTypeOK
  <1>3. CASE cycle.at # "idle"
    BY <1>1, <1>3, CycleAt, SMTT(30) DEF CycleTypeOK
  <1> QED BY <1>2, <1>3
-----------------------------------------------------------------------------
(* Each step and the stops                                                  *)

(* What the steps have to show of the account, the claims and the ledger.   *)
Keys == {"ENT", "STP", "EXT"} \X Symbols \X (1..Days) \X (0..Lot)

BooksOK ==
    /\ held \in [Symbols -> 0..Lot] /\ resting \subseteq Stops /\ claims \subseteq Keys
    /\ ledger \in [Symbols -> Rows] /\ trouble \subseteq Kinds

(* The rest of the types: the clock and the histories.                      *)
ClockOK ==
    kill \in BOOLEAN /\ entries \in [Symbols -> Nat] /\ swept \in BOOLEAN /\ crashes \in 0..MaxCrashes

LEMMA TypeParts == EntryInv => (TypeOK <=> BooksOK /\ ClockOK)
  <1>1. EntryInv => day \in 1..Days /\ phase \in Phases
    BY DEF EntryInv
  <1> QED BY <1>1, CycleTyped DEF TypeOK, BooksOK, ClockOK, Keys

LEMMA ClaimTyped ==
  ASSUME claims \subseteq Keys, NEW key \in Keys, NEW outcome, Claim(key, outcome)
  PROVE  claims' \subseteq Keys
  BY DEF Claim

LEMMA BlameTyped ==
  ASSUME NEW outcome, NEW f, NEW F PROVE Blame(outcome, f, F) \subseteq Kinds
  BY DEF Blame, Kinds

LEMMA RowTyped == NoRow \in Rows
  BY TraderAssumption DEF NoRow, Rows

LEMMA BeginCycleStops ==
  ASSUME StopInv, BeginCycle PROVE BooksOK' /\ Backed' /\ Unentered'
  <1>1. held' = held /\ resting' = resting /\ claims' = claims /\ trouble' = trouble
    BY DEF BeginCycle
  <1>2. Reconciled \in [Symbols -> Rows]
    BY RowTyped, TraderAssumption DEF StopInv, TypeOK, Reconciled, Rows
  <1>3. BooksOK'
    BY <1>1, <1>2 DEF BeginCycle, BooksOK, StopInv, TypeOK, Keys
  <1>4. Unentered'
    BY DEF BeginCycle, Unentered
  <1> QED BY <1>1, <1>3, <1>4, BackedFewer DEF StopInv

LEMMA CancelStopStops ==
  ASSUME StopInv, CancelStop PROVE BooksOK' /\ Backed' /\ Unentered'
  <1>1. held' = held /\ resting' \subseteq resting /\ claims' = claims /\ ledger' = ledger
    BY DEF CancelStop
  <1>2. trouble' \subseteq Kinds
    BY DEF CancelStop, StopInv, TypeOK, Kinds
  <1>3. cycle \in [at : {"exits"}, day : {day}, phase : Phases, dark : SUBSET Symbols,
                   symbol : {NoSymbol}, left : SUBSET Symbols]
    BY CycleAt DEF CancelStop, StopInv
  <1>4. cycle'.at \in {"exits", "exit"}
    BY <1>3 DEF CancelStop
  <1> QED BY <1>1, <1>2, <1>4, BackedFewer DEF BooksOK, StopInv, TypeOK, Keys, Unentered

(* An exit fills only where no stop is left.                                *)
LEMMA SubmitExitStops ==
  ASSUME StopInv, SubmitExit PROVE BooksOK' /\ Backed' /\ Unentered'
  <1> DEFINE s == cycle.symbol
             q == held[s]
  <1>1. cycle \in [at : {"exit"}, day : {day}, phase : Phases, dark : SUBSET Symbols,
                   symbol : Symbols, left : SUBSET Symbols]
    BY CycleAt DEF SubmitExit, StopInv
  <1>2. s \in Symbols /\ q \in 0..Lot /\ resting' = resting /\ Lot \in Nat /\ day \in 1..Days
    BY <1>1, TraderAssumption DEF SubmitExit, StopInv, TypeOK
  <1>3. cycle'.at = "exits"
    BY <1>1 DEF SubmitExit, Resume
  <1>4. ledger' \in [Symbols -> Rows]
    BY RowTyped DEF SubmitExit, Dropped, StopInv, TypeOK
  <1>5. CASE q = 0
    <2>1. held' = held /\ claims' = claims /\ trouble' = trouble
      BY <1>5 DEF SubmitExit
    <2> QED BY <2>1, <1>2, <1>3, <1>4, BackedFewer DEF BooksOK, StopInv, TypeOK, Keys, Unentered
  <1>6. CASE q # 0
    <2>0. PICK outcome \in Outcomes(ExitKey(s, q)) :
          \E f \in IF outcome = "placed" THEN Fills("SELL", s, q) ELSE {0} :
            /\ Claim(ExitKey(s, q), outcome)
            /\ held' = [held EXCEPT ![s] = @ - f]
            /\ trouble' = trouble \cup Blame(outcome, f, Fills("SELL", s, q))
      BY <1>6 DEF SubmitExit
    <2>1. PICK f \in IF outcome = "placed" THEN Fills("SELL", s, q) ELSE {0} :
            /\ Claim(ExitKey(s, q), outcome)
            /\ held' = [held EXCEPT ![s] = @ - f]
            /\ trouble' = trouble \cup Blame(outcome, f, Fills("SELL", s, q))
      BY <2>0
    <2>2. f \in 0..q /\ (f # 0 => Resting(s) = {})
      BY <1>2, <1>6, <2>1, SellFills DEF StopInv
    <2>3. ExitKey(s, q) \in Keys
      BY <1>1, <1>2 DEF ExitKey, Keys
    <2>4. claims' \subseteq Keys
      BY <2>1, <2>3, ClaimTyped DEF StopInv, TypeOK, Keys
    <2>5. trouble' \subseteq Kinds
      BY <2>1, BlameTyped DEF StopInv, TypeOK
    <2>6. held' \in [Symbols -> 0..Lot]
      BY <1>2, <2>1, <2>2 DEF StopInv, TypeOK
    <2>7. \A t \in Symbols : held'[t] = held[t] \/ Resting(t)' = {}
      BY <1>2, <2>1, <2>2 DEF StopInv, TypeOK, Resting
    <2>8. Backed'
      BY <1>2, <2>7, BackedFewer DEF StopInv
    <2> QED BY <1>2, <1>3, <1>4, <2>4, <2>5, <2>6, <2>8 DEF BooksOK, StopInv, TypeOK, Unentered
  <1> QED BY <1>5, <1>6

LEMMA ExitRaisesStops ==
  ASSUME StopInv, ExitRaises PROVE BooksOK' /\ Backed' /\ Unentered'
  <1>1. held' = held /\ resting' = resting /\ claims' = claims /\ ledger' = ledger
          /\ trouble' = trouble \cup {"nobar"} /\ cycle'.at = "idle"
    BY DEF ExitRaises, Sleeping
  <1> QED BY <1>1, BackedFewer DEF BooksOK, StopInv, TypeOK, Keys, Kinds, Unentered

LEMMA BeginEntriesStops ==
  ASSUME StopInv, BeginEntries PROVE BooksOK' /\ Backed' /\ Unentered'
  <1>1. held' = held /\ resting' = resting /\ claims' = claims /\ ledger' = ledger
          /\ trouble' = trouble
    BY DEF BeginEntries
  <1>2. PICK chosen \in Signals :
          cycle' = [cycle EXCEPT !.at = "entries", !.left = {s \in chosen : ledger[s] = NoRow}]
    BY DEF BeginEntries
  <1>3. \A s \in chosen : held[s] = 0
    BY DEF Signals
  <1>4. cycle'.at = "entries" /\ cycle'.left \subseteq chosen
    <2>1. cycle \in [at : {"exits"}, day : {day}, phase : Phases, dark : SUBSET Symbols,
                     symbol : {NoSymbol}, left : SUBSET Symbols]
      BY CycleAt DEF BeginEntries, StopInv
    <2> QED BY <1>2, <2>1
  <1>5. Unentered'
    BY <1>1, <1>3, <1>4 DEF Unentered
  <1> QED BY <1>1, <1>5, BackedFewer DEF BooksOK, StopInv, TypeOK, Keys

(* An entry is of a symbol that is not held, so no stop rests on it.        *)
LEMMA SubmitEntryStops ==
  ASSUME StopInv, SubmitEntry PROVE BooksOK' /\ Backed' /\ Unentered'
  <1>1. cycle \in [at : {"entries"}, day : {day}, phase : Phases, dark : SUBSET Symbols,
                   symbol : {NoSymbol}, left : SUBSET Symbols]
    BY CycleAt DEF SubmitEntry, StopInv
  <1>2. PICK s \in cycle.left : \E outcome \in Outcomes(Idem("ENT", s)) :
          \E f \in IF outcome = "placed" THEN Fills("BUY", s, Lot) ELSE {0} :
            /\ Claim(Idem("ENT", s), outcome)
            /\ held' = [held EXCEPT ![s] = @ + f]
            /\ IF outcome = "placed"
               THEN /\ ledger' = RecordEntry(s)
                    /\ trouble' = trouble \cup Blame(outcome, f, Fills("BUY", s, Lot))
                    /\ cycle' = [cycle EXCEPT !.at = "stop", !.left = @ \ {s}, !.symbol = s]
               ELSE /\ cycle' = [cycle EXCEPT !.left = @ \ {s}]
                    /\ UNCHANGED <<ledger, trouble>>
    BY DEF SubmitEntry
  <1>3. PICK outcome \in Outcomes(Idem("ENT", s)),
             f \in 0..Lot :
            /\ Claim(Idem("ENT", s), outcome)
            /\ held' = [held EXCEPT ![s] = @ + f]
            /\ IF outcome = "placed"
               THEN /\ ledger' = RecordEntry(s)
                    /\ trouble' = trouble \cup Blame(outcome, f, Fills("BUY", s, Lot))
                    /\ cycle' = [cycle EXCEPT !.at = "stop", !.left = @ \ {s}, !.symbol = s]
               ELSE /\ cycle' = [cycle EXCEPT !.left = @ \ {s}]
                    /\ UNCHANGED <<ledger, trouble>>
    <2>1. Fills("BUY", s, Lot) \subseteq 0..Lot /\ 0 \in 0..Lot
      BY TraderAssumption DEF Fills
    <2> QED BY <1>2, <2>1
  <1>4. s \in Symbols /\ resting' = resting /\ held[s] = 0 /\ Lot \in Nat \ {0} /\ day \in 1..Days
    BY <1>1, TraderAssumption DEF SubmitEntry, StopInv, Unentered, TypeOK
  <1>5. held' \in [Symbols -> 0..Lot] /\ \A t \in Symbols \ {s} : held'[t] = held[t]
    BY <1>3, <1>4 DEF StopInv, TypeOK
  <1>6. Idem("ENT", s) \in Keys
    BY <1>1, <1>4 DEF Idem, Keys
  <1>7. claims' \subseteq Keys
    BY <1>3, <1>6, ClaimTyped DEF StopInv, TypeOK, Keys
  <1>8. trouble' \subseteq Kinds
    BY <1>3, BlameTyped DEF StopInv, TypeOK
  <1>9. ledger' \in [Symbols -> Rows]
    <2>1. [qty |-> Lot, levels |-> TRUE, stop |-> 0] \in Rows
      BY TraderAssumption DEF Rows
    <2> QED BY <1>3, <2>1 DEF RecordEntry, StopInv, TypeOK
  <1>10. Resting(s)' = {}
    BY <1>4, BackedFewer DEF Resting, StopInv, Backed
  <1>11. Backed'
    BY <1>4, <1>5, <1>10, BackedFewer DEF StopInv
  <1>12. cycle'.left = cycle.left \ {s} /\ (cycle'.at = "stop" => cycle'.symbol = s)
    BY <1>1, <1>3
  <1>13. Unentered'
    BY <1>1, <1>5, <1>12 DEF StopInv, Unentered
  <1> QED BY <1>4, <1>5, <1>7, <1>8, <1>9, <1>11, <1>13 DEF BooksOK, StopInv, TypeOK

(* A stop that rests takes a whole position that had none.                  *)
LEMMA PlaceStopStops ==
  ASSUME StopInv, PlaceStop PROVE BooksOK' /\ Backed' /\ Unentered'
  <1>1. cycle \in [at : {"stop"}, day : {day}, phase : Phases, dark : SUBSET Symbols,
                   symbol : Symbols, left : SUBSET Symbols]
    BY CycleAt DEF PlaceStop, StopInv
  <1> PICK s \in Symbols : s = cycle.symbol
    BY <1>1
  <1> DEFINE rests == [symbol |-> s, id |-> day, qty |-> Lot]
  <1>2. s \in Symbols /\ Lot \in Nat \ {0} /\ cycle.day = day /\ day \in 1..Days /\ s \notin cycle.left
    BY <1>1, TraderAssumption DEF StopInv, TypeOK, Unentered
  <1>3. cycle'.at = "entries" /\ cycle'.left = cycle.left
    BY <1>1 DEF PlaceStop, Resume
  <1>4. ledger' \in [Symbols -> Rows]
    <2>1. ledger' = [ledger EXCEPT ![s].stop = day]
      BY <1>2 DEF PlaceStop
    <2>2. [ledger[s] EXCEPT !.stop = day] \in Rows
      BY <1>2 DEF Rows, StopInv, TypeOK
    <2> QED BY <2>1, <2>2, <1>2 DEF StopInv, TypeOK
  <1>5. claims' \subseteq Keys
    <2>1. Idem("STP", s) \in Keys
      BY <1>2, TraderAssumption DEF Idem, Keys
    <2>2. Claim(Idem("STP", s), "placed")
      BY DEF PlaceStop
    <2> QED BY <2>1, <2>2, ClaimTyped DEF StopInv, TypeOK, Keys
  <1>6. CASE /\ Fills("SELL", s, Lot) # {0}
             /\ resting' = resting \cup {rests}
             /\ UNCHANGED <<held, trouble>>
    <2>1. Resting(s) = {} /\ held[s] = Lot
      <3>1. held[s] \in 0..Lot
        BY <1>2 DEF StopInv, TypeOK
      <3> QED BY <3>1, <1>2, <1>6, SellFills DEF StopInv
    <2>2. rests = TheStop(s, day) /\ rests \in Stops /\ rests.symbol = s
      BY <1>2 DEF TheStop, Stops
    <2> HIDE DEF rests
    <2>3. Resting(s)' = {TheStop(s, day)}
      BY <2>1, <2>2, <1>6 DEF Resting
    <2>4. \A t \in Symbols \ {s} : Resting(t)' = Resting(t)
      BY <1>6, <2>2 DEF Resting
    <2>5. Backed'
      <3> SUFFICES ASSUME NEW t \in Symbols
                   PROVE  \/ Resting(t)' = {}
                          \/ held'[t] = Lot /\ \E id \in 1..Days : Resting(t)' = {TheStop(t, id)}
        BY DEF Backed, TheStop
      <3>1. CASE t = s
        BY <1>2, <1>6, <2>1, <2>3, <3>1
      <3>2. CASE t # s
        BY <1>6, <2>4, <3>2 DEF StopInv, Backed
      <3> QED BY <3>1, <3>2
    <2>6. Unentered'
      BY <1>3, <1>6, <1>1 DEF StopInv, Unentered
    <2> QED BY <1>4, <1>5, <1>6, <2>2, <2>5, <2>6 DEF BooksOK, StopInv, TypeOK
  <1>7. CASE \E f \in Fills("SELL", s, Lot) :
               /\ held' = [held EXCEPT ![s] = @ - f]
               /\ trouble' = trouble \cup Blame("placed", f, Fills("SELL", s, Lot))
               /\ UNCHANGED resting
    <2>1. PICK f \in Fills("SELL", s, Lot) :
               /\ held' = [held EXCEPT ![s] = @ - f]
               /\ trouble' = trouble \cup Blame("placed", f, Fills("SELL", s, Lot))
               /\ UNCHANGED resting
      BY <1>7
    <2>2. f \in 0..Lot /\ (f # 0 => Resting(s) = {} /\ Lot <= held[s])
      BY <1>2, <2>1, SellFills DEF StopInv
    <2>3. trouble' \subseteq Kinds
      BY <2>1, BlameTyped DEF StopInv, TypeOK
    <2>4. held' \in [Symbols -> 0..Lot] /\ \A t \in Symbols \ {s} : held'[t] = held[t]
      BY <1>2, <2>1, <2>2 DEF StopInv, TypeOK
    <2>5. \A t \in Symbols : held'[t] = held[t] \/ Resting(t)' = {}
      BY <1>2, <2>1, <2>2 DEF StopInv, TypeOK, Resting
    <2>6. Backed'
      BY <2>1, <2>5, BackedFewer DEF StopInv
    <2>7. Unentered'
      BY <1>1, <1>2, <1>3, <2>4 DEF StopInv, Unentered
    <2> QED BY <1>4, <1>5, <2>1, <2>3, <2>4, <2>6, <2>7 DEF BooksOK, StopInv, TypeOK
  <1> QED BY <1>2, <1>6, <1>7 DEF PlaceStop

LEMMA StopRefusedStops ==
  ASSUME StopInv, StopRefused PROVE BooksOK' /\ Backed' /\ Unentered'
  <1>1. cycle \in [at : {"stop"}, day : {day}, phase : Phases, dark : SUBSET Symbols,
                   symbol : Symbols, left : SUBSET Symbols]
    BY CycleAt DEF StopRefused, StopInv
  <1>2. held' = held /\ resting' = resting
    BY DEF StopRefused
  <1>3. PICK outcome \in Outcomes(Idem("STP", cycle.symbol)) :
          /\ Claim(Idem("STP", cycle.symbol), outcome)
          /\ trouble' = trouble \cup Blame(outcome, 0, {})
    BY DEF StopRefused
  <1>4. Idem("STP", cycle.symbol) \in Keys
    BY <1>1, TraderAssumption DEF Idem, Keys, StopInv, TypeOK
  <1>5. claims' \subseteq Keys /\ trouble' \subseteq Kinds
    BY <1>3, <1>4, ClaimTyped, BlameTyped DEF StopInv, TypeOK, Keys
  <1>6. ledger' \in [Symbols -> Rows]
    BY <1>1, RowTyped DEF StopRefused, Dropped, StopInv, TypeOK
  <1>7. Unentered'
    BY <1>1, <1>2 DEF StopRefused, Resume, StopInv, Unentered
  <1> QED BY <1>2, <1>5, <1>6, <1>7, BackedFewer DEF BooksOK, StopInv, TypeOK

(* A stop that fills, if only in part, rests no longer.                     *)
LEMMA PollStops ==
  ASSUME StopInv, Poll PROVE BooksOK' /\ Backed' /\ Unentered'
  <1>0. PICK r \in resting : \E f \in 1..r.qty :
          /\ resting' = resting \ {r}
          /\ held' = [held EXCEPT ![r.symbol] = @ - f]
          /\ trouble' = trouble \cup Blame("placed", f, 0..r.qty)
    BY DEF Poll
  <1>1. PICK f \in 1..r.qty :
          /\ resting' = resting \ {r}
          /\ held' = [held EXCEPT ![r.symbol] = @ - f]
          /\ trouble' = trouble \cup Blame("placed", f, 0..r.qty)
    BY <1>0
  <1>2. claims' = claims /\ ledger' = ledger /\ cycle' = cycle /\ cycle.at = "idle"
    BY DEF Poll
  <1>3. r.symbol \in Symbols /\ r \in Resting(r.symbol)
    BY DEF StopInv, TypeOK, Stops, Resting
  <1>4. held[r.symbol] = Lot /\ \E id \in 1..Days : Resting(r.symbol) = {TheStop(r.symbol, id)}
    BY <1>3 DEF StopInv, Backed
  <1>5. r.qty = Lot /\ Resting(r.symbol) = {r}
    BY <1>3, <1>4 DEF TheStop
  <1>6. held' \in [Symbols -> 0..Lot] /\ \A t \in Symbols \ {r.symbol} : held'[t] = held[t]
    BY <1>1, <1>3, <1>4, <1>5, TraderAssumption DEF StopInv, TypeOK
  <1>7. Resting(r.symbol)' = {}
    BY <1>1, <1>5 DEF Resting
  <1>8. Backed'
    BY <1>1, <1>6, <1>7, BackedFewer DEF StopInv
  <1>9. trouble' \subseteq Kinds
    BY <1>1, BlameTyped DEF StopInv, TypeOK
  <1> QED BY <1>1, <1>2, <1>6, <1>8, <1>9 DEF BooksOK, StopInv, TypeOK, Keys, Unentered

(* The steps that leave the account alone.                                  *)
LEMMA OtherStops ==
  ASSUME StopInv, EndCycle \/ KillSwitch \/ Tick \/ NextDay \/ Crash \/ UNCHANGED vars
  PROVE  BooksOK' /\ Backed' /\ Unentered'
  <1>1. held' = held /\ resting' = resting /\ claims' = claims
    BY DEF EndCycle, KillSwitch, Tick, NextDay, Crash, vars
  <1>2. cycle' = cycle \/ cycle'.at = "idle"
    BY DEF EndCycle, KillSwitch, Tick, NextDay, Crash, vars, Sleeping
  <1>3. ledger' \in [Symbols -> Rows]
    BY RowTyped DEF EndCycle, KillSwitch, Tick, NextDay, Crash, vars, StopInv, TypeOK
  <1>4. trouble' \subseteq Kinds
    BY DEF EndCycle, KillSwitch, Tick, NextDay, Crash, vars, StopInv, TypeOK, Kinds
  <1>5. Unentered'
    BY <1>1, <1>2 DEF StopInv, Unentered
  <1> QED BY <1>1, <1>3, <1>4, <1>5, BackedFewer DEF BooksOK, StopInv, TypeOK, Keys

LEMMA ClockStep == ASSUME StopInv, [Next]_vars PROVE ClockOK'
  <1> USE DEF environment
  <1>1. CASE BeginCycle \/ CancelStop \/ SubmitExit \/ ExitRaises \/ BeginEntries \/ PlaceStop
               \/ StopRefused \/ EndCycle \/ Poll
    <2>1. kill' = kill /\ entries' = entries /\ crashes' = crashes
      BY <1>1 DEF BeginCycle, CancelStop, SubmitExit, ExitRaises, BeginEntries, PlaceStop,
                  StopRefused, EndCycle, Poll
    <2>2. swept' \in BOOLEAN
      BY <1>1 DEF BeginCycle, CancelStop, SubmitExit, ExitRaises, BeginEntries, PlaceStop,
                  StopRefused, EndCycle, Poll, StopInv, TypeOK
    <2> QED BY <2>1, <2>2 DEF ClockOK, StopInv, TypeOK
  <1>2. CASE SubmitEntry
    <2>1. kill' = kill /\ swept' = swept /\ crashes' = crashes
      BY <1>2 DEF SubmitEntry
    <2>2. entries' \in [Symbols -> Nat]
      BY <1>2 DEF SubmitEntry, StopInv, TypeOK
    <2> QED BY <2>1, <2>2 DEF ClockOK, StopInv, TypeOK
  <1>3. CASE KillSwitch \/ Tick \/ UNCHANGED vars
    BY <1>3 DEF KillSwitch, Tick, vars, ClockOK, StopInv, TypeOK
  <1>4. CASE NextDay
    BY <1>4 DEF NextDay, ClockOK, StopInv, TypeOK
  <1>5. CASE Crash
    BY <1>5, TraderAssumption DEF Crash, ClockOK, StopInv, TypeOK
  <1> QED BY <1>1, <1>2, <1>3, <1>4, <1>5 DEF Next

LEMMA StopInit == Init => StopInv
  <1> SUFFICES ASSUME Init PROVE StopInv
    OBVIOUS
  <1>1. EntryInv
    BY EntryInit
  <1>2. BooksOK
    BY RowTyped, TraderAssumption DEF Init, BooksOK
  <1>3. ClockOK
    <2>1. entries \in [Symbols -> Nat] /\ crashes \in 0..MaxCrashes
      BY TraderAssumption DEF Init
    <2> QED BY <2>1 DEF Init, ClockOK
  <1>4. Backed /\ Unentered
    BY DEF Init, Backed, Resting, Unentered, Sleeping
  <1> QED BY <1>1, <1>2, <1>3, <1>4, TypeParts DEF StopInv

LEMMA StopNext == ASSUME StopInv, [Next]_vars PROVE StopInv'
  <1>1. EntryInv'
    BY EntryNext DEF StopInv
  <1>2. BooksOK' /\ Backed' /\ Unentered'
    BY BeginCycleStops, CancelStopStops, SubmitExitStops, ExitRaisesStops, BeginEntriesStops,
       SubmitEntryStops, PlaceStopStops, StopRefusedStops, PollStops, OtherStops DEF Next
  <1>3. (EntryInv => (TypeOK <=> BooksOK /\ ClockOK))'
    BY TypeParts, PTL
  <1> QED BY <1>1, <1>2, <1>3, ClockStep DEF StopInv

(* No stop outlives the stock that backs it, and the book is never short,    *)
(* for every number of symbols, shares, days and restarts: whatever the     *)
(* entries, stops, exits and polls come to, and though an exit goes on      *)
(* after a cancellation that failed (_execute_exit, PaperBroker).            *)
THEOREM NeverShort == Spec => []StopsAreBacked
  <1>1. StopInv => StopsAreBacked
    <2> SUFFICES ASSUME StopInv, NEW s \in Symbols PROVE Free(s) >= 0
      BY DEF StopsAreBacked, StopInv
    <2>1. held[s] \in 0..Lot
      BY DEF StopInv, TypeOK
    <2> QED BY <2>1, FreeOf DEF StopInv
  <1> QED BY <1>1, StopInit, StopNext, PTL DEF Spec

-----------------------------------------------------------------------------
(* The day without trouble                                                  *)

LEMMA MaxTo == ASSUME NEW n \in Nat PROVE Max(0..n) = n /\ Max({0}) = 0
  <1>1. \A x \in 0..n : (\A y \in 0..n : x >= y) <=> x = n
    OBVIOUS
  <1>2. n \in 0..n
    OBVIOUS
  <1>3. Max(0..n) = n
    BY <1>1, <1>2 DEF Max
  <1>4. Max({0}) = 0
    BY DEF Max
  <1> QED BY <1>3, <1>4

(* A step that is not to blame is of an order that was placed and filled as  *)
(* far as it could.                                                         *)
LEMMA Blameless ==
  ASSUME NEW outcome, NEW f, NEW F, trouble' = trouble \cup Blame(outcome, f, F), trouble' = {}
  PROVE  trouble = {} /\ outcome = "placed" /\ f = Max(F)
  BY DEF Blame

(* A covered position stays covered where nothing of it changes.            *)
LEMMA CoverFrame ==
  ASSUME NEW s, held'[s] = held[s], Resting(s)' = Resting(s), ledger'[s].stop = ledger[s].stop,
         Covered(s)
  PROVE  Covered(s)'
  BY DEF Covered

(* A position without its stop is not covered, and the row of a covered one  *)
(* names its stop.                                                          *)
LEMMA CoverRow ==
  ASSUME StopInv, NEW s \in Symbols, Covered(s), held[s] > 0
  PROVE  /\ ledger[s].stop \in 1..Days
         /\ Resting(s) = {TheStop(s, ledger[s].stop)} /\ held[s] = Lot
  <1>1. PICK r \in Resting(s) : r.qty = held[s] /\ r.id = ledger[s].stop
    BY DEF Covered
  <1>2. held[s] = Lot /\ \E id \in 1..Days : Resting(s) = {TheStop(s, id)}
    BY <1>1 DEF StopInv, Backed
  <1>3. PICK id \in 1..Days : Resting(s) = {TheStop(s, id)}
    BY <1>2
  <1>4. ledger[s].stop = id
    BY <1>1, <1>3 DEF TheStop
  <1> QED BY <1>2, <1>3, <1>4

(* Once the session's square-off is over nothing is held.                  *)
LEMMA ClosedFlat ==
  ASSUME DayInv, Untroubled, phase = "closed" \/ swept
  PROVE  \A s \in Symbols : held[s] = 0
  BY DEF DayInv, Untroubled, SweptOK

(* The prices of a new cycle decide over every position in the square-off,   *)
(* and its ledger keeps the stops it knew.                                  *)
LEMMA BeginCycleSafe ==
  ASSUME SafeInv, BeginCycle PROVE DayInv' /\ (trouble' = {} => Untroubled')
  <1>0. held' = held /\ resting' = resting /\ trouble' = trouble /\ swept' = swept /\ phase' = phase
          /\ cycle.at = "idle"
    BY DEF BeginCycle, environment
  <1>1. PICK bars \in [Symbols -> Bars] :
          cycle' = [at |-> "exits", day |-> day, phase |-> phase,
                    dark |-> {s \in Symbols : bars[s].band = "none"},
                    symbol |-> NoSymbol, left |-> Decisions(bars)]
    BY DEF BeginCycle
  <1>2. cycle'.at = "exits" /\ cycle'.phase = phase /\ cycle'.left = Decisions(bars)
    BY <1>1
  <1>3. DayInv'
    BY <1>0, <1>2 DEF SafeInv, DayInv
  <1>4. ASSUME trouble' = {} PROVE Untroubled'
    <2>1. \A s \in Symbols : Covered(s)
      BY <1>0, <1>4 DEF SafeInv, Untroubled, IdleOK, CoveredBut
    <2>2. \A s \in Symbols : held[s] > 0 =>
            /\ Reconciled[s] = [ledger[s] EXCEPT !.qty = held[s]]
            /\ Reconciled[s].stop = ledger[s].stop /\ Reconciled[s] # NoRow
      <3> SUFFICES ASSUME NEW s \in Symbols, held[s] > 0
                   PROVE  /\ Reconciled[s] = [ledger[s] EXCEPT !.qty = held[s]]
                          /\ Reconciled[s].stop = ledger[s].stop /\ Reconciled[s] # NoRow
        OBVIOUS
      <3>1. ledger[s].stop \in 1..Days
        BY <2>1, CoverRow DEF SafeInv
      <3>2. ledger[s] # NoRow /\ ledger[s] \in Rows /\ held[s] \in 0..Lot
        BY <3>1 DEF NoRow, SafeInv, StopInv, TypeOK
      <3>3. Reconciled[s] = [ledger[s] EXCEPT !.qty = held[s]]
        BY <3>2, TraderAssumption DEF Reconciled
      <3>4. Reconciled[s].stop = ledger[s].stop
        BY <3>2, <3>3 DEF Rows
      <3> QED BY <3>1, <3>3, <3>4 DEF NoRow
    <2>3. \A s \in Symbols : held[s] = 0 => Reconciled[s] = NoRow
      BY DEF Reconciled
    <2>4. CoveredBut({})'
      <3> SUFFICES ASSUME NEW s \in Symbols PROVE Covered(s)'
        BY DEF CoveredBut, Covered, Resting
      <3>1. CASE held[s] > 0
        <4>1. ledger'[s].stop = ledger[s].stop
          BY <2>2, <3>1 DEF BeginCycle
        <4> QED BY <1>0, <2>1, <4>1, CoverFrame DEF Resting
      <3>2. CASE ~(held[s] > 0)
        BY <1>0, <3>2 DEF Covered
      <3> QED BY <3>1, <3>2
    <2>5. \A s \in Symbols : held[s] \in 0..Lot
      BY DEF SafeInv, StopInv, TypeOK
    <2>6. \A s \in cycle'.left : held'[s] > 0
      BY <1>0, <1>2, <2>3, <2>5, TraderAssumption DEF Decisions
    <2>7. Leaves(cycle.left)'
      BY <1>0, <1>2, <2>2 DEF Leaves, Decisions, ShouldExit
    <2>8. SweptOK'
      <3>1. swept => phase = "squareoff"
        BY DEF BeginCycle, SafeInv, DayInv
      <3> QED BY <1>0, <1>2, <1>4, <3>1 DEF SafeInv, Untroubled, SweptOK
    <2> QED BY <1>2, <2>4, <2>6, <2>7, <2>8 DEF Untroubled, IdleOK, ExitsOK, ExitOK, EntriesOK, StopOK
  <1> QED BY <1>3, <1>4

(* An exit begins with a position and takes its stop away.                  *)
LEMMA CancelStopSafe ==
  ASSUME SafeInv, CancelStop PROVE DayInv' /\ (trouble' = {} => Untroubled')
  <1>0. held' = held /\ ledger' = ledger /\ swept' = swept /\ phase' = phase /\ cycle.at = "exits"
    BY DEF CancelStop, environment
  <1>1. cycle \in [at : {"exits"}, day : {day}, phase : Phases, dark : SUBSET Symbols,
                   symbol : {NoSymbol}, left : SUBSET Symbols]
    BY <1>0, CycleAt DEF SafeInv, StopInv
  <1>2. PICK s \in cycle.left :
         \/ /\ ledger[s].stop # 0 /\ kill
            /\ cycle' = [cycle EXCEPT !.left = @ \ {s}]
            /\ trouble' = trouble \cup {"killed"}
         \/ /\ ledger[s].stop = 0 \/ ~kill
            /\ cycle' = [cycle EXCEPT !.at = "exit", !.left = @ \ {s}, !.symbol = s]
            /\ \/ /\ resting' = resting \ {r \in resting : r.symbol = s /\ r.id = ledger[s].stop}
                  /\ UNCHANGED trouble
               \/ trouble' = trouble \cup {"uncancelled"}
    BY DEF CancelStop
  <1>3. cycle'.at \in {"exits", "exit"} /\ cycle'.phase = cycle.phase
    BY <1>1, <1>2
  <1>4. DayInv'
    BY <1>0, <1>3 DEF SafeInv, DayInv
  <1>5. ASSUME trouble' = {} PROVE Untroubled'
    <2>1. /\ cycle' = [cycle EXCEPT !.at = "exit", !.left = @ \ {s}, !.symbol = s]
          /\ resting' = resting \ {r \in resting : r.symbol = s /\ r.id = ledger[s].stop}
          /\ trouble = {}
      BY <1>2, <1>5
    <2>2. cycle'.at = "exit" /\ cycle'.left = cycle.left \ {s} /\ cycle'.symbol = s
            /\ cycle'.phase = cycle.phase /\ s \in Symbols
      BY <1>1, <2>1
    <2>3. (\A t \in Symbols : Covered(t)) /\ (\A t \in cycle.left : held[t] > 0) /\ Leaves(cycle.left)
      BY <1>0, <2>1 DEF SafeInv, Untroubled, ExitsOK, CoveredBut
    <2>4. Resting(s) = {TheStop(s, ledger[s].stop)}
      BY <2>2, <2>3, CoverRow DEF SafeInv
    <2>5. Resting(s)' = {}
      BY <2>1, <2>4 DEF Resting, TheStop
    <2>6. \A t \in Symbols \ {s} : Resting(t)' = Resting(t)
      BY <2>1 DEF Resting
    <2>7. \A t \in Symbols \ {s} : Covered(t)'
      BY <1>0, <2>3, <2>6, CoverFrame
    <2>8. CoveredBut({cycle.symbol})'
      BY <2>2, <2>7 DEF CoveredBut, Covered, Resting
    <2>9. (Resting(cycle.symbol) = {})'
      BY <2>2, <2>5 DEF Resting
    <2>10. Leaves(cycle.left \cup {cycle.symbol})'
      BY <1>0, <2>2, <2>3 DEF Leaves
    <2>11. ~swept
      BY <1>0, <2>1, <2>2, <2>3 DEF SafeInv, Untroubled, SweptOK
    <2> QED BY <1>0, <2>2, <2>3, <2>8, <2>9, <2>10, <2>11
            DEF Untroubled, IdleOK, ExitsOK, ExitOK, EntriesOK, StopOK, SweptOK
  <1> QED BY <1>4, <1>5

(* An exit that is not to blame sells the whole position.                   *)
LEMMA SubmitExitSafe ==
  ASSUME SafeInv, SubmitExit PROVE DayInv' /\ (trouble' = {} => Untroubled')
  <1>0. resting' = resting /\ swept' = swept /\ phase' = phase /\ cycle.at = "exit"
    BY DEF SubmitExit, environment
  <1>1. cycle \in [at : {"exit"}, day : {day}, phase : Phases, dark : SUBSET Symbols,
                   symbol : Symbols, left : SUBSET Symbols]
    BY <1>0, CycleAt DEF SafeInv, StopInv
  <1>2. PICK s \in Symbols : s = cycle.symbol
    BY <1>1
  <1>3. cycle'.at = "exits" /\ cycle'.phase = cycle.phase /\ cycle'.left = cycle.left
    BY <1>1 DEF SubmitExit, Resume
  <1>4. DayInv'
    BY <1>0, <1>3 DEF SafeInv, DayInv
  <1>5. ASSUME trouble' = {} PROVE Untroubled'
    <2> DEFINE q == held[s]
    <2>1. q \in 0..Lot /\ Lot \in Nat
      BY TraderAssumption DEF SafeInv, StopInv, TypeOK
    <2>2. trouble = {}
      BY <1>2, <1>5, Blameless DEF SubmitExit
    <2>3. /\ \A t \in Symbols \ {s} : Covered(t)
          /\ Resting(s) = {} /\ s \notin cycle.left /\ \A t \in cycle.left : held[t] > 0
          /\ Leaves(cycle.left \cup {s}) /\ SweptOK
      BY <1>0, <1>2, <2>2 DEF SafeInv, Untroubled, ExitOK, CoveredBut
    <2>4. /\ held'[s] = 0 /\ \A t \in Symbols \ {s} : held'[t] = held[t]
          /\ \A t \in Symbols \ {s} : ledger'[t] = ledger[t]
      <3>1. CASE q = 0
        BY <1>2, <3>1 DEF SubmitExit, Dropped, SafeInv, StopInv, TypeOK
      <3>2. CASE q # 0
        <4>1. PICK outcome \in Outcomes(ExitKey(s, q)) :
              \E f \in IF outcome = "placed" THEN Fills("SELL", s, q) ELSE {0} :
                /\ held' = [held EXCEPT ![s] = @ - f]
                /\ ledger' = IF outcome = "placed" THEN Dropped(s) ELSE ledger
                /\ trouble' = trouble \cup Blame(outcome, f, Fills("SELL", s, q))
          BY <1>2, <3>2 DEF SubmitExit
        <4>2. PICK f \in IF outcome = "placed" THEN Fills("SELL", s, q) ELSE {0} :
                /\ held' = [held EXCEPT ![s] = @ - f]
                /\ ledger' = IF outcome = "placed" THEN Dropped(s) ELSE ledger
                /\ trouble' = trouble \cup Blame(outcome, f, Fills("SELL", s, q))
          BY <4>1
        <4>3. outcome = "placed" /\ f = Max(Fills("SELL", s, q))
          BY <1>5, <4>2, Blameless
        <4>4. phase # "closed"
          BY <2>2, <3>2, ClosedFlat DEF SafeInv
        <4>5. Free(s) = q
          BY <2>3, FreeOf DEF SafeInv, StopInv
        <4>6. Fills("SELL", s, q) = 0..q
          BY <2>1, <4>4, <4>5 DEF Fills
        <4>7. f = q
          BY <2>1, <4>3, <4>6, MaxTo
        <4> QED BY <2>1, <4>2, <4>7 DEF Dropped, SafeInv, StopInv, TypeOK
      <3> QED BY <3>1, <3>2
    <2>5. \A t \in Symbols \ {s} : Covered(t)'
      BY <1>0, <2>3, <2>4, CoverFrame DEF Resting
    <2>6. CoveredBut({})'
      <3>1. Covered(s)'
        BY <2>4 DEF Covered
      <3> QED BY <2>5, <3>1 DEF CoveredBut, Covered, Resting
    <2>7. Leaves(cycle.left)'
      BY <1>3, <2>3, <2>4 DEF Leaves
    <2>8. \A t \in cycle'.left : held'[t] > 0
      BY <1>1, <1>3, <2>3, <2>4
    <2>9. SweptOK'
      BY <1>0, <1>3, <2>3, <2>4 DEF SweptOK
    <2> QED BY <1>3, <2>6, <2>7, <2>8, <2>9 DEF Untroubled, IdleOK, ExitsOK, ExitOK, EntriesOK, StopOK
  <1> QED BY <1>4, <1>5

LEMMA BeginEntriesSafe ==
  ASSUME SafeInv, BeginEntries PROVE DayInv' /\ (trouble' = {} => Untroubled')
  <1>0. held' = held /\ resting' = resting /\ ledger' = ledger /\ trouble' = trouble
          /\ swept' = swept /\ phase' = phase /\ cycle.at = "exits" /\ cycle.left = {}
    BY DEF BeginEntries, environment
  <1>1. cycle \in [at : {"exits"}, day : {day}, phase : Phases, dark : SUBSET Symbols,
                   symbol : {NoSymbol}, left : SUBSET Symbols]
    BY <1>0, CycleAt DEF SafeInv, StopInv
  <1>2. PICK chosen \in Signals :
          cycle' = [cycle EXCEPT !.at = "entries", !.left = {s \in chosen : ledger[s] = NoRow}]
    BY DEF BeginEntries
  <1>3. cycle'.at = "entries" /\ cycle'.phase = cycle.phase /\ cycle'.left \subseteq chosen
    BY <1>1, <1>2
  <1>4. chosen # {} => cycle.phase = "signals"
    BY DEF Signals
  <1>5. DayInv'
    BY <1>0, <1>3, <1>4 DEF SafeInv, DayInv
  <1>6. ASSUME trouble' = {} PROVE Untroubled'
    <2>1. CoveredBut({}) /\ Leaves({}) /\ SweptOK
      BY <1>0, <1>6 DEF SafeInv, Untroubled, ExitsOK
    <2>2. CoveredBut({})'
      BY <1>0, <2>1 DEF CoveredBut, Covered, Resting
    <2> QED BY <1>0, <1>3, <2>1, <2>2
            DEF Leaves, Untroubled, IdleOK, ExitsOK, ExitOK, EntriesOK, StopOK, SweptOK
  <1> QED BY <1>5, <1>6

(* An entry that is not to blame is of a whole lot, or of nothing.          *)
LEMMA SubmitEntrySafe ==
  ASSUME SafeInv, SubmitEntry PROVE DayInv' /\ (trouble' = {} => Untroubled')
  <1>0. resting' = resting /\ swept' = swept /\ phase' = phase /\ cycle.at = "entries"
    BY DEF SubmitEntry, environment
  <1>1. cycle \in [at : {"entries"}, day : {day}, phase : Phases, dark : SUBSET Symbols,
                   symbol : {NoSymbol}, left : SUBSET Symbols]
    BY <1>0, CycleAt DEF SafeInv, StopInv
  <1>2. PICK s \in cycle.left : \E outcome \in Outcomes(Idem("ENT", s)) :
          \E f \in IF outcome = "placed" THEN Fills("BUY", s, Lot) ELSE {0} :
            /\ held' = [held EXCEPT ![s] = @ + f]
            /\ IF outcome = "placed"
               THEN /\ ledger' = RecordEntry(s)
                    /\ trouble' = trouble \cup Blame(outcome, f, Fills("BUY", s, Lot))
                    /\ cycle' = [cycle EXCEPT !.at = "stop", !.left = @ \ {s}, !.symbol = s]
               ELSE /\ cycle' = [cycle EXCEPT !.left = @ \ {s}]
                    /\ UNCHANGED <<ledger, trouble>>
    BY DEF SubmitEntry
  <1>3. PICK outcome \in Outcomes(Idem("ENT", s)) :
          \E f \in IF outcome = "placed" THEN Fills("BUY", s, Lot) ELSE {0} :
            /\ held' = [held EXCEPT ![s] = @ + f]
            /\ IF outcome = "placed"
               THEN /\ ledger' = RecordEntry(s)
                    /\ trouble' = trouble \cup Blame(outcome, f, Fills("BUY", s, Lot))
                    /\ cycle' = [cycle EXCEPT !.at = "stop", !.left = @ \ {s}, !.symbol = s]
               ELSE /\ cycle' = [cycle EXCEPT !.left = @ \ {s}]
                    /\ UNCHANGED <<ledger, trouble>>
    BY <1>2
  <1>4. PICK f \in IF outcome = "placed" THEN Fills("BUY", s, Lot) ELSE {0} :
            /\ held' = [held EXCEPT ![s] = @ + f]
            /\ IF outcome = "placed"
               THEN /\ ledger' = RecordEntry(s)
                    /\ trouble' = trouble \cup Blame(outcome, f, Fills("BUY", s, Lot))
                    /\ cycle' = [cycle EXCEPT !.at = "stop", !.left = @ \ {s}, !.symbol = s]
               ELSE /\ cycle' = [cycle EXCEPT !.left = @ \ {s}]
                    /\ UNCHANGED <<ledger, trouble>>
    BY <1>3
  <1>5. s \in Symbols /\ held[s] = 0 /\ cycle.phase = "signals" /\ Lot \in Nat
    BY <1>0, <1>1, TraderAssumption DEF SafeInv, StopInv, Unentered, DayInv
  <1>6. cycle'.phase = "signals" /\ cycle'.left = cycle.left \ {s}
          /\ cycle'.at = (IF outcome = "placed" THEN "stop" ELSE "entries")
          /\ (outcome = "placed" => cycle'.symbol = s)
    BY <1>1, <1>4, <1>5
  <1>7. DayInv'
    BY <1>0, <1>6 DEF SafeInv, DayInv
  <1>8. ASSUME trouble' = {}, outcome = "placed" PROVE Untroubled'
    <2>1. trouble = {} /\ f = Max(Fills("BUY", s, Lot))
      BY <1>4, <1>8, Blameless
    <2>2. f \in {0, Lot}
      BY <1>5, <2>1, MaxTo DEF Fills
    <2>3. CoveredBut({}) /\ SweptOK
      BY <1>0, <2>1 DEF SafeInv, Untroubled, EntriesOK
    <2>4. \A t \in Symbols \ {s} : held'[t] = held[t] /\ ledger'[t] = ledger[t]
      BY <1>4, <1>5, <1>8 DEF RecordEntry, SafeInv, StopInv, TypeOK
    <2>5. \A t \in Symbols \ {s} : Covered(t)'
      BY <1>0, <2>3, <2>4, CoverFrame DEF CoveredBut, Resting
    <2>6. CoveredBut({cycle.symbol})'
      BY <1>6, <1>8, <2>5 DEF CoveredBut, Covered, Resting
    <2>7. Resting(s) = {}
      BY <1>5, TraderAssumption DEF SafeInv, StopInv, Backed
    <2>8. (Resting(cycle.symbol) = {})'
      BY <1>0, <1>6, <1>8, <2>7 DEF Resting
    <2>9. held'[s] \in {0, Lot}
      BY <1>4, <1>5, <2>2 DEF SafeInv, StopInv, TypeOK
    <2>10. ~swept
      BY <1>0, <1>5, <2>3 DEF SweptOK
    <2> QED BY <1>0, <1>6, <1>8, <2>6, <2>8, <2>9, <2>10
            DEF Untroubled, IdleOK, ExitsOK, ExitOK, EntriesOK, StopOK, SweptOK
  <1>9. ASSUME trouble' = {}, outcome # "placed" PROVE Untroubled'
    <2>1. trouble = {} /\ f = 0 /\ ledger' = ledger
      BY <1>4, <1>9
    <2>2. CoveredBut({}) /\ SweptOK
      BY <1>0, <2>1 DEF SafeInv, Untroubled, EntriesOK
    <2>3. \A t \in Symbols : held'[t] = held[t]
      BY <1>4, <1>5, <2>1 DEF SafeInv, StopInv, TypeOK
    <2>4. CoveredBut({})'
      BY <1>0, <2>1, <2>2, <2>3 DEF CoveredBut, Covered, Resting
    <2>5. ~swept
      BY <1>0, <1>5, <2>2 DEF SweptOK
    <2> QED BY <1>0, <1>6, <1>9, <2>4, <2>5
            DEF Leaves, Untroubled, IdleOK, ExitsOK, ExitOK, EntriesOK, StopOK, SweptOK
  <1> QED BY <1>7, <1>8, <1>9

(* The stop of an entry rests for all of it, or sells all of it at once.     *)
LEMMA PlaceStopSafe ==
  ASSUME SafeInv, PlaceStop PROVE DayInv' /\ (trouble' = {} => Untroubled')
  <1>0. swept' = swept /\ phase' = phase /\ cycle.at = "stop"
    BY DEF PlaceStop, environment
  <1>1. cycle \in [at : {"stop"}, day : {day}, phase : Phases, dark : SUBSET Symbols,
                   symbol : Symbols, left : SUBSET Symbols]
    BY <1>0, CycleAt DEF SafeInv, StopInv
  <1>2. PICK s \in Symbols : s = cycle.symbol
    BY <1>1
  <1>3. cycle.phase = "signals" /\ cycle'.phase = "signals" /\ cycle'.at = "entries"
    BY <1>0, <1>1 DEF PlaceStop, Resume, SafeInv, DayInv
  <1>4. DayInv'
    BY <1>0, <1>3 DEF SafeInv, DayInv
  <1>5. ledger' = [ledger EXCEPT ![s].stop = day] /\ day \in 1..Days /\ Lot \in Nat \ {0}
    BY <1>1, <1>2, TraderAssumption DEF PlaceStop, SafeInv, StopInv, TypeOK
  <1>6. ledger'[s].stop = day /\ \A t \in Symbols \ {s} : ledger'[t] = ledger[t]
    BY <1>2, <1>5 DEF SafeInv, StopInv, TypeOK, Rows
  <1>7. ASSUME trouble' = {} PROVE Untroubled'
    <2>0. trouble = {}
      BY <1>7, Blameless DEF PlaceStop
    <2>1. (\A t \in Symbols \ {s} : Covered(t)) /\ Resting(s) = {} /\ held[s] \in {0, Lot} /\ SweptOK
      BY <1>0, <1>2, <2>0 DEF SafeInv, Untroubled, StopOK, CoveredBut
    <2>2. ~swept /\ phase # "closed"
      BY <1>0, <1>3, <2>1 DEF SweptOK, SafeInv, DayInv
    <2>3. /\ \A t \in Symbols \ {s} : held'[t] = held[t] /\ Resting(t)' = Resting(t)
          /\ Covered(s)'
      <3>1. CASE /\ resting' = resting \cup {[symbol |-> s, id |-> cycle.day, qty |-> Lot]}
                 /\ Fills("SELL", s, Lot) # {0}
                 /\ UNCHANGED <<held, trouble>>
        <4>1. resting' = resting \cup {TheStop(s, day)}
          BY <1>1, <3>1 DEF TheStop
        <4>2. \A t \in Symbols \ {s} : Resting(t)' = Resting(t)
          BY <4>1 DEF Resting, TheStop
        <4>3. TheStop(s, day) \in Resting(s)'
          BY <4>1 DEF Resting, TheStop
        <4>4. held[s] = Lot
          BY <1>5, <2>1, <3>1, SellFills DEF SafeInv, StopInv
        <4>5. Covered(s)'
          BY <1>6, <3>1, <4>3, <4>4 DEF Covered, TheStop
        <4> QED BY <3>1, <4>2, <4>5
      <3>2. CASE \E f \in Fills("SELL", s, Lot) :
                   /\ held' = [held EXCEPT ![s] = @ - f]
                   /\ trouble' = trouble \cup Blame("placed", f, Fills("SELL", s, Lot))
                   /\ UNCHANGED resting
        <4>1. PICK f \in Fills("SELL", s, Lot) :
                   /\ held' = [held EXCEPT ![s] = @ - f]
                   /\ trouble' = trouble \cup Blame("placed", f, Fills("SELL", s, Lot))
                   /\ UNCHANGED resting
          BY <3>2
        <4>2. f = Max(Fills("SELL", s, Lot))
          BY <1>7, <4>1, Blameless
        <4>3. Free(s) = held[s]
          BY <2>1, FreeOf DEF SafeInv, StopInv
        <4>4. f = held[s]
          <5>1. CASE held[s] = 0
            <6>1. Fills("SELL", s, Lot) = {0}
              BY <1>5, <4>3, <5>1 DEF Fills
            <6> QED BY <4>1, <5>1, <6>1
          <5>2. CASE held[s] = Lot
            <6>1. Fills("SELL", s, Lot) = 0..Lot
              BY <1>5, <2>2, <4>3, <5>2 DEF Fills
            <6> QED BY <1>5, <4>2, <5>2, <6>1, MaxTo
          <5> QED BY <2>1, <5>1, <5>2
        <4>5. held'[s] = 0 /\ \A t \in Symbols \ {s} : held'[t] = held[t]
          BY <1>2, <1>5, <2>1, <4>1, <4>4 DEF SafeInv, StopInv, TypeOK
        <4>6. Covered(s)'
          BY <4>5 DEF Covered
        <4> QED BY <4>1, <4>5, <4>6 DEF Resting
      <3> QED BY <1>2, <3>1, <3>2 DEF PlaceStop
    <2>4. \A t \in Symbols \ {s} : Covered(t)'
      BY <1>6, <2>1, <2>3, CoverFrame
    <2>5. CoveredBut({})'
      BY <2>3, <2>4 DEF CoveredBut, Covered, Resting
    <2> QED BY <1>0, <1>3, <2>2, <2>5
            DEF Leaves, Untroubled, IdleOK, ExitsOK, ExitOK, EntriesOK, StopOK, SweptOK
  <1> QED BY <1>4, <1>7

LEMMA EndCycleSafe ==
  ASSUME SafeInv, EndCycle PROVE DayInv' /\ (trouble' = {} => Untroubled')
  <1>1. held' = held /\ resting' = resting /\ ledger' = ledger /\ trouble' = trouble /\ phase' = phase
          /\ cycle.at = "entries" /\ cycle'.at = "idle" /\ swept' = (swept \/ cycle.phase = "squareoff")
    BY DEF EndCycle, environment, Sleeping
  <1>2. DayInv'
    BY <1>1 DEF SafeInv, DayInv
  <1>3. ASSUME trouble' = {} PROVE Untroubled'
    <2>1. CoveredBut({}) /\ Leaves({}) /\ SweptOK
      BY <1>1, <1>3 DEF SafeInv, Untroubled, EntriesOK
    <2>2. CoveredBut({})'
      BY <1>1, <2>1 DEF CoveredBut, Covered, Resting
    <2>3. \A s \in Symbols : held[s] \in 0..Lot
      BY DEF SafeInv, StopInv, TypeOK
    <2>4. SweptOK'
      <3>1. cycle.phase = "squareoff" => \A s \in Symbols : ~(held[s] > 0)
        BY <2>1 DEF Leaves
      <3>2. cycle.phase = "squareoff" => \A s \in Symbols : held[s] = 0
        BY <2>3, <3>1, TraderAssumption
      <3>3. swept => \A s \in Symbols : held[s] = 0
        BY <2>1 DEF SweptOK
      <3> QED BY <1>1, <3>2, <3>3 DEF SweptOK
    <2> QED BY <1>1, <2>2, <2>4 DEF Untroubled, IdleOK, ExitsOK, ExitOK, EntriesOK, StopOK
  <1> QED BY <1>2, <1>3

(* A stop that fills without trouble sells all of its position.             *)
LEMMA PollSafe ==
  ASSUME SafeInv, Poll PROVE DayInv' /\ (trouble' = {} => Untroubled')
  <1>1. PICK r \in resting : \E f \in 1..r.qty :
          /\ resting' = resting \ {r}
          /\ held' = [held EXCEPT ![r.symbol] = @ - f]
          /\ trouble' = trouble \cup Blame("placed", f, 0..r.qty)
    BY DEF Poll
  <1>2. PICK f \in 1..r.qty :
          /\ resting' = resting \ {r}
          /\ held' = [held EXCEPT ![r.symbol] = @ - f]
          /\ trouble' = trouble \cup Blame("placed", f, 0..r.qty)
    BY <1>1
  <1>3. ledger' = ledger /\ cycle' = cycle /\ cycle.at = "idle" /\ swept' = swept /\ phase' = phase
    BY DEF Poll, environment
  <1>4. DayInv'
    BY <1>3 DEF SafeInv, DayInv
  <1>5. r.symbol \in Symbols /\ r \in Resting(r.symbol)
    BY DEF SafeInv, StopInv, TypeOK, Stops, Resting
  <1>6. held[r.symbol] = Lot /\ \E id \in 1..Days : Resting(r.symbol) = {TheStop(r.symbol, id)}
    BY <1>5 DEF SafeInv, StopInv, Backed
  <1>7. r.qty = Lot /\ Lot \in Nat
    BY <1>5, <1>6, TraderAssumption DEF TheStop
  <1>8. ASSUME trouble' = {} PROVE Untroubled'
    <2>1. trouble = {} /\ f = Max(0..r.qty)
      BY <1>2, <1>8, Blameless
    <2>2. f = Lot
      BY <1>7, <2>1, MaxTo
    <2>3. held'[r.symbol] = 0 /\ \A t \in Symbols \ {r.symbol} : held'[t] = held[t]
      BY <1>2, <1>5, <1>6, <1>7, <2>2 DEF SafeInv, StopInv, TypeOK
    <2>4. \A t \in Symbols \ {r.symbol} : Resting(t)' = Resting(t)
      BY <1>2 DEF Resting
    <2>5. CoveredBut({}) /\ SweptOK
      BY <1>3, <2>1 DEF SafeInv, Untroubled, IdleOK
    <2>6. \A t \in Symbols \ {r.symbol} : Covered(t)'
      BY <1>3, <2>3, <2>4, <2>5, CoverFrame DEF CoveredBut
    <2>7. Covered(r.symbol)'
      BY <2>3 DEF Covered
    <2>8. CoveredBut({})'
      BY <2>6, <2>7 DEF CoveredBut, Covered, Resting
    <2>9. SweptOK'
      BY <1>3, <2>3, <2>5 DEF SweptOK
    <2> QED BY <1>3, <2>8, <2>9 DEF Untroubled, IdleOK, ExitsOK, ExitOK, EntriesOK, StopOK
  <1> QED BY <1>4, <1>8

LEMMA KillSwitchSafe ==
  ASSUME SafeInv, KillSwitch \/ UNCHANGED vars PROVE DayInv' /\ (trouble' = {} => Untroubled')
  <1>1. held' = held /\ resting' = resting /\ ledger' = ledger /\ trouble' = trouble /\ phase' = phase
          /\ cycle' = cycle /\ swept' = swept
    BY DEF KillSwitch, vars, environment
  <1>2. DayInv'
    BY <1>1 DEF SafeInv, DayInv
  <1>3. trouble' = {} => Untroubled'
    BY <1>1 DEF SafeInv, Untroubled, IdleOK, ExitsOK, ExitOK, EntriesOK, StopOK, SweptOK,
                CoveredBut, Covered, Resting, Leaves
  <1> QED BY <1>2, <1>3

LEMMA TickSafe ==
  ASSUME SafeInv, Tick PROVE DayInv' /\ (trouble' = {} => Untroubled')
  <1>1. held' = held /\ resting' = resting /\ ledger' = ledger /\ trouble' = trouble
          /\ cycle' = cycle /\ swept' = swept
    BY DEF Tick
  <1>2. phase \in Phases
    BY DEF SafeInv, StopInv, TypeOK
  <1>3. /\ phase' = "closed" => swept
        /\ phase \in {"squareoff", "closed"} => phase' \in {"squareoff", "closed"}
    BY <1>2 DEF Tick, Phases
  <1>4. DayInv'
    BY <1>1, <1>3 DEF SafeInv, DayInv
  <1>5. trouble' = {} => Untroubled'
    BY <1>1 DEF SafeInv, Untroubled, IdleOK, ExitsOK, ExitOK, EntriesOK, StopOK, SweptOK,
                CoveredBut, Covered, Resting, Leaves
  <1> QED BY <1>4, <1>5

(* A day begins without trouble only when nothing is held.                  *)
LEMMA NextDaySafe ==
  ASSUME SafeInv, NextDay PROVE DayInv' /\ (trouble' = {} => Untroubled')
  <1>1. held' = held /\ phase = "closed" /\ phase' = "opening" /\ swept' = FALSE
          /\ cycle' = cycle /\ cycle.at = "idle"
          /\ trouble' = IF \A s \in Symbols : held[s] = 0 THEN {} ELSE trouble
    BY DEF NextDay
  <1>2. DayInv'
    BY <1>1 DEF DayInv
  <1>3. ASSUME trouble' = {} PROVE Untroubled'
    <2>1. \A s \in Symbols : held'[s] = 0
      <3>1. CASE \A s \in Symbols : held[s] = 0
        BY <1>1, <3>1
      <3>2. CASE trouble = {}
        BY <1>1, <3>2, ClosedFlat DEF SafeInv
      <3> QED BY <1>1, <1>3, <3>1, <3>2
    <2>2. CoveredBut({})'
      BY <2>1 DEF CoveredBut, Covered
    <2> QED BY <1>1, <2>2 DEF Untroubled, IdleOK, ExitsOK, ExitOK, EntriesOK, StopOK, SweptOK
  <1> QED BY <1>2, <1>3

(* The steps that are themselves the trouble.                               *)
LEMMA TroubleSafe ==
  ASSUME SafeInv, ExitRaises \/ StopRefused \/ Crash
  PROVE  DayInv' /\ (trouble' = {} => Untroubled')
  <1>1. trouble' # {}
    <2>1. CASE StopRefused
      BY <2>1, Blameless DEF StopRefused
    <2>2. CASE ExitRaises \/ Crash
      BY <2>2 DEF ExitRaises, Crash
    <2> QED BY <2>1, <2>2
  <1>2. phase' = phase /\ swept' = swept
    BY DEF ExitRaises, StopRefused, Crash, environment
  <1>3. CASE ExitRaises \/ Crash
    <2>1. cycle'.at = "idle"
      BY <1>3 DEF ExitRaises, Crash, Sleeping
    <2> QED BY <1>1, <1>2, <2>1 DEF SafeInv, DayInv
  <1>4. CASE StopRefused
    <2>1. cycle \in [at : {"stop"}, day : {day}, phase : Phases, dark : SUBSET Symbols,
                     symbol : Symbols, left : SUBSET Symbols]
      BY <1>4, CycleAt DEF StopRefused, SafeInv, StopInv
    <2>2. cycle'.at = "entries" /\ cycle'.phase = "signals"
      BY <1>4, <2>1 DEF StopRefused, Resume, SafeInv, DayInv
    <2> QED BY <1>1, <1>2, <2>2 DEF SafeInv, DayInv
  <1> QED BY <1>3, <1>4

LEMMA SafeInit == Init => SafeInv
  <1> SUFFICES ASSUME Init PROVE SafeInv
    OBVIOUS
  <1>1. StopInv
    BY StopInit
  <1>2. cycle.at = "idle" /\ swept = FALSE /\ phase = "opening" /\ \A s \in Symbols : held[s] = 0
    BY DEF Init, Sleeping
  <1>3. DayInv
    BY <1>2 DEF DayInv
  <1>4. Untroubled
    BY <1>2 DEF Untroubled, IdleOK, ExitsOK, ExitOK, EntriesOK, StopOK, SweptOK, CoveredBut, Covered
  <1> QED BY <1>1, <1>3, <1>4 DEF SafeInv

LEMMA SafeNext == ASSUME SafeInv, [Next]_vars PROVE SafeInv'
  <1>1. StopInv'
    BY StopNext DEF SafeInv
  <1>2. DayInv' /\ (trouble' = {} => Untroubled')
    BY BeginCycleSafe, CancelStopSafe, SubmitExitSafe, BeginEntriesSafe, SubmitEntrySafe,
       PlaceStopSafe, EndCycleSafe, PollSafe, KillSwitchSafe, TickSafe, NextDaySafe, TroubleSafe
       DEF Next
  <1> QED BY <1>1, <1>2 DEF SafeInv

(* For every number of symbols, shares, days and restarts: as long as       *)
(* nothing was refused, filled in part, left uncancelled, blocked or        *)
(* restarted, every position has its stop between two cycles and none is     *)
(* held over the close (run_once, _protect, _execute_exit).                 *)
THEOREM SafeDays == Spec => []SafeUnlessInTrouble
  <1>1. SafeInv => SafeUnlessInTrouble
    <2> SUFFICES ASSUME SafeInv, trouble = {}, NEW s \in Symbols, held[s] > 0
                 PROVE  /\ phase # "closed"
                        /\ cycle.at = "idle" =>
                             \E r \in Resting(s) : r.qty = held[s] /\ r.id = ledger[s].stop
      BY DEF SafeUnlessInTrouble
    <2>1. phase # "closed"
      BY ClosedFlat DEF SafeInv
    <2>2. cycle.at = "idle" => Covered(s)
      BY DEF SafeInv, Untroubled, IdleOK, CoveredBut
    <2> QED BY <2>1, <2>2 DEF Covered
  <1> QED BY <1>1, SafeInit, SafeNext, PTL DEF Spec
=============================================================================
