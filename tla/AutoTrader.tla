----------------------------- MODULE AutoTrader -----------------------------
(***************************************************************************)
(* The intraday auto-trader (engine/trader.py, monitor.py) trading the paper *)
(* account through the execution service: cycles of exits, entries and       *)
(* protective stops, over the trading day.  The trader is one coroutine; the *)
(* kill switch, the clock and a crash interfere at its awaits, and resting   *)
(* stops fill only between cycles, where the session driver polls them       *)
(* (engine/replay.py).                                                      *)
(*                                                                          *)
(* Prices are bands relative to the entry; a quantity is 0..Lot; sizing and  *)
(* the strategy's edge are a free choice.  The service is its outcomes:      *)
(* blocked before the order is claimed, refused by its claim, refused or     *)
(* failed after it, or placed.  The paper broker gives an order it rejects   *)
(* an id like any other, so "placed" says nothing about a fill.             *)
(***************************************************************************)
EXTENDS Integers, FiniteSetsExt

CONSTANTS
    Symbols,
    NoSymbol,               \* not a symbol
    Lot,                    \* quantity of an entry
    MaxEntries,             \* max_entries_per_cycle
    MaxPositions,           \* the strategy's cap on positions
    Days,                   \* bound on the days traded
    MaxCrashes              \* bound on the crashes

ASSUME TraderAssumption ==
    /\ NoSymbol \notin Symbols
    /\ Lot \in Nat \ {0} /\ MaxEntries \in Nat /\ MaxPositions \in Nat
    /\ Days \in Nat \ {0} /\ MaxCrashes \in Nat

VARIABLES
    day, phase,     \* the exchange's clock
    held,           \* MIS position per symbol, at the broker
    resting,        \* protective stops resting at the broker
    claims,         \* client order ids claimed in the database
    kill,           \* the kill switch
    ledger,         \* the trader's rows, in memory
    cycle,          \* the trader's program counter and locals
    entries,        \* history: entry orders placed per symbol today
    swept,          \* history: a cycle that began in the square-off window has ended
    trouble,        \* history: what went wrong, of the kinds below
    crashes

environment == <<day, phase, kill, crashes>>
vars == <<environment, held, resting, claims, ledger, cycle, entries, swept, trouble>>

(* Before 9:30; until 14:45; until 15:15; until 15:30; afterwards.           *)
Phases == {"opening", "signals", "late", "squareoff", "closed"}

(* Where the last close stands: no bar yet, at or under the stop, between,   *)
(* at the target; and whether it is under the session's VWAP.               *)
Bars == [band : {"none", "stop", "mid", "target"}, weak : BOOLEAN]

(* Everything that can keep an order from doing what it is for.             *)
Kinds == {"killed", "refused", "uncancelled", "nobar", "thin", "crash"}

NoRow == [qty |-> 0, levels |-> FALSE, stop |-> 0]

(* A row: its quantity, whether the trader knows its stop and target, and    *)
(* the id of its stop (the day it was placed; 0 is none).                   *)
Rows == [qty : 0..Lot, levels : BOOLEAN, stop : 0..Days]

Stops == [symbol : Symbols, id : 1..Days, qty : 1..Lot]

(* Between two cycles.                                                      *)
Sleeping == [at |-> "idle"]

-----------------------------------------------------------------------------
(* The paper broker                                                         *)

Resting(s) == {r \in resting : r.symbol = s}

(* Slip: the holdings check does not see what resting orders have earmarked. *)
FreeWithEarmarks(s) == held[s]

(* What a sell may take: the position less what resting stops have earmarked. *)
Free(s) == held[s] - MapThenSumSet(LAMBDA r : r.qty, Resting(s))

(* The quantities a market order of q may fill; 0 is a rejected order.      *)
Fills(side, s, q) ==
    IF \/ phase = "closed"
       \/ side = "BUY" /\ phase = "squareoff"
       \/ side = "SELL" /\ q > Free(s)
    THEN {0} ELSE 0..q

-----------------------------------------------------------------------------
(* The execution service                                                    *)

(* The client order id of an entry and of a stop: one of each per symbol    *)
(* and day, whatever the signal.  An exit's also names its quantity.        *)
Idem(prefix, s) == <<prefix, s, cycle.day, 0>>
ExitKey(s, q) == <<"EXT", s, cycle.day, q>>

(* What submit_signal and submit_stop may answer for an order with this id.  *)
Outcomes(key) ==
    CASE kill                    -> {"killed"}
      [] ~kill /\ key \in claims -> {"duplicate"}
      [] OTHER                   -> {"gated", "refused", "failed", "placed"}

(* The id is claimed unless the order was stopped before the claim.         *)
Claim(key, outcome) ==
    claims' = IF outcome \in {"refused", "failed", "placed"} THEN claims \cup {key} ELSE claims

(* How an outcome and its fill went wrong: f shares out of the most, fills,  *)
(* that liquidity could have given.                                         *)
Blame(outcome, f, fills) ==
    CASE outcome = "killed" -> {"killed"}
      [] outcome = "placed" -> IF f # Max(fills) THEN {"thin"} ELSE {}
      [] OTHER              -> {"refused"}

-----------------------------------------------------------------------------
(* The ledger and the monitor                                               *)

(* reconcile: a position the ledger does not know is adopted, a row whose    *)
(* position has gone is dropped, the quantities are the broker's.           *)
Reconciled ==
    [s \in Symbols |-> CASE held[s] = 0 -> NoRow
                         [] held[s] > 0 /\ ledger[s] = NoRow ->
                              [qty |-> held[s], levels |-> FALSE, stop |-> 0]
                         [] OTHER -> [ledger[s] EXCEPT !.qty = held[s]]]

(* Slip: the end of the session is not a reason to exit.                    *)
ShouldExitOnPrice(row, bar) ==
    \/ bar.band \in {"stop", "target"} /\ row.levels
    \/ bar.band \in {"stop", "mid"} /\ bar.weak

(* should_exit: the square-off, the stop, the target, or a VWAP reversal.    *)
(* Without a bar the entry price is taken, which meets only the first.      *)
ShouldExit(row, bar) ==
    \/ phase = "squareoff"
    \/ bar.band \in {"stop", "target"} /\ row.levels
    \/ bar.band \in {"stop", "mid"} /\ bar.weak

(* evaluate: the rows to exit, in no particular order.                      *)
Decisions(bars) ==
    {s \in Symbols : Reconciled[s] # NoRow /\ ShouldExit(Reconciled[s], bars[s])}

(* generate_signals: the symbols it may choose.  Before the cutoff, while    *)
(* positions are fewer than its cap, those with a bar and no position.      *)
Signals ==
    LET slots == MaxPositions - Cardinality({s \in Symbols : held[s] > 0})
    IN {chosen \in SUBSET {s \in Symbols \ cycle.dark : held[s] = 0} :
          chosen # {} => /\ cycle.phase = "signals"
                         /\ Cardinality(chosen) <= slots
                         /\ Cardinality(chosen) <= MaxEntries}

(* _execute_exit's drop of a row, and record_entry.                         *)
Dropped(s) == [ledger EXCEPT ![s] = NoRow]
RecordEntry(s) == [ledger EXCEPT ![s] = [qty |-> Lot, levels |-> TRUE, stop |-> 0]]

-----------------------------------------------------------------------------
(* One cycle: run_once                                                      *)

(* Outside 9:30-15:30 a cycle does nothing.                                 *)
BeginCycle ==
    /\ cycle.at = "idle"
    /\ phase \in {"signals", "late", "squareoff"}
    /\ ledger' = Reconciled
    /\ \E bars \in [Symbols -> Bars] :
         cycle' = [at |-> "exits", day |-> day, phase |-> phase,
                   dark |-> {s \in Symbols : bars[s].band = "none"},
                   symbol |-> NoSymbol,
                   left |-> Decisions(bars)]
    /\ UNCHANGED <<environment, held, resting, claims, entries, swept, trouble>>

(* An exit begins: its stop is cancelled first.  Only the kill switch keeps  *)
(* it; any other refusal or error counts as a cancellation.                 *)
CancelStop ==
    /\ cycle.at = "exits"
    /\ \E s \in cycle.left :
         LET stop == ledger[s].stop
             cancelled == {r \in resting : r.symbol = s /\ r.id = stop}
         IN \/ /\ stop # 0 /\ kill
               /\ cycle' = [cycle EXCEPT !.left = @ \ {s}]
               /\ trouble' = trouble \cup {"killed"}
               /\ UNCHANGED resting
            \/ /\ stop = 0 \/ ~kill
               /\ cycle' = [cycle EXCEPT !.at = "exit", !.left = @ \ {s}, !.symbol = s]
               /\ \/ resting' = resting \ cancelled /\ UNCHANGED trouble
                  \/ /\ cancelled # {}
                     /\ trouble' = trouble \cup {"uncancelled"}
                     /\ UNCHANGED resting
    /\ UNCHANGED <<environment, held, claims, ledger, entries, swept>>

Resume(where) == cycle' = [cycle EXCEPT !.at = where, !.symbol = NoSymbol]

(* The exit itself, for what the broker holds now.  The row is dropped when *)
(* the order was placed, whatever it filled.                                *)
SubmitExit ==
    /\ cycle.at = "exit"
    /\ cycle.symbol \notin cycle.dark \/ held[cycle.symbol] = 0
    /\ LET s == cycle.symbol
           q == held[s]
       IN IF q = 0
          THEN ledger' = Dropped(s) /\ UNCHANGED <<held, claims, trouble>>
          ELSE \E outcome \in Outcomes(ExitKey(s, q)) :
               \E f \in IF outcome = "placed" THEN Fills("SELL", s, q) ELSE {0} :
                 /\ Claim(ExitKey(s, q), outcome)
                 /\ held' = [held EXCEPT ![s] = @ - f]
                 /\ ledger' = IF outcome = "placed" THEN Dropped(s) ELSE ledger
                 /\ trouble' = trouble \cup Blame(outcome, f, Fills("SELL", s, q))
    /\ Resume("exits")
    /\ UNCHANGED <<environment, resting, entries, swept>>

(* Without a bar the reference price is None and the exit raises, its stop  *)
(* already cancelled: run logs it, and the rest of the cycle is lost.       *)
ExitRaises ==
    /\ cycle.at = "exit"
    /\ cycle.symbol \in cycle.dark /\ held[cycle.symbol] # 0
    /\ trouble' = trouble \cup {"nobar"}
    /\ cycle' = Sleeping
    /\ UNCHANGED <<environment, held, resting, claims, ledger, entries, swept>>

(* After the exits: the first signals, those of a symbol with a row left out. *)
BeginEntries ==
    /\ cycle.at = "exits" /\ cycle.left = {}
    /\ \E chosen \in Signals :
         cycle' = [cycle EXCEPT !.at = "entries", !.left = {s \in chosen : ledger[s] = NoRow}]
    /\ UNCHANGED <<environment, held, resting, claims, ledger, entries, swept, trouble>>

(* A signal sized to a whole share is submitted; an order that was placed   *)
(* is taken for a position of the size it asked for.                        *)
SubmitEntry ==
    /\ cycle.at = "entries"
    /\ \E s \in cycle.left :
       \E outcome \in Outcomes(Idem("ENT", s)) :
       \E f \in IF outcome = "placed" THEN Fills("BUY", s, Lot) ELSE {0} :
         /\ Claim(Idem("ENT", s), outcome)
         /\ held' = [held EXCEPT ![s] = @ + f]
         /\ IF outcome = "placed"
            THEN /\ ledger' = RecordEntry(s)
                 /\ entries' = [entries EXCEPT ![s] = @ + 1]
                 /\ trouble' = trouble \cup Blame(outcome, f, Fills("BUY", s, Lot))
                 /\ cycle' = [cycle EXCEPT !.at = "stop", !.left = @ \ {s}, !.symbol = s]
            ELSE /\ cycle' = [cycle EXCEPT !.left = @ \ {s}]
                 /\ UNCHANGED <<ledger, entries, trouble>>
    /\ UNCHANGED <<environment, resting, swept>>

(* _protect: the stop rests, fills at once, or is rejected with an id.      *)
PlaceStop ==
    /\ cycle.at = "stop"
    /\ LET s == cycle.symbol
           rests == [symbol |-> s, id |-> cycle.day, qty |-> Lot]
       IN /\ "placed" \in Outcomes(Idem("STP", s))
          /\ Claim(Idem("STP", s), "placed")
          /\ ledger' = [ledger EXCEPT ![s].stop = cycle.day]
          /\ \/ /\ Fills("SELL", s, Lot) # {0}
                /\ resting' = resting \cup {rests}
                /\ UNCHANGED <<held, trouble>>
             \/ \E f \in Fills("SELL", s, Lot) :
                  /\ held' = [held EXCEPT ![s] = @ - f]
                  /\ trouble' = trouble \cup Blame("placed", f, Fills("SELL", s, Lot))
                  /\ UNCHANGED resting
    /\ Resume("entries")
    /\ UNCHANGED <<environment, entries, swept>>

(* A stop that cannot be placed: the entry is to be undone, by an exit that *)
(* looks for the position among those read before the entry, does not find  *)
(* it, and takes it for closed.                                             *)
StopRefused ==
    /\ cycle.at = "stop"
    /\ \E outcome \in Outcomes(Idem("STP", cycle.symbol)) \ {"placed"} :
         /\ Claim(Idem("STP", cycle.symbol), outcome)
         /\ trouble' = trouble \cup Blame(outcome, 0, {})
    /\ ledger' = Dropped(cycle.symbol)
    /\ Resume("entries")
    /\ UNCHANGED <<environment, held, resting, entries, swept>>

EndCycle ==
    /\ cycle.at = "entries" /\ cycle.left = {}
    /\ swept' = (swept \/ cycle.phase = "squareoff")
    /\ cycle' = Sleeping
    /\ UNCHANGED <<environment, held, resting, claims, ledger, entries, trouble>>

-----------------------------------------------------------------------------
(* The rest of the system                                                   *)

(* poll_open_orders, between cycles: a stop the price has reached is filled *)
(* as far as the quote's liquidity goes, and does not rest any longer.      *)
Poll ==
    /\ cycle.at = "idle" /\ phase # "closed"
    /\ \E r \in resting : \E f \in 1..r.qty :
         /\ resting' = resting \ {r}
         /\ held' = [held EXCEPT ![r.symbol] = @ - f]
         /\ trouble' = trouble \cup Blame("placed", f, 0..r.qty)
    /\ UNCHANGED <<environment, claims, ledger, cycle, entries, swept>>

KillSwitch ==
    /\ kill' = ~kill
    /\ UNCHANGED <<day, phase, crashes, held, resting, claims, ledger, cycle, entries, swept, trouble>>

(* The clock.  A whole cycle fits in the fifteen minutes of the square-off. *)
Tick ==
    /\ phase # "closed"
    /\ phase' = CASE phase = "opening"   -> "signals"
                  [] phase = "signals"   -> "late"
                  [] phase = "late"      -> "squareoff"
                  [] phase = "squareoff" -> "closed"
    /\ phase = "squareoff" => swept
    /\ UNCHANGED <<day, kill, crashes, held, resting, claims, ledger, cycle, entries, swept, trouble>>

(* The next day.  One that begins flat begins untroubled.                   *)
NextDay ==
    /\ phase = "closed" /\ day < Days /\ cycle.at = "idle"
    /\ day' = day + 1
    /\ phase' = "opening"
    /\ entries' = [s \in Symbols |-> 0]
    /\ swept' = FALSE
    /\ trouble' = IF \A s \in Symbols : held[s] = 0 THEN {} ELSE trouble
    /\ UNCHANGED <<kill, crashes, held, resting, claims, ledger, cycle>>

(* Slip: the claims live in memory, like the ledger.                        *)
CrashForgettingClaims ==
    /\ crashes < MaxCrashes
    /\ crashes' = crashes + 1
    /\ ledger' = [s \in Symbols |-> NoRow]
    /\ cycle' = Sleeping
    /\ claims' = {}
    /\ trouble' = trouble \cup {"crash"}
    /\ UNCHANGED <<day, phase, kill, held, resting, entries, swept>>

(* The process dies and starts again: the ledger is lost.  The account, the *)
(* claims and the kill switch are persistent.                               *)
Crash ==
    /\ crashes < MaxCrashes
    /\ crashes' = crashes + 1
    /\ ledger' = [s \in Symbols |-> NoRow]
    /\ cycle' = Sleeping
    /\ trouble' = trouble \cup {"crash"}
    /\ UNCHANGED <<day, phase, kill, held, resting, claims, entries, swept>>

Init ==
    /\ day = 1 /\ phase = "opening" /\ kill = FALSE /\ crashes = 0
    /\ held = [s \in Symbols |-> 0]
    /\ resting = {} /\ claims = {}
    /\ ledger = [s \in Symbols |-> NoRow]
    /\ cycle = Sleeping
    /\ entries = [s \in Symbols |-> 0]
    /\ swept = FALSE /\ trouble = {}

Next ==
    \/ BeginCycle \/ CancelStop \/ SubmitExit \/ ExitRaises
    \/ BeginEntries \/ SubmitEntry \/ PlaceStop \/ StopRefused \/ EndCycle
    \/ Poll \/ KillSwitch \/ Tick \/ NextDay \/ Crash

Spec == Init /\ [][Next]_vars

-----------------------------------------------------------------------------

CycleTypeOK ==
    \/ cycle = Sleeping
    \/ /\ cycle.at \in {"exits", "exit", "entries", "stop"}
       /\ cycle \in [at : {cycle.at}, day : 1..Days, phase : Phases, dark : SUBSET Symbols,
                     symbol : IF cycle.at \in {"exit", "stop"} THEN Symbols ELSE {NoSymbol},
                     left : SUBSET Symbols]

(* Everything has its type; in particular no position is short, whatever    *)
(* order stops, exits and entries reach the account in (trader.py:24: a     *)
(* book that cannot short).                                                 *)
TypeOK ==
    /\ day \in 1..Days /\ phase \in Phases
    /\ held \in [Symbols -> 0..Lot]
    /\ resting \subseteq Stops
    /\ claims \subseteq {"ENT", "STP", "EXT"} \X Symbols \X (1..Days) \X (0..Lot)
    /\ kill \in BOOLEAN
    /\ ledger \in [Symbols -> Rows]
    /\ CycleTypeOK
    /\ entries \in [Symbols -> Nat]
    /\ swept \in BOOLEAN /\ trouble \subseteq Kinds
    /\ crashes \in 0..MaxCrashes

(* A stop that rests is backed by stock: none outlives the position it      *)
(* protects, to open a short when it fills later, even when its             *)
(* cancellation failed and the exit went ahead.                             *)
StopsAreBacked == TypeOK /\ \A s \in Symbols : Free(s) >= 0

(* One entry per symbol and day reaches the broker, though the strategy     *)
(* signals again after the stop took the position out, and though a restart *)
(* forgets that there was one (_idem).                                      *)
OneEntryPerDay == \A s \in Symbols : entries[s] <= 1

(* A position is left without a stop that covers it, or carried overnight,   *)
(* only after an order was refused, filled in part or not cancelled, or the  *)
(* trader was restarted: between two cycles every position has its stop      *)
(* (trader.py:30: an unprotected position is not an acceptable state), and    *)
(* however a cycle straddled the phases of the day, the session ends flat.   *)
SafeUnlessInTrouble ==
    trouble = {} =>
      \A s \in Symbols : held[s] > 0 =>
        /\ phase # "closed"
        /\ cycle.at = "idle" =>
             \E r \in Resting(s) : r.qty = held[s] /\ r.id = ledger[s].stop
=============================================================================
