------------------------------ MODULE Campaign ------------------------------
(***************************************************************************)
(* The paper campaign (engine/campaign.py): one session after another over a *)
(* book that outlives the process.  Four files outlive it too, each written  *)
(* on its own: the book, at every change; the order store, at every claim;   *)
(* the kill switch; and the ledger, one line when a day is over.  A process  *)
(* that starts again must find out from them where it is.                    *)
(*                                                                          *)
(* One symbol and one share; a session is a few minutes, each a poll of the  *)
(* resting stop, a cycle of the trader and a mark of the book to market.     *)
(* Charges are left out.                                                     *)
(***************************************************************************)
EXTENDS Integers, SequencesExt, FiniteSets

CONSTANTS
    Sessions,               \* the possible bars: per day the closes of its minutes
    Opening,                \* opening cash
    MaxLoss,                \* hard limit on the day's loss
    MaxDrawdown,            \* hard limit on the drawdown, in percent of the peak
    StopGap,                \* how far below its entry a position's stop rests
    Crashes,                \* bound on the deaths of the process
    Losses                  \* the files that may be gone at a start

ASSUME CampaignAssumption ==
    /\ \A s \in Sessions : s \in Seq(Seq(Nat \ {0}))
    /\ {Opening, MaxLoss, MaxDrawdown, StopGap, Crashes} \subseteq Nat
    /\ Losses \subseteq {"book", "ledger"}

VARIABLES
    bars,       \* the bars of the campaign: a restart generates the same ones
    book,       \* file: cash, shares, the resting stop's trigger, the fills
    claims,     \* file: client order ids reserved
    halt,       \* file: the kill switch
    ledger,     \* file: the day records
    torn,       \* whether the ledger's last line was cut off
    proc,       \* the process
    crashes,    \* deaths so far
    orphans,    \* fills made by a process that died before it recorded them
    breached    \* a hard breach was met and no operator has released the switch

files == <<book, claims, halt, ledger, torn>>
ghosts == <<crashes, orphans, breached>>
vars == <<bars, files, proc, ghosts>>

Fresh == [cash |-> Opening, qty |-> 0, stop |-> 0, fills |-> {}]
Down == [at |-> "down"]
Completed == Len(ledger) = Len(bars)

(* The local state: the last day's end, or the opening cash.                 *)
Recorded == IF ledger = <<>> THEN Fresh ELSE Last(ledger).end

-----------------------------------------------------------------------------
(* The start of a process                                                    *)

(* run_campaign up to its loop: a ledger that cannot be parsed raises, an     *)
(* engaged switch refuses.                                                   *)
Start ==
    /\ proc = Down /\ ~torn /\ ~halt /\ ~Completed
    /\ proc' = [at |-> "between", enforced |-> FALSE]
    /\ UNCHANGED <<bars, files, ghosts>>

(* Slip: cash and positions are compared, the fills are not.                 *)
OpenDayByCash ==
    /\ proc.at = "between" /\ ~Completed
    /\ bars[Len(ledger) + 1] # <<>>
    /\ LET ok == book.cash = Recorded.cash /\ book.qty = Recorded.qty
       IN /\ proc' = [at |-> "poll", enforced |-> proc.enforced, minute |-> 1, ok |-> ok,
                      mine |-> FALSE, base |-> 0, peak |-> 0, start |-> book.cash]
          /\ halt' = (halt \/ ~ok)
    /\ UNCHANGED <<bars, book, claims, ledger, torn, ghosts>>

(* A day opens: the book is connected and reconciled with the ledger in all   *)
(* it holds; a difference engages the switch, and closes the trading gate.   *)
OpenDay ==
    /\ proc.at = "between" /\ ~Completed
    /\ bars[Len(ledger) + 1] # <<>>
    /\ LET ok == book = Recorded
       IN /\ proc' = [at |-> "poll", enforced |-> proc.enforced, minute |-> 1, ok |-> ok,
                      mine |-> FALSE, base |-> 0, peak |-> 0, start |-> book.cash]
          /\ halt' = (halt \/ ~ok)
    /\ UNCHANGED <<bars, book, claims, ledger, torn, ghosts>>

(* A planned day without bars, or the end of the plan, ends the process.     *)
Stop ==
    /\ proc.at = "between"
    /\ ~Completed => bars[Len(ledger) + 1] = <<>>
    /\ proc' = Down
    /\ UNCHANGED <<bars, files, ghosts>>

-----------------------------------------------------------------------------
(* A minute of a session                                                     *)

Day == Len(ledger) + 1
Price == bars[Day][proc.minute]
AtClose == proc.minute = Len(bars[Day])

Bought == [book EXCEPT !.cash = @ - Price, !.qty = 1, !.stop = Price - StopGap,
                       !.fills = @ \cup {<<Day, "buy">>}]
SoldBy(how) ==
    [book EXCEPT !.cash = @ + Price, !.qty = 0, !.stop = 0, !.fills = @ \cup {<<Day, how>>}]

(* poll_open_orders: the stop fires at the broker, the gates notwithstanding. *)
Poll ==
    /\ proc.at = "poll"
    /\ book' = IF book.qty > 0 /\ Price <= book.stop THEN SoldBy("stop") ELSE book
    /\ proc' = [proc EXCEPT !.at = "trade"]
    /\ UNCHANGED <<bars, claims, halt, ledger, torn, ghosts>>

(* Slip: the switch is read when the day opens.                             *)
TradingOpenAtDawn == proc.ok

(* The trading gate and the switch, read for every order.                    *)
TradingOpen == proc.ok /\ ~halt

(* The trader wants to enter, or to get out: of necessity at the close.      *)
(* While a stop it does not know of earmarks the share, it cannot sell.       *)
Wants(kind) ==
    CASE kind = "buy"  -> book.qty = 0 /\ ~AtClose /\ book.cash >= Price
      [] kind = "sell" -> book.qty > 0 /\ (proc.mine \/ book.stop = 0)

(* The order's client order id is reserved in the file, once and for all.     *)
ClaimOrder(kind) ==
    /\ proc.at = "trade"
    /\ TradingOpen /\ Wants(kind) /\ <<Day, kind>> \notin claims
    /\ claims' = claims \cup {<<Day, kind>>}
    /\ proc' = [proc EXCEPT !.at = kind]
    /\ UNCHANGED <<bars, book, halt, ledger, torn, ghosts>>

(* The order reaches the book and is filled.  An entry's stop is placed with  *)
(* it, and its id is the process's alone.                                    *)
PlaceOrder ==
    /\ proc.at \in {"buy", "sell"}
    /\ book' = IF proc.at = "buy" THEN Bought ELSE SoldBy("sell")
    /\ proc' = [proc EXCEPT !.at = "mark", !.mine = proc.at = "buy"]
    /\ UNCHANGED <<bars, claims, halt, ledger, torn, ghosts>>

(* A cycle without an order: the trader wants none, or may not have it.       *)
Pass ==
    /\ proc.at = "trade"
    /\ ~(AtClose /\ TradingOpen /\ Wants("sell") /\ <<Day, "sell">> \notin claims)
    /\ proc' = [proc EXCEPT !.at = "mark"]
    /\ UNCHANGED <<bars, files, ghosts>>

Equity == book.cash + book.qty * Price
Base == IF proc.minute = 1 THEN Equity ELSE proc.base
Peak == IF proc.peak > Equity THEN proc.peak ELSE Equity

(* check_all_limits on the snapshot: of BREACH or CRITICAL severity.          *)
HardBreach ==
    \/ Base - Equity >= MaxLoss
    \/ 100 * (Peak - Equity) >= MaxDrawdown * Peak

(* The snapshot of the minute; the first hard breach engages the switch.      *)
Mark ==
    /\ proc.at = "mark"
    /\ LET acts == HardBreach /\ ~proc.enforced
       IN /\ halt' = (halt \/ acts)
          /\ breached' = (breached \/ acts)
          /\ proc' = [proc EXCEPT !.base = Base, !.peak = Peak, !.enforced = @ \/ acts,
                                  !.at = IF AtClose THEN "close" ELSE "poll",
                                  !.minute = IF AtClose THEN @ ELSE @ + 1]
    /\ UNCHANGED <<bars, book, claims, ledger, torn, crashes, orphans>>

(* The end of a day: recorded and, after a halt, the last.  A day that did    *)
(* not reconcile is driven to its end and not recorded.                     *)
CloseDay ==
    /\ proc.at = "close"
    /\ IF proc.ok
       THEN /\ ledger' = Append(ledger, [start |-> proc.start, end |-> book,
                                         halted |-> proc.enforced])
            /\ proc' = IF proc.enforced THEN Down ELSE [at |-> "between", enforced |-> FALSE]
       ELSE proc' = Down /\ UNCHANGED ledger
    /\ UNCHANGED <<bars, book, claims, halt, torn, ghosts>>

-----------------------------------------------------------------------------
(* Around the process                                                       *)

(* The process dies, anywhere; in the middle of an append the line is cut.    *)
Crash ==
    /\ proc # Down /\ crashes < Crashes
    /\ crashes' = crashes + 1
    /\ proc' = Down
    /\ torn' \in {torn, torn \/ (proc.at = "close" /\ proc.ok)}
    /\ orphans' = orphans \cup (book.fills \ Recorded.fills)
    /\ UNCHANGED <<bars, book, claims, halt, ledger, breached>>

(* A file is gone when the process is down.                                 *)
LoseFile ==
    /\ proc = Down /\ crashes < Crashes
    /\ crashes' = crashes + 1
    /\ \/ "book" \in Losses /\ book # Fresh /\ book' = Fresh /\ UNCHANGED ledger
       \/ "ledger" \in Losses /\ ledger # <<>> /\ ledger' = <<>> /\ UNCHANGED book
    /\ UNCHANGED <<bars, claims, halt, torn, proc, orphans, breached>>

(* The operator releases the switch before the next start.                  *)
Release ==
    /\ proc = Down /\ halt
    /\ halt' = FALSE /\ breached' = FALSE
    /\ UNCHANGED <<bars, book, claims, ledger, torn, proc, crashes, orphans>>

Init ==
    /\ bars \in Sessions
    /\ book = Fresh /\ claims = {} /\ halt = FALSE /\ ledger = <<>> /\ torn = FALSE
    /\ proc = Down /\ crashes = 0 /\ orphans = {} /\ breached = FALSE

Session == Poll \/ (\E k \in {"buy", "sell"} : ClaimOrder(k)) \/ PlaceOrder \/ Pass \/ Mark \/ CloseDay
Next == Start \/ OpenDay \/ Stop \/ Session \/ Crash \/ LoseFile \/ Release

Spec == Init /\ [][Next]_vars
FairSpec == Spec /\ WF_vars(Start \/ OpenDay \/ Stop \/ Session) /\ WF_vars(Release)

-----------------------------------------------------------------------------
(* Properties                                                               *)

(* The evidence is whole: every record takes up the cash its predecessor      *)
(* left, and holds no fill of a process that died before it could record     *)
(* the day, and so traded that day without its minutes being marked.         *)
RecordsAreWhole ==
    \A i \in DOMAIN ledger :
      /\ ledger[i].start = IF i = 1 THEN Opening ELSE ledger[i - 1].end.cash
      /\ ledger[i].end.fills \cap orphans = {}

(* After a hard breach the trader sends no order, whatever minutes, days and  *)
(* restarts pass, until an operator has released the switch.                *)
NoOrderAfterBreach == [][breached => claims' = claims]_vars

(* A campaign comes to its end, unless what a crash or a loss left behind     *)
(* disagrees with the ledger, or the plan has a day without bars.            *)
CompletesOrDisagrees ==
    <>(\/ Completed
       \/ torn
       \/ \E d \in DOMAIN bars : bars[d] = <<>>
       \/ proc = Down /\ book # Recorded)

(* A campaign leaves whole evidence after every step, and comes to its end.   *)
EndsWithEvidence == [][RecordsAreWhole']_vars /\ CompletesOrDisagrees

=============================================================================
