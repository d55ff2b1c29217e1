---------------------------- MODULE PaperBroker ----------------------------
(***************************************************************************)
(* The paper broker (broker/paper.py): the account every PAPER order is     *)
(* traded in.  Its methods are coroutines on one event loop: a call runs     *)
(* without interruption until it awaits a quote, and other calls run while   *)
(* it waits.  One action is one such stretch of a call.  The book - cash,    *)
(* earmarked cash, positions and orders - is persisted as one blob after a   *)
(* mutation, and restored from it when the process starts again.            *)
(*                                                                          *)
(* Money is a small integer.  The spread, the impact law and the cost model  *)
(* are abstracted to Slip, added to a buy's price and taken from a sell's,   *)
(* and to one charge per trade and side; liquidity to the quantity a quote   *)
(* can fill.  Average price, cost basis and P&L are left out.               *)
(***************************************************************************)
EXTENDS Integers, Sequences, FiniteSetsExt, Functions

CONSTANTS
    Callers,       \* concurrent calls
    Keys,          \* position keys: [symbol, product]
    Requests,      \* what callers ask: [key, side, type, qty, price]
    Quotes,        \* what the feed answers: [price, capacity]
    InitialCash, Slip, BuyCost, SellCost,
    MaxOrders      \* bound on the orders of one account

ASSUME MoneyAssumption ==
    /\ InitialCash \in Nat /\ Slip \in Nat /\ BuyCost \in Nat /\ SellCost \in Nat
    /\ MaxOrders \in Nat

ASSUME InputAssumption ==
    /\ Requests \subseteq [key : Keys, side : {"BUY", "SELL"},
                           type : {"MARKET", "LIMIT", "SL"}, qty : Nat, price : Nat]
    /\ Quotes \subseteq [price : {p \in Nat : p > Slip}, capacity : Nat]

VARIABLES
    book,       \* cash, reserved, positions, orders: the account in memory
    saved,      \* the persisted blob
    degraded,   \* the last save failed
    calls       \* what each call is waiting for

vars == <<book, saved, degraded, calls>>

(* What the clock of an order says of the exchange; "squareoff" is the end   *)
(* of the session, when intraday positions are closed.                      *)
Sessions == {"open", "squareoff", "closed"}

Terminal == {"PARTIAL", "COMPLETE", "CANCELLED", "REJECTED"}

IntradayKeys == {k \in Keys : k.product = "MIS"}

EmptyBook == [cash |-> InitialCash, reserved |-> 0,
              positions |-> [k \in Keys |-> 0], orders |-> << >>]

Idle == [op |-> "idle"]

NewOrder(r) == [key |-> r.key, side |-> r.side, type |-> r.type, qty |-> r.qty,
                price |-> r.price, status |-> "OPEN", filled |-> 0,
                heldCash |-> 0, heldQty |-> 0, reason |-> "none", tag |-> "caller"]

-----------------------------------------------------------------------------
(* The book                                                                 *)

Available(b) == b.cash - b.reserved

(* The stock of a position that resting orders have earmarked.              *)
ReservedQty(b, k) ==
    SumFunction([i \in DOMAIN b.orders |->
                   IF b.orders[i].status = "OPEN" /\ b.orders[i].key = k
                   THEN b.orders[i].heldQty ELSE 0])

FreeQty(b, k) == b.positions[k] - ReservedQty(b, k)

(* What every mutation ends with: an incoherent book raises.                *)
Coherent(b) ==
    /\ b.cash >= 0
    /\ b.reserved \in 0..b.cash
    /\ \A k \in Keys : b.positions[k] >= 0

Rejected(o, why) == [o EXCEPT !.status = "REJECTED", !.reason = why,
                              !.heldCash = 0, !.heldQty = 0]

Release(b, i) ==
    [b EXCEPT !.reserved = @ - b.orders[i].heldCash,
              !.orders[i].heldCash = 0, !.orders[i].heldQty = 0]

FillPrice(o, p) == IF o.side = "BUY" THEN p + Slip ELSE p - Slip

(* Does a quote at p make a resting order tradeable, size aside?            *)
Marketable(o, p) ==
    CASE o.type = "MARKET" -> TRUE
      [] o.type = "LIMIT"  -> IF o.side = "BUY" THEN p + Slip <= o.price
                                                ELSE p - Slip >= o.price
      [] o.type = "SL"     -> IF o.side = "BUY" THEN p >= o.price ELSE p <= o.price

(* The fill a quote supports; quantity 0 and no reason means "rest".        *)
PlanFill(o, q) ==
    LET rest == o.qty - o.filled
        no(why) == [qty |-> 0, price |-> 0, reason |-> why]
    IN CASE rest <= 0             -> no("none")
         [] rest > 0 /\ q.capacity < 1 -> no("NO_LIQUIDITY")
         [] rest > 0 /\ q.capacity >= 1 /\ ~Marketable(o, q.price) -> no("none")
         [] OTHER -> [qty |-> Min({rest, q.capacity}),
                      price |-> FillPrice(o, q.price), reason |-> "none"]

(* The most a buy can cost, earmarked when it is accepted.                  *)
WorstCaseOutflow(o, q) ==
    LET reference == CASE o.type = "LIMIT"  -> o.price
                       [] o.type = "MARKET" -> q.price + Slip
                       [] o.type = "SL"     -> Max({o.price, q.price}) + Slip
    IN o.qty * reference + BuyCost

(* The largest part of a buy that free cash and its own earmark can pay.    *)
AffordableQty(b, o, qty, price) ==
    LET budget == Available(b) + o.heldCash
        fits == {n \in 1..qty : n * price + BuyCost <= budget}
    IN IF price <= 0 \/ fits = {} THEN 0
       ELSE Max(fits)

(* The single place where cash and positions change.                        *)
ApplyFill(b, i, qty, price) ==
    LET o == b.orders[i]
        outflow == qty * price + BuyCost
        taken == Min({o.heldCash, outflow})
    IN IF o.side = "BUY"
       THEN [b EXCEPT !.reserved = @ - taken,
                      !.cash = @ - outflow,
                      !.positions[o.key] = @ + qty,
                      !.orders[i].heldCash = @ - taken,
                      !.orders[i].filled = @ + qty]
       ELSE [b EXCEPT !.cash = @ + qty * price - SellCost,
                      !.positions[o.key] = @ - qty,
                      !.orders[i].heldQty = IF @ > qty THEN @ - qty ELSE 0,
                      !.orders[i].filled = @ + qty]

(* Both constraints are checked again at the price of the fill.             *)
ExecuteAgainst(b, i, q) ==
    LET o == b.orders[i]
        plan == PlanFill(o, q)
        qty == IF o.side = "BUY" THEN AffordableQty(b, o, plan.qty, plan.price)
               ELSE Min({plan.qty, b.positions[o.key]})
    IN CASE plan.reason # "none" \/ plan.qty <= 0 -> [book |-> b, reason |-> plan.reason]
         [] plan.reason = "none" /\ plan.qty > 0 /\ qty <= 0 ->
              [book |-> b, reason |-> IF o.side = "BUY" THEN "INSUFFICIENT_CASH"
                                      ELSE "INSUFFICIENT_HOLDINGS"]
         [] OTHER -> [book |-> ApplyFill(b, i, qty, plan.price), reason |-> "none"]

(* Slip: the earmark of a partial fill's cancelled rest is not released.    *)
FinaliseKeeping(b, i) ==
    LET o == b.orders[i]
    IN CASE o.filled = 0       -> b
         [] o.filled >= o.qty  -> Release([b EXCEPT !.orders[i].status = "COMPLETE"], i)
         [] OTHER              -> [b EXCEPT !.orders[i].status = "PARTIAL"]

(* A partial fill does not rest: what is left of it is cancelled.           *)
Finalise(b, i) ==
    LET o == b.orders[i]
    IN IF o.filled = 0
       THEN [b EXCEPT !.orders[i].status = "OPEN",
                      !.orders[i].heldQty = IF @ > 0 THEN o.qty ELSE 0]
       ELSE Release([b EXCEPT !.orders[i].status =
                       IF o.filled >= o.qty THEN "COMPLETE" ELSE "PARTIAL"], i)

Added(b, o) == [b EXCEPT !.orders = Append(@, o)]

-----------------------------------------------------------------------------
(* Calls.  A call in "square" is between two orders of a square-off: it has  *)
(* not awaited anything and nothing else runs before it goes on.            *)

Turn == \A c \in Callers : calls[c].op # "square"

Return(c) == calls' = [calls EXCEPT ![c] = Idle]

(* The end of an order: its caller returns, a square-off goes on.           *)
Placed(c) ==
    calls' = [calls EXCEPT ![c] =
                IF @.op = "place" /\ @.left = {} THEN Idle ELSE [op |-> "square", left |-> @.left]]

(* _assert_invariants and _save_state: a book that is not coherent raises    *)
(* before it is saved, and a save that fails degrades the broker.           *)
Commit(b) ==
    /\ book' = b
    /\ IF ~Coherent(b) THEN UNCHANGED <<saved, degraded>>
       ELSE \/ saved' = b /\ degraded' = FALSE
            \/ saved' = saved /\ degraded' = TRUE

(* The checks place_order makes before it awaits the quote.                 *)
Refusal(o, session) ==
    CASE degraded                                    -> "PERSISTENCE_DEGRADED"
      [] ~degraded /\ session = "closed"             -> "MARKET_CLOSED"
      [] ~degraded /\ session = "squareoff" /\ o.side = "BUY"
           /\ o.key \in IntradayKeys                 -> "SQUARE_OFF_WINDOW"
      [] ~degraded /\ session # "closed" /\ o.side = "SELL"
           /\ o.qty > FreeQty(book, o.key)           -> "HOLDINGS"
      [] OTHER                                       -> "none"

(* The first stretch of place_order, for a caller or for a square-off.  A    *)
(* refused order enters the book but is not saved.                          *)
Begin(c, o, left) ==
    \E session \in Sessions :
       IF Refusal(o, session) = "none"
       THEN /\ calls' = [calls EXCEPT ![c] = [op |-> "place", order |-> o, left |-> left]]
            /\ UNCHANGED book
       ELSE /\ book' = Added(book, Rejected(o, Refusal(o, session)))
            /\ calls' = [calls EXCEPT ![c] =
                           IF @.op = "idle" THEN Idle ELSE [op |-> "square", left |-> left]]

Pending == SumFunction([c \in Callers |->
              CASE calls[c].op = "place"  -> 1 + Cardinality(calls[c].left)
                [] calls[c].op = "square" -> Cardinality(calls[c].left)
                [] OTHER                  -> 0])

PlaceOrder(c, r) ==
    /\ Turn /\ calls[c] = Idle
    /\ Len(book.orders) + Pending < MaxOrders
    /\ Begin(c, NewOrder(r), {})
    /\ UNCHANGED <<saved, degraded>>

(* The feed has no usable price, or a stale one, or no volume.              *)
PlaceNoQuote(c) ==
    /\ Turn /\ calls[c].op = "place"
    /\ book' = Added(book, Rejected(calls[c].order, "NO_PRICE"))
    /\ Placed(c)
    /\ UNCHANGED <<saved, degraded>>

(* The rest of place_order: earmark, try to execute, settle.                *)
PlaceOnQuote(c, q) ==
    LET o == calls[c].order
        need == WorstCaseOutflow(o, q)
        i == Len(book.orders) + 1
        earmarked == IF o.side = "BUY"
                     THEN [Added(book, [o EXCEPT !.heldCash = need]) EXCEPT !.reserved = @ + need]
                     ELSE Added(book, [o EXCEPT !.heldQty = o.qty])
        tried == ExecuteAgainst(earmarked, i, q)
    IN /\ Turn /\ calls[c].op = "place"
       /\ IF o.side = "BUY" /\ need > Available(book)
          THEN /\ book' = Added(book, Rejected(o, "INSUFFICIENT_CASH"))
               /\ UNCHANGED <<saved, degraded>>
          ELSE IF tried.reason # "none"
          THEN /\ book' = [Release(tried.book, i) EXCEPT
                             !.orders[i] = Rejected(@, tried.reason)]
               /\ UNCHANGED <<saved, degraded>>
          ELSE Commit(Finalise(tried.book, i))
       /\ Placed(c)

(* Cancelling does not wait for anything.                                   *)
Cancelled(b, i) == [Release(b, i) EXCEPT !.orders[i].status = "CANCELLED"]

(* Slip: a cancel is not persisted.                                         *)
CancelUnsaved(c, i) ==
    /\ Turn /\ calls[c] = Idle
    /\ book.orders[i].status = "OPEN"
    /\ book' = Cancelled(book, i)
    /\ UNCHANGED <<saved, degraded, calls>>

CancelOrder(c, i) ==
    /\ Turn /\ calls[c] = Idle
    /\ book.orders[i].status = "OPEN"
    /\ Commit(Cancelled(book, i))
    /\ UNCHANGED calls

(* A refused change of quantity leaves the new quantity behind, unsaved.    *)
ModifyOrder(c, i, qty, price) ==
    LET o == book.orders[i]
        changed == [book EXCEPT !.orders[i].qty = qty]
    IN /\ Turn /\ calls[c] = Idle
       /\ o.status = "OPEN" /\ qty > o.filled
       /\ IF o.heldQty > 0 /\ qty - o.filled > FreeQty(book, o.key) + o.heldQty
          THEN book' = changed /\ UNCHANGED <<saved, degraded>>
          ELSE Commit([changed EXCEPT !.orders[i].price = price,
                                      !.orders[i].heldQty = IF @ > 0 THEN qty - o.filled ELSE 0])
       /\ UNCHANGED calls

(* Polling: the resting orders of the moment it started, one quote each.    *)
NextOpen(i, n) == {j \in i..n : book'.orders[j].status = "OPEN"}

Advance(c, i, n, filled) ==
    calls' = [calls EXCEPT ![c] =
                IF NextOpen(i, n) = {} THEN Idle
                ELSE [op |-> "poll", at |-> Min(NextOpen(i, n)), upto |-> n, filled |-> filled]]

PollStart(c) ==
    /\ Turn /\ calls[c] = Idle
    /\ \E i \in DOMAIN book.orders : book.orders[i].status = "OPEN"
    /\ UNCHANGED <<book, saved, degraded>>
    /\ Advance(c, 1, Len(book.orders), FALSE)

PollNoQuote(c) ==
    LET f == calls[c]
    IN /\ Turn /\ f.op = "poll"
       /\ IF f.filled /\ {j \in f.at + 1 .. f.upto : book.orders[j].status = "OPEN"} = {}
          THEN Commit(book) ELSE UNCHANGED <<book, saved, degraded>>
       /\ Advance(c, f.at + 1, f.upto, f.filled)

(* The order is executed as it now is, whatever happened to it meanwhile;    *)
(* the book is saved once, when the poll ends.                              *)
PollOnQuote(c, q) ==
    LET f == calls[c]
        tried == ExecuteAgainst(book, f.at, q)
        filled == tried.book.orders[f.at].filled > book.orders[f.at].filled
        after == IF filled THEN Finalise(tried.book, f.at) ELSE book
    IN /\ Turn /\ f.op = "poll"
       /\ IF (filled \/ f.filled)
             /\ {j \in f.at + 1 .. f.upto : after.orders[j].status = "OPEN"} = {}
          THEN Commit(after)
          ELSE book' = after /\ UNCHANGED <<saved, degraded>>
       /\ Advance(c, f.at + 1, f.upto, f.filled \/ filled)

-----------------------------------------------------------------------------
(* Square-off of the intraday positions                                     *)

SquareOffStart(c) ==
    /\ Turn /\ calls[c] = Idle
    /\ Len(book.orders) + Pending + Cardinality(IntradayKeys) <= MaxOrders
    /\ \E k \in IntradayKeys : book.positions[k] > 0
    /\ calls' = [calls EXCEPT ![c] = [op |-> "square", left |-> IntradayKeys]]
    /\ UNCHANGED <<book, saved, degraded>>

(* Every resting order of the symbol is cancelled, whatever its product.    *)
ClearSymbol(b, k) ==
    LET mine(i) == b.orders[i].status = "OPEN" /\ b.orders[i].key.symbol = k.symbol
        held(i) == IF mine(i) THEN b.orders[i].heldCash ELSE 0
    IN [b EXCEPT !.reserved = @ - SumFunction([i \in DOMAIN b.orders |-> held(i)]),
                 !.orders = [i \in DOMAIN b.orders |->
                    IF mine(i) THEN [b.orders[i] EXCEPT !.status = "CANCELLED",
                                       !.heldCash = 0, !.heldQty = 0]
                    ELSE b.orders[i]]]

SquareOffCancel(c, k) ==
    /\ calls[c].op = "square" /\ k \in calls[c].left /\ book.positions[k] > 0
    /\ ClearSymbol(book, k) # book
    /\ Commit(ClearSymbol(book, k))
    /\ UNCHANGED calls

SquareOffSell(c, k) ==
    /\ calls[c].op = "square" /\ k \in calls[c].left /\ book.positions[k] > 0
    /\ ClearSymbol(book, k) = book
    /\ Begin(c, [NewOrder([key |-> k, side |-> "SELL", type |-> "MARKET",
                           qty |-> book.positions[k], price |-> 0]) EXCEPT !.tag = "squareoff"],
             calls[c].left \ {k})
    /\ UNCHANGED <<saved, degraded>>

SquareOffEnd(c) ==
    /\ calls[c].op = "square"
    /\ \A k \in calls[c].left : book.positions[k] = 0
    /\ Return(c)
    /\ UNCHANGED <<book, saved, degraded>>

-----------------------------------------------------------------------------
(* The process                                                              *)

(* The process dies and connect() restores the book from its blob.          *)
Restart ==
    /\ book' = saved /\ degraded' = FALSE
    /\ calls' = [c \in Callers |-> Idle]
    /\ UNCHANGED saved

Init ==
    /\ book = EmptyBook /\ saved = EmptyBook
    /\ degraded = FALSE
    /\ calls = [c \in Callers |-> Idle]

Next ==
    \/ \E c \in Callers :
         \/ \E r \in Requests : PlaceOrder(c, r)
         \/ PlaceNoQuote(c) \/ PollStart(c) \/ PollNoQuote(c)
         \/ SquareOffStart(c) \/ SquareOffEnd(c)
         \/ \E q \in Quotes : PlaceOnQuote(c, q) \/ PollOnQuote(c, q)
         \/ \E i \in DOMAIN book.orders :
              \/ CancelOrder(c, i)
              \/ \E r \in Requests : ModifyOrder(c, i, r.qty, r.price)
         \/ \E k \in IntradayKeys : SquareOffCancel(c, k) \/ SquareOffSell(c, k)
    \/ Restart

Spec == Init /\ [][Next]_vars

-----------------------------------------------------------------------------
(* Properties                                                               *)

OrderFields ==
          [key : Keys, side : {"BUY", "SELL"}, type : {"MARKET", "LIMIT", "SL"},
           qty : Nat, price : Nat, status : Terminal \cup {"OPEN"}, filled : Nat,
           heldCash : Nat, heldQty : Nat, tag : {"caller", "squareoff"},
           reason : {"none", "PERSISTENCE_DEGRADED", "MARKET_CLOSED", "SQUARE_OFF_WINDOW",
                     "HOLDINGS", "NO_PRICE", "NO_LIQUIDITY", "INSUFFICIENT_CASH",
                     "INSUFFICIENT_HOLDINGS"}]

Orders == {o \in OrderFields : o.filled <= o.qty}

Books == [cash : Int, reserved : Int, positions : [Keys -> Int], orders : Seq(Orders)]

Frames == {Idle}
    \cup [op : {"place"}, order : Orders, left : SUBSET IntradayKeys]
    \cup [op : {"square"}, left : SUBSET IntradayKeys]
    \cup [op : {"poll"}, at : Nat, upto : Nat, filled : BOOLEAN]

(* The type invariant of the account, its blob and the calls in flight; no   *)
(* order trades more than it asks for, however many polls fill it.          *)
TypeOK ==
    /\ book \in Books /\ saved \in Books
    /\ degraded \in BOOLEAN
    /\ calls \in [Callers -> Frames]

(* What an order has moved the position at key k by.                         *)
Moved(o, k) ==
    IF o.key # k THEN 0 ELSE IF o.side = "BUY" THEN o.filled ELSE -o.filled

(* The account adds up at every await, whoever interleaves there: cash covers what resting   *)
(* orders have earmarked and no position is short, so _assert_invariants never raises; the   *)
(* earmarked total is what the orders hold, and only a resting order holds cash or stock;   *)
(* and a position is what the orders have traded, also after a restart and a failed save.   *)
(* The sell of a square-off, which cancels the resting exits first, is never refused for     *)
(* want of free stock.                                                       *)
BookCoherent ==
    /\ TypeOK
    /\ Coherent(book)
    /\ book.reserved = SumFunction([i \in DOMAIN book.orders |-> book.orders[i].heldCash])
    /\ \A i \in DOMAIN book.orders :
         book.orders[i].status # "OPEN" => book.orders[i].heldCash = 0 /\ book.orders[i].heldQty = 0
    /\ \A k \in Keys : book.positions[k] =
         SumFunction([i \in DOMAIN book.orders |-> Moved(book.orders[i], k)])
    /\ \A i \in DOMAIN book.orders :
         book.orders[i].tag = "squareoff" => book.orders[i].reason # "HOLDINGS"

(* What a restart must not change: the money, the stock and every order      *)
(* that was accepted (a refused order is not saved, nor is the quantity of a *)
(* refused modification).                                                   *)
Accepted(b) ==
    LET over == {i \in DOMAIN b.orders : b.orders[i].status # "REJECTED"}
    IN [cash |-> b.cash, reserved |-> b.reserved, positions |-> b.positions,
        orders |-> {[id |-> i, status |-> b.orders[i].status, filled |-> b.orders[i].filled,
                     heldCash |-> b.orders[i].heldCash] : i \in over}]

UnsavedPoll == \E c \in Callers : calls[c].op = "poll" /\ calls[c].filled

(* While the store accepts saves, every acknowledged operation is durable:   *)
(* only a poll that is still under way has fills a restart would lose.      *)
DurableWhenHealthy == ~degraded /\ ~UnsavedPoll => Accepted(saved) = Accepted(book)
=============================================================================
