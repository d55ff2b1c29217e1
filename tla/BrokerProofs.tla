----------------------------- MODULE BrokerProofs -----------------------------
(* The two brokers: the account of the paper broker adds up, and a restart     *)
(* finds it, whatever interleaves at the awaits; the adapter of the live one   *)
(* tells what the exchange saw and keeps its rate; and what orders are priced    *)
(* at and history says.                                                      *)
EXTENDS PaperBroker, Zerodha, Prices, SequenceTheorems, FiniteSetTheorems, Sums, TLAPS

-----------------------------------------------------------------------------
(* THE PAPER BROKER                                                          *)

-----------------------------------------------------------------------------
(* A book that adds up                                                      *)

Held(b) == [i \in DOMAIN b.orders |-> b.orders[i].heldCash]
MovedBy(b, k) == [i \in DOMAIN b.orders |-> Moved(b.orders[i], k)]

Account(x, y, p, s) == [cash |-> x, reserved |-> y, positions |-> p, orders |-> s]

(* Only a resting order holds cash or stock.                                *)
OrderOK(o) ==
    /\ o \in Orders
    /\ o.status # "OPEN" => o.heldCash = 0 /\ o.heldQty = 0
    /\ o.tag = "squareoff" => o.reason # "HOLDINGS"

(* A book that adds up.                                                     *)
BookOK(b) ==
    /\ b \in Books
    /\ \A i \in DOMAIN b.orders : OrderOK(b.orders[i])
    /\ b.reserved = SumFunction(Held(b)) /\ b.reserved <= b.cash
    /\ \A k \in Keys : b.positions[k] = SumFunction(MovedBy(b, k)) /\ b.positions[k] >= 0

LEMMA OrderTyped ==
  ASSUME NEW o \in Orders
  PROVE  /\ o.heldCash \in Nat /\ o.heldQty \in Nat /\ o.filled \in Nat /\ o.qty \in Nat
         /\ o.filled <= o.qty /\ o.key \in Keys /\ o.side \in {"BUY", "SELL"} /\ o.price \in Nat
         /\ o.status \in Terminal \cup {"OPEN"}
         /\ \A k : Moved(o, k) \in Int
         /\ \A k : o.filled = 0 => Moved(o, k) = 0
<1>1. /\ o.heldCash \in Nat /\ o.heldQty \in Nat /\ o.filled \in Nat /\ o.qty \in Nat
      /\ o.filled <= o.qty /\ o.key \in Keys /\ o.side \in {"BUY", "SELL"} /\ o.price \in Nat
      /\ o.status \in Terminal \cup {"OPEN"}
  BY DEF Orders, OrderFields
<1>. QED
  BY <1>1 DEF Moved

LEMMA BookTyped ==
  ASSUME NEW b \in Books
  PROVE  /\ b.cash \in Int /\ b.reserved \in Int /\ b.positions \in [Keys -> Int]
         /\ b.orders \in Seq(Orders) /\ DOMAIN b.orders = 1..Len(b.orders) /\ Len(b.orders) \in Nat
         /\ \A i \in DOMAIN b.orders : b.orders[i] \in Orders
         /\ IsFiniteSet(DOMAIN b.orders)
         /\ DOMAIN b = {"cash", "reserved", "positions", "orders"}
         /\ b = Account(b.cash, b.reserved, b.positions, b.orders)
<1>1. /\ b.cash \in Int /\ b.reserved \in Int /\ b.positions \in [Keys -> Int]
      /\ b.orders \in Seq(Orders) /\ DOMAIN b = {"cash", "reserved", "positions", "orders"}
      /\ b = Account(b.cash, b.reserved, b.positions, b.orders)
  BY DEF Books, Account
<1>2. /\ DOMAIN b.orders = 1..Len(b.orders) /\ Len(b.orders) \in Nat
      /\ \A i \in DOMAIN b.orders : b.orders[i] \in Orders
  BY <1>1
<1>3. IsFiniteSet(1..Len(b.orders))
  BY <1>2, FS_Interval
<1>. QED
  BY <1>1, <1>2, <1>3

LEMMA AccountFields ==
  ASSUME NEW x, NEW y, NEW p, NEW s
  PROVE  LET r == Account(x, y, p, s)
         IN  /\ r.cash = x /\ r.reserved = y /\ r.positions = p /\ r.orders = s
             /\ x \in Int /\ y \in Int /\ p \in [Keys -> Int] /\ s \in Seq(Orders) => r \in Books
BY DEF Account, Books

(* What resting orders hold is no less than nothing, nor than one of them.   *)
LEMMA HeldCovers ==
  ASSUME NEW b, BookOK(b)
  PROVE  /\ b.reserved >= 0 /\ b.cash >= 0
         /\ \A i \in DOMAIN b.orders : b.orders[i].heldCash <= b.reserved
<1>1. b \in Books /\ b.reserved = SumFunction(Held(b)) /\ b.reserved <= b.cash
  BY DEF BookOK
<1>2. /\ DOMAIN Held(b) = DOMAIN b.orders /\ IsFiniteSet(DOMAIN Held(b))
      /\ \A i \in DOMAIN Held(b) : Held(b)[i] = b.orders[i].heldCash
  BY <1>1, BookTyped DEF Held
<1>3. \A i \in DOMAIN Held(b) : Held(b)[i] \in Nat
  BY <1>1, <1>2, BookTyped, OrderTyped
<1>4. SumFunction(Held(b)) \in Nat /\ \A i \in DOMAIN Held(b) : Held(b)[i] <= SumFunction(Held(b))
  BY <1>2, <1>3, SumNat
<1>5. b.cash \in Int /\ b.reserved \in Int
  BY <1>1, BookTyped
<1>. QED
  BY <1>1, <1>2, <1>4, <1>5

-----------------------------------------------------------------------------
(* One order moves                                                          *)

(* An order takes another shape and cash, earmarks and its position follow:  *)
(* the book still adds up, if it can afford it.                             *)
LEMMA OrderMoves ==
  ASSUME NEW b, BookOK(b), NEW i \in DOMAIN b.orders, NEW o, OrderOK(o),
         o.key = b.orders[i].key, o.side = b.orders[i].side,
         NEW x \in Int, NEW y \in Int, y = b.reserved + (o.heldCash - b.orders[i].heldCash), y <= x,
         NEW n \in Int, n = b.positions[o.key] + (Moved(o, o.key) - Moved(b.orders[i], o.key)), n >= 0
  PROVE  BookOK(Account(x, y, [b.positions EXCEPT ![o.key] = n], [b.orders EXCEPT ![i] = o]))
<1>. DEFINE s == [b.orders EXCEPT ![i] = o]
            p == [b.positions EXCEPT ![o.key] = n]
            r == Account(x, y, p, s)
<1>1. /\ b \in Books /\ \A j \in DOMAIN b.orders : OrderOK(b.orders[j])
      /\ b.reserved = SumFunction(Held(b))
      /\ \A k \in Keys : b.positions[k] = SumFunction(MovedBy(b, k)) /\ b.positions[k] >= 0
  BY DEF BookOK
<1>2. /\ b.positions \in [Keys -> Int] /\ b.orders \in Seq(Orders) /\ IsFiniteSet(DOMAIN b.orders)
      /\ \A j \in DOMAIN b.orders : b.orders[j] \in Orders
  BY <1>1, BookTyped
<1>3. o \in Orders /\ o.key \in Keys
  BY OrderTyped DEF OrderOK
<1>4. /\ s \in Seq(Orders) /\ DOMAIN s = DOMAIN b.orders /\ s[i] = o
      /\ \A j \in DOMAIN b.orders \ {i} : s[j] = b.orders[j]
  <2>1. b.orders \in [1..Len(b.orders) -> Orders] /\ s \in [1..Len(b.orders) -> Orders]
    BY <1>1, <1>2, <1>3, BookTyped
  <2>2. s \in Seq(Orders)
    BY <1>2, <1>3, ExceptSeq
  <2>. QED
    BY <1>2, <2>1, <2>2
<1>5. /\ p \in [Keys -> Int] /\ p[o.key] = n
      /\ \A k \in Keys \ {o.key} : p[k] = b.positions[k]
  BY <1>2, <1>3
<1>. HIDE DEF s, p
<1>6. r.cash = x /\ r.reserved = y /\ r.positions = p /\ r.orders = s /\ r \in Books
  BY <1>4, <1>5, AccountFields
<1>. HIDE DEF r
<1>7. SumFunction(Held(r)) = SumFunction(Held(b)) + (Held(r)[i] - Held(b)[i])
  <2>1. DOMAIN Held(b) = DOMAIN b.orders /\ DOMAIN Held(r) = DOMAIN b.orders
    BY <1>4, <1>6 DEF Held
  <2>2. Whole(Held(b), DOMAIN b.orders) /\ Whole(Held(r), DOMAIN b.orders)
    BY <1>2, <1>3, <1>4, <1>6, OrderTyped DEF Held, Whole
  <2>3. \A j \in DOMAIN b.orders \ {i} : Held(r)[j] = Held(b)[j]
    BY <1>4, <1>6 DEF Held
  <2>. QED
    BY <1>2, <2>1, <2>2, <2>3, SumChanges
<1>8. Held(r)[i] = o.heldCash /\ Held(b)[i] = b.orders[i].heldCash
  BY <1>4, <1>6 DEF Held
<1>9. r.reserved = SumFunction(Held(r))
  BY <1>1, <1>6, <1>7, <1>8
<1>10. ASSUME NEW k \in Keys
       PROVE  r.positions[k] = SumFunction(MovedBy(r, k)) /\ r.positions[k] >= 0
  <2>1. DOMAIN MovedBy(b, k) = DOMAIN b.orders /\ DOMAIN MovedBy(r, k) = DOMAIN b.orders
    BY <1>4, <1>6 DEF MovedBy
  <2>2. Whole(MovedBy(b, k), DOMAIN b.orders) /\ Whole(MovedBy(r, k), DOMAIN b.orders)
    BY <1>2, <1>3, <1>4, <1>6, OrderTyped DEF MovedBy, Whole
  <2>3. \A j \in DOMAIN b.orders \ {i} : MovedBy(r, k)[j] = MovedBy(b, k)[j]
    BY <1>4, <1>6 DEF MovedBy
  <2>4. SumFunction(MovedBy(r, k)) = SumFunction(MovedBy(b, k)) + (MovedBy(r, k)[i] - MovedBy(b, k)[i])
    BY <1>2, <2>1, <2>2, <2>3, SumChanges
  <2>5. MovedBy(r, k)[i] = Moved(o, k) /\ MovedBy(b, k)[i] = Moved(b.orders[i], k)
    BY <1>4, <1>6 DEF MovedBy
  <2>6. CASE k = o.key
    BY <1>1, <1>5, <1>6, <2>4, <2>5, <2>6
  <2>7. CASE k # o.key
    <3>1. Moved(o, k) = 0 /\ Moved(b.orders[i], k) = 0
      BY <2>7 DEF Moved
    <3>2. b.positions[k] \in Int /\ p[k] = b.positions[k]
      BY <1>2, <1>5, <2>7
    <3>. QED
      BY <1>1, <1>6, <2>4, <2>5, <3>1, <3>2
  <2>. QED
    BY <2>6, <2>7
<1>11. \A j \in DOMAIN r.orders : OrderOK(r.orders[j])
  BY <1>1, <1>4, <1>6
<1>12. BookOK(r)
  BY <1>6, <1>9, <1>10, <1>11 DEF BookOK
<1>. QED
  BY <1>12 DEF r, s, p

(* A new order that has not traded enters the book.                         *)
LEMMA OrderEnters ==
  ASSUME NEW b, BookOK(b), NEW o, OrderOK(o), o.filled = 0,
         NEW y \in Int, y = b.reserved + o.heldCash, y <= b.cash
  PROVE  BookOK(Account(b.cash, y, b.positions, Append(b.orders, o)))
<1>. DEFINE s == Append(b.orders, o)
            r == Account(b.cash, y, b.positions, s)
            i == Len(b.orders) + 1
<1>1. /\ b \in Books /\ \A j \in DOMAIN b.orders : OrderOK(b.orders[j])
      /\ b.reserved = SumFunction(Held(b))
      /\ \A k \in Keys : b.positions[k] = SumFunction(MovedBy(b, k)) /\ b.positions[k] >= 0
  BY DEF BookOK
<1>2. /\ b.cash \in Int /\ b.positions \in [Keys -> Int] /\ b.orders \in Seq(Orders)
      /\ IsFiniteSet(DOMAIN b.orders) /\ \A j \in DOMAIN b.orders : b.orders[j] \in Orders
      /\ DOMAIN b.orders = 1..Len(b.orders) /\ Len(b.orders) \in Nat
  BY <1>1, BookTyped
<1>3. o \in Orders
  BY DEF OrderOK
<1>4. /\ s \in Seq(Orders) /\ DOMAIN s = DOMAIN b.orders \cup {i} /\ s[i] = o /\ i \notin DOMAIN b.orders
      /\ \A j \in DOMAIN b.orders : s[j] = b.orders[j]
  BY <1>2, <1>3
<1>. HIDE DEF s, i
<1>5. r.cash = b.cash /\ r.reserved = y /\ r.positions = b.positions /\ r.orders = s /\ r \in Books
  BY <1>2, <1>4, AccountFields
<1>. HIDE DEF r
<1>6. SumFunction(Held(r)) = SumFunction(Held(b)) + Held(r)[i]
  <2>1. DOMAIN Held(b) = DOMAIN b.orders /\ DOMAIN Held(r) = DOMAIN b.orders \cup {i}
    BY <1>4, <1>5 DEF Held
  <2>2. Whole(Held(r), DOMAIN b.orders \cup {i})
    BY <1>2, <1>3, <1>4, <1>5, OrderTyped DEF Held, Whole
  <2>3. \A j \in DOMAIN b.orders : Held(r)[j] = Held(b)[j]
    BY <1>4, <1>5 DEF Held
  <2>. QED
    BY <1>2, <1>4, <2>1, <2>2, <2>3, SumGrows
<1>7. Held(r)[i] = o.heldCash
  BY <1>4, <1>5 DEF Held
<1>8. ASSUME NEW k \in Keys
      PROVE  r.positions[k] = SumFunction(MovedBy(r, k)) /\ r.positions[k] >= 0
  <2>1. DOMAIN MovedBy(b, k) = DOMAIN b.orders /\ DOMAIN MovedBy(r, k) = DOMAIN b.orders \cup {i}
    BY <1>4, <1>5 DEF MovedBy
  <2>2. Whole(MovedBy(r, k), DOMAIN b.orders \cup {i})
    BY <1>2, <1>3, <1>4, <1>5, OrderTyped DEF MovedBy, Whole
  <2>3. \A j \in DOMAIN b.orders : MovedBy(r, k)[j] = MovedBy(b, k)[j]
    BY <1>4, <1>5 DEF MovedBy
  <2>4. SumFunction(MovedBy(r, k)) = SumFunction(MovedBy(b, k)) + MovedBy(r, k)[i]
    BY <1>2, <1>4, <2>1, <2>2, <2>3, SumGrows
  <2>5. MovedBy(r, k)[i] = 0
    <3>1. Moved(o, k) = 0
      BY <1>3, OrderTyped
    <3>. QED
      BY <1>4, <1>5, <3>1 DEF MovedBy
  <2>6. b.positions[k] \in Int
    BY <1>2
  <2>. QED
    BY <1>1, <1>5, <2>4, <2>5, <2>6
<1>9. \A j \in DOMAIN r.orders : OrderOK(r.orders[j])
  BY <1>1, <1>4, <1>5
<1>10. BookOK(r)
  BY <1>1, <1>5, <1>6, <1>7, <1>8, <1>9 DEF BookOK
<1>. QED
  BY <1>10 DEF r, s

-----------------------------------------------------------------------------
(* What becomes of one order, and of the book it is in                      *)

LEMMA AccountOf ==
  ASSUME NEW r, DOMAIN r = {"cash", "reserved", "positions", "orders"}, r = [f \in DOMAIN r |-> r[f]]
  PROVE  r = Account(r.cash, r.reserved, r.positions, r.orders)
BY DEF Account

(* What an order may become.                                                *)
LEMMA OrderBecomes ==
  ASSUME NEW o, OrderOK(o)
  PROVE  /\ \A st \in Terminal :
              OrderOK([o EXCEPT !.status = st, !.heldCash = 0, !.heldQty = 0])
         /\ OrderOK([o EXCEPT !.status = "OPEN", !.heldQty = IF @ > 0 THEN o.qty ELSE 0])
         /\ \A why \in {"NO_LIQUIDITY", "INSUFFICIENT_CASH", "INSUFFICIENT_HOLDINGS", "NO_PRICE",
                        "PERSISTENCE_DEGRADED", "MARKET_CLOSED", "SQUARE_OFF_WINDOW"} :
              OrderOK(Rejected(o, why))
         /\ o.tag # "squareoff" => OrderOK(Rejected(o, "HOLDINGS"))
<1>1. o \in Orders /\ o.qty \in Nat
  BY OrderTyped DEF OrderOK
<1>2. ASSUME NEW st \in Terminal
      PROVE  OrderOK([o EXCEPT !.status = st, !.heldCash = 0, !.heldQty = 0])
  BY <1>1 DEF OrderOK, Orders, OrderFields
<1>3. OrderOK([o EXCEPT !.status = "OPEN", !.heldQty = IF @ > 0 THEN o.qty ELSE 0])
  BY <1>1 DEF OrderOK, Orders, OrderFields
<1>4. ASSUME NEW why \in {"NO_LIQUIDITY", "INSUFFICIENT_CASH", "INSUFFICIENT_HOLDINGS", "NO_PRICE",
                        "PERSISTENCE_DEGRADED", "MARKET_CLOSED", "SQUARE_OFF_WINDOW"}
      PROVE  OrderOK(Rejected(o, why))
  BY <1>1 DEF OrderOK, Orders, OrderFields, Rejected, Terminal
<1>5. ASSUME o.tag # "squareoff" PROVE OrderOK(Rejected(o, "HOLDINGS"))
  BY <1>1, <1>5 DEF OrderOK, Orders, OrderFields, Rejected, Terminal
<1>. QED
  BY <1>2, <1>3, <1>4, <1>5

LEMMA OrderTakes ==
  ASSUME NEW o, OrderOK(o), NEW keptBack \in Nat, o.status # "OPEN" => keptBack = 0,
         NEW stock \in Nat, o.status # "OPEN" => stock = 0,
         NEW total \in Nat, total <= o.qty
  PROVE  OrderOK([o EXCEPT !.heldCash = keptBack, !.heldQty = stock, !.filled = total])
<1>. DEFINE r == [o EXCEPT !.heldCash = keptBack, !.heldQty = stock, !.filled = total]
<1>1. o \in OrderFields
  BY DEF OrderOK, Orders
<1>2. r \in OrderFields
  BY <1>1 DEF OrderFields
<1>3. r.filled = total /\ r.qty = o.qty /\ r.status = o.status /\ r.heldCash = keptBack /\ r.heldQty = stock
      /\ r.tag = o.tag /\ r.reason = o.reason
  BY <1>1 DEF OrderFields
<1>. HIDE DEF r
<1>4. OrderOK(r)
  BY <1>2, <1>3 DEF OrderOK, Orders
<1>. QED
  BY <1>4 DEF r

(* An order settles: nothing trades, and what it no longer holds is free.    *)
LEMMA OrderSettles ==
  ASSUME NEW b, BookOK(b), NEW i \in DOMAIN b.orders, NEW o, OrderOK(o),
         o.key = b.orders[i].key, o.side = b.orders[i].side, o.filled = b.orders[i].filled,
         o.heldCash <= b.orders[i].heldCash,
         NEW y, y = b.reserved - b.orders[i].heldCash + o.heldCash
  PROVE  BookOK(Account(b.cash, y, b.positions, [b.orders EXCEPT ![i] = o]))
<1>. DEFINE n == b.positions[o.key]
<1>1. b \in Books /\ b.reserved <= b.cash /\ \A k \in Keys : b.positions[k] >= 0
  BY DEF BookOK
<1>2. /\ b.cash \in Int /\ b.reserved \in Int /\ b.positions \in [Keys -> Int]
      /\ b.orders[i] \in Orders
  BY <1>1, BookTyped
<1>3. /\ o.heldCash \in Nat /\ b.orders[i].heldCash \in Nat /\ o.key \in Keys
      /\ \A k : Moved(o, k) \in Int
  BY <1>2, OrderTyped DEF OrderOK
<1>4. y \in Int /\ y <= b.cash /\ y = b.reserved + (o.heldCash - b.orders[i].heldCash)
  BY <1>1, <1>2, <1>3
<1>5. Moved(o, o.key) = Moved(b.orders[i], o.key)
  BY DEF Moved
<1>6. n \in Int /\ n >= 0
  BY <1>1, <1>2, <1>3
<1>7. n = b.positions[o.key] + (Moved(o, o.key) - Moved(b.orders[i], o.key))
  BY <1>3, <1>5, <1>6
<1>8. [b.positions EXCEPT ![o.key] = n] = b.positions
  BY <1>2, <1>3
<1>. HIDE DEF n
<1>9. BookOK(Account(b.cash, y, [b.positions EXCEPT ![o.key] = n], [b.orders EXCEPT ![i] = o]))
  BY <1>2, <1>4, <1>6, <1>7, OrderMoves
<1>. QED
  BY <1>8, <1>9

Shaped(r) == DOMAIN r = {"cash", "reserved", "positions", "orders"} /\ r = [f \in DOMAIN r |-> r[f]]

(* A book in which one order has settled, and what it held is free again.    *)
LEMMA BookSettles ==
  ASSUME NEW b, BookOK(b), NEW i \in DOMAIN b.orders, NEW o, OrderOK(o),
         o.key = b.orders[i].key, o.side = b.orders[i].side, o.filled = b.orders[i].filled,
         o.heldCash = 0 \/ o.heldCash = b.orders[i].heldCash,
         NEW r, Shaped(r), r.cash = b.cash, r.positions = b.positions,
         r.reserved = IF o.heldCash = 0 THEN b.reserved - b.orders[i].heldCash ELSE b.reserved,
         r.orders = [b.orders EXCEPT ![i] = o]
  PROVE  BookOK(r) /\ Len(r.orders) = Len(b.orders)
<1>1. r = Account(b.cash, r.reserved, b.positions, [b.orders EXCEPT ![i] = o])
  BY AccountOf DEF Shaped
<1>2. b \in Books /\ OrderOK(b.orders[i])
  BY DEF BookOK
<1>3. b.orders[i].heldCash \in Nat /\ b.reserved \in Int /\ b.orders \in Seq(Orders)
  BY <1>2, OrderTyped, BookTyped DEF OrderOK
<1>4. r.reserved = b.reserved - b.orders[i].heldCash + o.heldCash /\ o.heldCash <= b.orders[i].heldCash
  BY <1>3
<1>5. Len(r.orders) = Len(b.orders)
  BY <1>2, <1>3, BookTyped
<1>6. BookOK(Account(b.cash, r.reserved, b.positions, [b.orders EXCEPT ![i] = o]))
  BY <1>4, OrderSettles
<1>. QED
  BY <1>1, <1>5, <1>6

(* The parts of a book and of an order that updates take apart.             *)
LEMMA BookParts ==
  ASSUME NEW b, BookOK(b)
  PROVE  /\ DOMAIN b = {"cash", "reserved", "positions", "orders"}
         /\ DOMAIN b.orders = 1..Len(b.orders) /\ b.orders = [j \in DOMAIN b.orders |-> b.orders[j]]
         /\ \A i \in DOMAIN b.orders : OrderOK(b.orders[i]) /\ b.orders[i] \in OrderFields
BY DEF BookOK, Books, OrderOK, Orders

LEMMA CancelledOK ==
  ASSUME NEW b, BookOK(b), NEW i \in DOMAIN b.orders
  PROVE  BookOK(Cancelled(b, i)) /\ Len(Cancelled(b, i).orders) = Len(b.orders)
<1>. DEFINE o == [b.orders[i] EXCEPT !.status = "CANCELLED", !.heldCash = 0, !.heldQty = 0]
            r == Cancelled(b, i)
<1>1. /\ DOMAIN b = {"cash", "reserved", "positions", "orders"}
      /\ DOMAIN b.orders = 1..Len(b.orders) /\ b.orders = [j \in DOMAIN b.orders |-> b.orders[j]]
      /\ OrderOK(b.orders[i]) /\ b.orders[i] \in OrderFields
  BY BookParts
<1>2. r.cash = b.cash /\ r.positions = b.positions
  BY <1>1 DEF Cancelled, Release
<1>3. r.reserved = b.reserved - b.orders[i].heldCash
  BY <1>1 DEF Cancelled, Release
<1>4. r.orders = [b.orders EXCEPT ![i] = o]
  BY <1>1, ZenonT(60) DEF Cancelled, Release, OrderFields
<1>5. Shaped(r)
  BY <1>1 DEF Cancelled, Release, Shaped
<1>6. OrderOK(o)
  BY <1>1, OrderBecomes DEF Terminal
<1>7. /\ o.key = b.orders[i].key /\ o.side = b.orders[i].side /\ o.filled = b.orders[i].filled
      /\ o.heldCash = 0
  BY <1>1 DEF OrderFields
<1>. HIDE DEF o, r
<1>8. BookOK(r) /\ Len(r.orders) = Len(b.orders)
  BY <1>2, <1>3, <1>4, <1>5, <1>6, <1>7, BookSettles
<1>. QED
  BY <1>8 DEF r

LEMMA FinalisedOK ==
  ASSUME NEW b, BookOK(b), NEW i \in DOMAIN b.orders
  PROVE  BookOK(Finalise(b, i)) /\ Len(Finalise(b, i).orders) = Len(b.orders)
<1>1. /\ DOMAIN b = {"cash", "reserved", "positions", "orders"}
      /\ DOMAIN b.orders = 1..Len(b.orders) /\ b.orders = [j \in DOMAIN b.orders |-> b.orders[j]]
      /\ OrderOK(b.orders[i]) /\ b.orders[i] \in OrderFields
  BY BookParts
<1>2. CASE b.orders[i].filled = 0
  <2>. DEFINE o == [b.orders[i] EXCEPT !.status = "OPEN", !.heldQty = IF @ > 0 THEN b.orders[i].qty ELSE 0]
              r == Finalise(b, i)
  <2>1. r.cash = b.cash /\ r.positions = b.positions /\ r.reserved = b.reserved
    BY <1>1, <1>2 DEF Finalise
  <2>2. r.orders = [b.orders EXCEPT ![i] = o]
    BY <1>1, <1>2 DEF Finalise, OrderFields
  <2>3. Shaped(r)
    BY <1>1, <1>2 DEF Finalise, Shaped
  <2>4. OrderOK(o)
    BY <1>1, OrderBecomes
  <2>5. /\ o.key = b.orders[i].key /\ o.side = b.orders[i].side /\ o.filled = b.orders[i].filled
        /\ o.heldCash = b.orders[i].heldCash
    BY <1>1 DEF OrderFields
  <2>6. r.reserved = IF o.heldCash = 0 THEN b.reserved - b.orders[i].heldCash ELSE b.reserved
    <3>1. b.reserved \in Int
      BY BookTyped DEF BookOK
    <3>. HIDE DEF r, o
    <3>. QED
      BY <2>1, <2>5, <3>1
  <2>. HIDE DEF o, r
  <2>7. BookOK(r) /\ Len(r.orders) = Len(b.orders)
    BY <2>1, <2>2, <2>3, <2>4, <2>5, <2>6, BookSettles
  <2>. QED
    BY <2>7 DEF r
<1>3. CASE b.orders[i].filled # 0
  <2>. DEFINE st == IF b.orders[i].filled >= b.orders[i].qty THEN "COMPLETE" ELSE "PARTIAL"
              o == [b.orders[i] EXCEPT !.status = st, !.heldCash = 0, !.heldQty = 0]
              r == Release([b EXCEPT !.orders[i].status = st], i)
  <2>0. r = Finalise(b, i) /\ st \in Terminal
    BY <1>3 DEF Finalise, Terminal
  <2>. HIDE DEF st
  <2>1. r.cash = b.cash /\ r.positions = b.positions
    BY <1>1 DEF Release
  <2>2. r.reserved = b.reserved - b.orders[i].heldCash
    BY <1>1 DEF Release, OrderFields
  <2>3. r.orders = [b.orders EXCEPT ![i] = o]
    BY <1>1 DEF Release, OrderFields
  <2>4. Shaped(r)
    <3>. DEFINE c == [b EXCEPT !.orders[i].status = st]
    <3>1. DOMAIN c = {"cash", "reserved", "positions", "orders"}
      BY <1>1
    <3>. HIDE DEF c
    <3>2. Shaped(Release(c, i))
      BY <3>1 DEF Release, Shaped
    <3>. QED
      BY <3>2 DEF c
  <2>5. OrderOK(o)
    BY <1>1, <2>0, OrderBecomes
  <2>6. /\ o.key = b.orders[i].key /\ o.side = b.orders[i].side /\ o.filled = b.orders[i].filled
        /\ o.heldCash = 0
    BY <1>1 DEF OrderFields
  <2>. HIDE DEF o, r
  <2>7. BookOK(r) /\ Len(r.orders) = Len(b.orders)
    BY <2>1, <2>2, <2>3, <2>4, <2>5, <2>6, BookSettles
  <2>. QED
    BY <2>0, <2>7
<1>. QED
  BY <1>2, <1>3

(* An accepted order that its quote does not fill is rejected after all.     *)
Undone(b, i, why) == [Release(b, i) EXCEPT !.orders[i] = Rejected(@, why)]

Unwound(r, b, i, why) ==
    /\ BookOK(r) /\ Len(r.orders) = Len(b.orders)
    /\ r.cash = b.cash /\ r.positions = b.positions
    /\ r.reserved = b.reserved - b.orders[i].heldCash
    /\ r.orders = [b.orders EXCEPT ![i] = Rejected(b.orders[i], why)]

LEMMA RefusedOK ==
  ASSUME NEW b, BookOK(b), NEW i \in DOMAIN b.orders,
         NEW why \in {"NO_LIQUIDITY", "INSUFFICIENT_CASH", "INSUFFICIENT_HOLDINGS"}
  PROVE  Unwound(Undone(b, i, why), b, i, why)
<1>. DEFINE r == Undone(b, i, why)
            o == Rejected(b.orders[i], why)
<1>1. /\ DOMAIN b = {"cash", "reserved", "positions", "orders"}
      /\ DOMAIN b.orders = 1..Len(b.orders) /\ b.orders = [j \in DOMAIN b.orders |-> b.orders[j]]
      /\ OrderOK(b.orders[i]) /\ b.orders[i] \in OrderFields
  BY BookParts
<1>2. r.cash = b.cash /\ r.positions = b.positions
  BY <1>1 DEF Undone, Release
<1>3. r.reserved = b.reserved - b.orders[i].heldCash
  BY <1>1 DEF Undone, Release
<1>4. r.orders = [b.orders EXCEPT ![i] = o]
  BY <1>1, ZenonT(60) DEF Undone, Release, OrderFields, Rejected
<1>5. Shaped(r)
  BY <1>1 DEF Undone, Release, Shaped
<1>6. OrderOK(o)
  BY <1>1, OrderBecomes
<1>7. /\ o.key = b.orders[i].key /\ o.side = b.orders[i].side /\ o.filled = b.orders[i].filled
      /\ o.heldCash = 0
  BY <1>1 DEF OrderFields, Rejected
<1>. HIDE DEF o, r
<1>8. BookOK(r) /\ Len(r.orders) = Len(b.orders)
  BY <1>2, <1>3, <1>4, <1>5, <1>6, <1>7, BookSettles
<1>. QED
  BY <1>2, <1>3, <1>4, <1>8 DEF Unwound, r, o

(* A modification: refused with the new quantity, or taken.                 *)
LEMMA ModifiedOK ==
  ASSUME NEW b, BookOK(b), NEW i \in DOMAIN b.orders, b.orders[i].status = "OPEN",
         NEW qty \in Nat, b.orders[i].filled < qty, NEW price \in Nat
  PROVE  LET c == [b EXCEPT !.orders[i].qty = qty]
             r == [c EXCEPT !.orders[i].price = price,
                            !.orders[i].heldQty = IF @ > 0 THEN qty - b.orders[i].filled ELSE 0]
         IN  /\ BookOK(c) /\ Len(c.orders) = Len(b.orders)
             /\ BookOK(r) /\ Len(r.orders) = Len(b.orders)
<1>. DEFINE c == [b EXCEPT !.orders[i].qty = qty]
            r == [c EXCEPT !.orders[i].price = price,
                           !.orders[i].heldQty = IF @ > 0 THEN qty - b.orders[i].filled ELSE 0]
            stock == IF b.orders[i].heldQty > 0 THEN qty - b.orders[i].filled ELSE 0
            o == [b.orders[i] EXCEPT !.qty = qty]
            u == [b.orders[i] EXCEPT !.qty = qty, !.price = price, !.heldQty = stock]
<1>1. /\ DOMAIN b = {"cash", "reserved", "positions", "orders"}
      /\ DOMAIN b.orders = 1..Len(b.orders) /\ b.orders = [j \in DOMAIN b.orders |-> b.orders[j]]
      /\ OrderOK(b.orders[i]) /\ b.orders[i] \in OrderFields
  BY BookParts
<1>2. b.orders[i].filled \in Nat /\ b.reserved \in Int
  BY <1>1, OrderTyped, BookTyped DEF BookOK, OrderOK
<1>3. stock \in Nat
  BY <1>2
<1>4. /\ c.cash = b.cash /\ c.positions = b.positions /\ c.reserved = b.reserved
      /\ r.cash = b.cash /\ r.positions = b.positions /\ r.reserved = b.reserved
  BY <1>1
<1>5. c.orders = [b.orders EXCEPT ![i] = o]
  BY <1>1 DEF OrderFields
<1>6. r.orders = [b.orders EXCEPT ![i] = u]
  BY <1>1 DEF OrderFields
<1>7. Shaped(c) /\ Shaped(r)
  BY <1>1 DEF Shaped
<1>. HIDE DEF stock
<1>8. OrderOK(o) /\ OrderOK(u)
  <2>1. o \in OrderFields /\ u \in OrderFields
    BY <1>1, <1>3 DEF OrderFields
  <2>2. /\ o.filled = b.orders[i].filled /\ o.qty = qty /\ o.status = "OPEN"
        /\ o.tag = b.orders[i].tag /\ o.reason = b.orders[i].reason
        /\ u.filled = b.orders[i].filled /\ u.qty = qty /\ u.status = "OPEN"
        /\ u.tag = b.orders[i].tag /\ u.reason = b.orders[i].reason
    BY <1>1 DEF OrderFields
  <2>. HIDE DEF o, u
  <2>. QED
    BY <1>1, <1>2, <2>1, <2>2 DEF OrderOK, Orders
<1>9. /\ o.key = b.orders[i].key /\ o.side = b.orders[i].side /\ o.filled = b.orders[i].filled
      /\ o.heldCash = b.orders[i].heldCash
      /\ u.key = b.orders[i].key /\ u.side = b.orders[i].side /\ u.filled = b.orders[i].filled
      /\ u.heldCash = b.orders[i].heldCash
  BY <1>1 DEF OrderFields
<1>. HIDE DEF o, u, c, r
<1>10. c.reserved = IF o.heldCash = 0 THEN b.reserved - b.orders[i].heldCash ELSE b.reserved
  BY <1>2, <1>4, <1>9
<1>11. r.reserved = IF u.heldCash = 0 THEN b.reserved - b.orders[i].heldCash ELSE b.reserved
  BY <1>2, <1>4, <1>9
<1>12. BookOK(c) /\ Len(c.orders) = Len(b.orders)
  BY <1>4, <1>5, <1>7, <1>8, <1>9, <1>10, BookSettles
<1>13. BookOK(r) /\ Len(r.orders) = Len(b.orders)
  BY <1>4, <1>6, <1>7, <1>8, <1>9, <1>11, BookSettles
<1>. QED
  BY <1>12, <1>13 DEF c, r

-----------------------------------------------------------------------------
(* Fills                                                                    *)

LEMMA LeastOfTwo ==
  ASSUME NEW m \in Int, NEW n \in Int
  PROVE  Min({m, n}) \in {m, n} /\ Min({m, n}) <= m /\ Min({m, n}) <= n
<1>1. \E x \in {m, n} : \A y \in {m, n} : x <= y
  <2>1. CASE m <= n
    BY <2>1
  <2>2. CASE ~(m <= n)
    BY <2>2
  <2>. QED
    BY <2>1, <2>2
<1>2. Min({m, n}) \in {m, n} /\ \A y \in {m, n} : Min({m, n}) <= y
  BY <1>1 DEF Min
<1>. QED
  BY <1>2

LEMMA LargestUpTo ==
  ASSUME NEW n \in Nat, NEW S, S \subseteq 1..n, S # {}
  PROVE  Max(S) \in S
<1>. DEFINE T == {k \in Nat : n - k \in S}
<1>1. PICK x : x \in S
  OBVIOUS
<1>2. n - x \in T
  BY <1>1
<1>3. PICK k \in T : \A l \in T : k <= l
  BY <1>2, LeastNatural
<1>4. \A y \in S : n - y \in T
  OBVIOUS
<1>5. k \in Nat /\ n - k \in S /\ \A y \in S : k <= n - y
  BY <1>3, <1>4
<1>. HIDE DEF T
<1>6. \A y \in S : y \in Int
  OBVIOUS
<1>7. \A y \in S : n - k >= y
  BY <1>5, <1>6
<1>8. \E z \in S : \A y \in S : z >= y
  BY <1>5, <1>7
<1>. QED
  BY <1>8 DEF Max

(* What a buy may fill can be paid from free cash and its own earmark.       *)
LEMMA Affordable ==
  ASSUME NEW b, BookOK(b), NEW o \in Orders, NEW n \in Nat, NEW p \in Nat
  PROVE  LET m == AffordableQty(b, o, n, p)
         IN  m \in 0..n /\ (m > 0 => m * p + BuyCost <= Available(b) + o.heldCash)
<1>. DEFINE fits == {m \in 1..n : m * p + BuyCost <= Available(b) + o.heldCash}
<1>1. CASE p <= 0 \/ fits = {}
  BY <1>1 DEF AffordableQty
<1>2. CASE ~(p <= 0 \/ fits = {})
  <2>1. Max(fits) \in fits
    BY <1>2, LargestUpTo
  <2>2. AffordableQty(b, o, n, p) = Max(fits)
    BY <1>2 DEF AffordableQty
  <2>. QED
    BY <2>1, <2>2
<1>. QED
  BY <1>1, <1>2

(* What a quote supports is within what the order still asks for.           *)
LEMMA Planned ==
  ASSUME NEW o \in Orders, NEW q \in Quotes
  PROVE  LET plan == PlanFill(o, q)
         IN  /\ plan.reason \in {"none", "NO_LIQUIDITY"} /\ plan.qty \in Nat /\ plan.price \in Nat
             /\ plan.qty > 0 => /\ plan.reason = "none"
                                /\ o.filled + plan.qty <= o.qty
                                /\ plan.price = FillPrice(o, q.price)
<1>. DEFINE rest == o.qty - o.filled
<1>1. /\ o.qty \in Nat /\ o.filled \in Nat /\ q.capacity \in Nat /\ q.price \in Nat /\ Slip \in Nat
      /\ q.price > Slip
  BY OrderTyped, InputAssumption, MoneyAssumption
<1>2. FillPrice(o, q.price) \in Nat
  BY <1>1 DEF FillPrice
<1>3. CASE rest <= 0 \/ q.capacity < 1 \/ ~Marketable(o, q.price)
  <2>1. PlanFill(o, q) \in {[qty |-> 0, price |-> 0, reason |-> "none"],
                            [qty |-> 0, price |-> 0, reason |-> "NO_LIQUIDITY"]}
    BY <1>1, <1>3 DEF PlanFill
  <2>. QED
    BY <2>1
<1>4. CASE rest > 0 /\ q.capacity >= 1 /\ Marketable(o, q.price)
  <2>1. PlanFill(o, q) = [qty |-> Min({rest, q.capacity}), price |-> FillPrice(o, q.price), reason |-> "none"]
    BY <1>1, <1>4 DEF PlanFill
  <2>2. Min({rest, q.capacity}) \in Nat /\ Min({rest, q.capacity}) <= rest
    <3>1. rest \in Nat /\ rest \in Int /\ q.capacity \in Int
      BY <1>1, <1>4
    <3>. HIDE DEF rest
    <3>2. Min({rest, q.capacity}) \in {rest, q.capacity} /\ Min({rest, q.capacity}) <= rest
      BY <3>1, LeastOfTwo
    <3>. QED
      BY <1>1, <3>1, <3>2
  <2>. QED
    BY <1>1, <1>2, <2>1, <2>2
<1>. QED
  BY <1>1, <1>3, <1>4

(* A sale pays for its own charges.                                         *)
SalesPay == \A q \in Quotes : q.price - Slip >= SellCost

LEMMA BuyOK ==
  ASSUME NEW b, BookOK(b), NEW i \in DOMAIN b.orders, b.orders[i].side = "BUY",
         NEW qty \in Nat, NEW price \in Nat, b.orders[i].filled + qty <= b.orders[i].qty,
         qty * price + BuyCost <= Available(b) + b.orders[i].heldCash
  PROVE  BookOK(ApplyFill(b, i, qty, price)) /\ Len(ApplyFill(b, i, qty, price).orders) = Len(b.orders)
<1>. DEFINE outflow == qty * price + BuyCost
            old == b.orders[i]
            taken == Min({old.heldCash, outflow})
            keptBack == old.heldCash - taken
            total == old.filled + qty
            o == [old EXCEPT !.heldCash = keptBack, !.heldQty = old.heldQty, !.filled = total]
            x == b.cash - outflow
            y == b.reserved - taken
            n == b.positions[old.key] + qty
            r == ApplyFill(b, i, qty, price)
<1>1. /\ DOMAIN b = {"cash", "reserved", "positions", "orders"}
      /\ DOMAIN b.orders = 1..Len(b.orders) /\ b.orders = [j \in DOMAIN b.orders |-> b.orders[j]]
      /\ OrderOK(old) /\ old \in OrderFields
  BY BookParts
<1>2. /\ b.cash \in Int /\ b.reserved \in Int /\ b.positions \in [Keys -> Int] /\ b.reserved <= b.cash
      /\ b.orders \in Seq(Orders) /\ \A k \in Keys : b.positions[k] >= 0
  BY BookTyped DEF BookOK
<1>3. /\ old.heldCash \in Nat /\ old.heldQty \in Nat /\ old.filled \in Nat /\ old.qty \in Nat /\ old.key \in Keys
      /\ old.status # "OPEN" => old.heldCash = 0 /\ old.heldQty = 0
  BY <1>1, OrderTyped DEF OrderOK
<1>4. outflow \in Nat
  <2>1. qty * price \in Nat /\ BuyCost \in Nat
    BY MoneyAssumption
  <2>. HIDE DEF outflow
  <2>. QED
    BY <2>1 DEF outflow
<1>5. outflow <= b.cash - b.reserved + old.heldCash
  BY DEF Available
<1>6. r.cash = x /\ r.reserved = y
  BY <1>1 DEF ApplyFill
<1>7. r.positions = [b.positions EXCEPT ![old.key] = n]
  BY <1>1 DEF ApplyFill
<1>8. r.orders = [b.orders EXCEPT ![i] = o]
  BY <1>1, ZenonT(60) DEF ApplyFill, OrderFields
<1>9. Shaped(r)
  BY <1>1, ZenonT(60) DEF ApplyFill, Shaped
<1>. HIDE DEF outflow
<1>10. taken \in Nat /\ taken <= old.heldCash /\ taken <= outflow /\ taken \in {old.heldCash, outflow}
  <2>1. old.heldCash \in Int /\ outflow \in Int
    BY <1>3, <1>4
  <2>2. taken \in {old.heldCash, outflow} /\ taken <= old.heldCash /\ taken <= outflow
    BY <2>1, LeastOfTwo
  <2>. HIDE DEF taken
  <2>. QED
    BY <1>3, <1>4, <2>2
<1>. HIDE DEF taken
<1>11. /\ keptBack \in Nat /\ total \in Nat /\ total <= old.qty /\ x \in Int /\ y \in Int
       /\ old.status # "OPEN" => keptBack = 0
  <2>1. keptBack \in Nat /\ total \in Nat /\ total <= old.qty
    BY <1>3, <1>10
  <2>2. x \in Int /\ y \in Int
    BY <1>2, <1>4, <1>10
  <2>3. ASSUME old.status # "OPEN" PROVE keptBack = 0
    BY <1>3, <1>10, <2>3
  <2>. QED
    BY <2>1, <2>2, <2>3
<1>12. y <= x
  BY <1>2, <1>3, <1>4, <1>5, <1>10
<1>13. b.positions[old.key] \in Int /\ b.positions[old.key] >= 0 /\ n \in Int /\ n >= 0
  BY <1>2, <1>3
<1>14. OrderOK(o)
  <2>. HIDE DEF keptBack, total
  <2>. QED
    BY <1>1, <1>3, <1>11, OrderTakes
<1>15. o.key = old.key /\ o.side = old.side /\ o.heldCash = keptBack /\ o.filled = total
  <2>. HIDE DEF keptBack, total
  <2>. QED
    BY <1>1 DEF OrderFields
<1>. HIDE DEF o, r, x, n
<1>16. y = b.reserved + (o.heldCash - old.heldCash)
  BY <1>2, <1>3, <1>10, <1>15
<1>17. n = b.positions[o.key] + (Moved(o, o.key) - Moved(old, o.key))
  <2>1. Moved(o, o.key) = total /\ Moved(old, o.key) = old.filled
    BY <1>15 DEF Moved
  <2>. QED
    BY <1>3, <1>13, <1>15, <2>1 DEF n
<1>. HIDE DEF y
<1>18. BookOK(Account(x, y, [b.positions EXCEPT ![o.key] = n], [b.orders EXCEPT ![i] = o]))
  BY <1>11, <1>12, <1>13, <1>14, <1>15, <1>16, <1>17, OrderMoves
<1>19. r = Account(x, y, [b.positions EXCEPT ![o.key] = n], [b.orders EXCEPT ![i] = o])
  BY <1>6, <1>7, <1>8, <1>9, <1>15, AccountOf DEF Shaped
<1>20. Len(r.orders) = Len(b.orders)
  BY <1>1, <1>2, <1>8, <1>14, ExceptSeq DEF OrderOK
<1>. QED
  BY <1>18, <1>19, <1>20 DEF r

LEMMA SellOK ==
  ASSUME NEW b, BookOK(b), NEW i \in DOMAIN b.orders, b.orders[i].side = "SELL",
         NEW qty \in Nat, NEW price \in Nat, b.orders[i].filled + qty <= b.orders[i].qty,
         qty >= 1, price >= SellCost, qty <= b.positions[b.orders[i].key]
  PROVE  BookOK(ApplyFill(b, i, qty, price)) /\ Len(ApplyFill(b, i, qty, price).orders) = Len(b.orders)
<1>. DEFINE old == b.orders[i]
            stock == IF old.heldQty > qty THEN old.heldQty - qty ELSE 0
            total == old.filled + qty
            o == [old EXCEPT !.heldCash = old.heldCash, !.heldQty = stock, !.filled = total]
            inflow == qty * price
            x == b.cash + inflow - SellCost
            n == b.positions[old.key] - qty
            r == ApplyFill(b, i, qty, price)
<1>1. /\ DOMAIN b = {"cash", "reserved", "positions", "orders"}
      /\ DOMAIN b.orders = 1..Len(b.orders) /\ b.orders = [j \in DOMAIN b.orders |-> b.orders[j]]
      /\ OrderOK(old) /\ old \in OrderFields
  BY BookParts
<1>2. /\ b.cash \in Int /\ b.reserved \in Int /\ b.positions \in [Keys -> Int] /\ b.reserved <= b.cash
      /\ b.orders \in Seq(Orders) /\ \A k \in Keys : b.positions[k] >= 0
  BY BookTyped DEF BookOK
<1>3. /\ old.heldCash \in Nat /\ old.heldQty \in Nat /\ old.filled \in Nat /\ old.qty \in Nat /\ old.key \in Keys
      /\ old.status # "OPEN" => old.heldCash = 0 /\ old.heldQty = 0
  BY <1>1, OrderTyped DEF OrderOK
<1>4. inflow \in Nat /\ SellCost \in Nat /\ inflow >= SellCost
  <2>1. inflow \in Nat /\ SellCost \in Nat
    BY MoneyAssumption
  <2>2. \A l, m \in Nat : l >= 1 => l * m >= m
    OBVIOUS
  <2>3. inflow >= price
    BY <2>2
  <2>. HIDE DEF inflow
  <2>. QED
    BY <2>1, <2>3
<1>5. r.cash = x /\ r.reserved = b.reserved
  BY <1>1 DEF ApplyFill
<1>6. r.positions = [b.positions EXCEPT ![old.key] = n]
  BY <1>1 DEF ApplyFill
<1>7. r.orders = [b.orders EXCEPT ![i] = o]
  BY <1>1, ZenonT(60) DEF ApplyFill, OrderFields
<1>8. Shaped(r)
  BY <1>1, ZenonT(60) DEF ApplyFill, Shaped
<1>. HIDE DEF inflow
<1>9. x \in Int /\ b.reserved <= x
  BY <1>2, <1>4
<1>10. stock \in Nat /\ total \in Nat /\ total <= old.qty
  BY <1>3
<1>11. old.status # "OPEN" => stock = 0
  BY <1>3
<1>12. b.positions[old.key] \in Int /\ n \in Int /\ n >= 0
  BY <1>2, <1>3
<1>13. OrderOK(o)
  <2>. HIDE DEF stock, total
  <2>. QED
    BY <1>1, <1>3, <1>10, <1>11, OrderTakes
<1>14. o.key = old.key /\ o.side = old.side /\ o.heldCash = old.heldCash /\ o.filled = total
  <2>. HIDE DEF stock, total
  <2>. QED
    BY <1>1 DEF OrderFields
<1>. HIDE DEF o, r, x, n, stock
<1>15. b.reserved = b.reserved + (o.heldCash - old.heldCash)
  BY <1>2, <1>3, <1>14
<1>16. n = b.positions[o.key] + (Moved(o, o.key) - Moved(old, o.key))
  <2>1. Moved(o, o.key) = -total /\ Moved(old, o.key) = -old.filled
    BY <1>14 DEF Moved
  <2>. QED
    BY <1>3, <1>12, <1>14, <2>1 DEF n
<1>17. BookOK(Account(x, b.reserved, [b.positions EXCEPT ![o.key] = n], [b.orders EXCEPT ![i] = o]))
  BY <1>2, <1>9, <1>12, <1>13, <1>14, <1>15, <1>16, OrderMoves
<1>18. r = Account(x, b.reserved, [b.positions EXCEPT ![o.key] = n], [b.orders EXCEPT ![i] = o])
  BY <1>5, <1>6, <1>7, <1>8, <1>14, AccountOf DEF Shaped
<1>19. Len(r.orders) = Len(b.orders)
  BY <1>1, <1>2, <1>7, <1>13, ExceptSeq DEF OrderOK
<1>. QED
  BY <1>17, <1>18, <1>19 DEF r

(* An order meets a quote: the book still adds up, and an order that is      *)
(* refused has not touched it.                                              *)
LEMMA ExecutedOK ==
  ASSUME SalesPay, NEW b, BookOK(b), NEW i \in DOMAIN b.orders, NEW q \in Quotes
  PROVE  LET t == ExecuteAgainst(b, i, q)
         IN  /\ BookOK(t.book) /\ Len(t.book.orders) = Len(b.orders)
             /\ t.reason \in {"none", "NO_LIQUIDITY", "INSUFFICIENT_CASH", "INSUFFICIENT_HOLDINGS"}
             /\ t.reason # "none" => t.book = b
<1>. DEFINE o == b.orders[i]
            plan == PlanFill(o, q)
            qty == IF o.side = "BUY" THEN AffordableQty(b, o, plan.qty, plan.price)
                   ELSE Min({plan.qty, b.positions[o.key]})
<1>1. o \in Orders /\ b \in Books
  BY BookTyped DEF BookOK
<1>2. /\ plan.reason \in {"none", "NO_LIQUIDITY"} /\ plan.qty \in Nat /\ plan.price \in Nat
      /\ plan.qty > 0 => /\ plan.reason = "none"
                         /\ o.filled + plan.qty <= o.qty
                         /\ plan.price = FillPrice(o, q.price)
  BY <1>1, Planned
<1>3. o.side \in {"BUY", "SELL"} /\ o.filled \in Nat /\ o.qty \in Nat /\ o.key \in Keys
  BY <1>1, OrderTyped
<1>4. ExecuteAgainst(b, i, q) =
        CASE plan.reason # "none" \/ plan.qty <= 0 -> [book |-> b, reason |-> plan.reason]
          [] plan.reason = "none" /\ plan.qty > 0 /\ qty <= 0 ->
               [book |-> b, reason |-> IF o.side = "BUY" THEN "INSUFFICIENT_CASH"
                                       ELSE "INSUFFICIENT_HOLDINGS"]
          [] OTHER -> [book |-> ApplyFill(b, i, qty, plan.price), reason |-> "none"]
  BY DEF ExecuteAgainst
<1>. HIDE DEF plan
<1>5. b.positions[o.key] \in Int /\ b.positions[o.key] >= 0
  BY <1>1, <1>3, BookTyped DEF BookOK
<1>6. CASE plan.reason # "none" \/ plan.qty <= 0
  <2>1. ExecuteAgainst(b, i, q) = [book |-> b, reason |-> plan.reason]
    BY <1>2, <1>4, <1>6
  <2>. QED
    BY <1>2, <2>1
<1>7. CASE plan.reason = "none" /\ plan.qty > 0 /\ qty <= 0
  <2>1. ExecuteAgainst(b, i, q) = [book |-> b, reason |-> IF o.side = "BUY" THEN "INSUFFICIENT_CASH"
                                       ELSE "INSUFFICIENT_HOLDINGS"]
    BY <1>2, <1>4, <1>7
  <2>. QED
    BY <2>1
<1>8. CASE plan.reason = "none" /\ plan.qty > 0 /\ ~(qty <= 0)
  <2>1. ExecuteAgainst(b, i, q) = [book |-> ApplyFill(b, i, qty, plan.price), reason |-> "none"]
    BY <1>2, <1>4, <1>8
  <2>2. CASE o.side = "BUY"
    <3>1. /\ qty \in 0..plan.qty
          /\ qty > 0 => qty * plan.price + BuyCost <= Available(b) + o.heldCash
      BY <1>1, <1>2, <2>2, Affordable
    <3>. HIDE DEF qty
    <3>2. qty \in Nat /\ o.filled + qty <= o.qty /\ qty > 0
      BY <1>2, <1>3, <1>8, <3>1
    <3>3. BookOK(ApplyFill(b, i, qty, plan.price)) /\ Len(ApplyFill(b, i, qty, plan.price).orders) = Len(b.orders)
      BY <1>2, <2>2, <3>1, <3>2, BuyOK
    <3>. QED
      BY <2>1, <3>3
  <2>3. CASE o.side = "SELL"
    <3>1. qty \in {plan.qty, b.positions[o.key]} /\ qty <= plan.qty /\ qty <= b.positions[o.key]
      <4>1. qty = Min({plan.qty, b.positions[o.key]}) /\ plan.qty \in Int
        BY <1>2, <2>3
      <4>. HIDE DEF qty
      <4>. QED
        BY <1>5, <4>1, LeastOfTwo
    <3>. HIDE DEF qty
    <3>2. qty \in Nat /\ o.filled + qty <= o.qty /\ qty >= 1
      BY <1>2, <1>3, <1>5, <1>8, <3>1
    <3>3. plan.price >= SellCost
      BY <1>2, <1>8, <2>3 DEF FillPrice, SalesPay
    <3>4. BookOK(ApplyFill(b, i, qty, plan.price)) /\ Len(ApplyFill(b, i, qty, plan.price).orders) = Len(b.orders)
      BY <1>2, <2>3, <3>1, <3>2, <3>3, SellOK
    <3>. QED
      BY <2>1, <3>4
  <2>. QED
    BY <1>3, <2>2, <2>3
<1>. QED
  BY <1>2, <1>6, <1>7, <1>8

-----------------------------------------------------------------------------
(* Orders that enter, and a symbol that is cleared                          *)

(* An order on its way into the book.                                       *)
Unfilled(o) ==
    /\ OrderOK(o) /\ o.status = "OPEN" /\ o.filled = 0
    /\ o.heldCash = 0 /\ o.heldQty = 0 /\ o.reason = "none"

LEMMA AddedOK ==
  ASSUME NEW b, BookOK(b), NEW o, OrderOK(o), o.filled = 0, o.heldCash = 0
  PROVE  /\ BookOK(Added(b, o)) /\ Len(Added(b, o).orders) = Len(b.orders) + 1
<1>1. b \in Books /\ b.reserved <= b.cash
  BY DEF BookOK
<1>2. /\ b.cash \in Int /\ b.reserved \in Int /\ b.orders \in Seq(Orders)
      /\ DOMAIN b = {"cash", "reserved", "positions", "orders"}
  BY <1>1, BookTyped
<1>3. BookOK(Account(b.cash, b.reserved, b.positions, Append(b.orders, o)))
  BY <1>1, <1>2, OrderEnters
<1>. DEFINE r == Added(b, o)
<1>4. r.cash = b.cash /\ r.reserved = b.reserved /\ r.positions = b.positions
      /\ r.orders = Append(b.orders, o) /\ Shaped(r)
  BY <1>2 DEF Added, Shaped
<1>5. Len(r.orders) = Len(b.orders) + 1
  BY <1>2, <1>4
<1>. HIDE DEF r
<1>6. r = Account(b.cash, b.reserved, b.positions, Append(b.orders, o))
  BY <1>4, AccountOf DEF Shaped
<1>. QED
  BY <1>3, <1>5, <1>6 DEF r

(* An order has entered a book and holds what it needs.                     *)
Entered(r, b, u) ==
    /\ BookOK(r) /\ OrderOK(u) /\ Len(r.orders) = Len(b.orders) + 1
    /\ r.cash = b.cash /\ r.positions = b.positions /\ r.reserved = b.reserved + u.heldCash
    /\ r.orders = Append(b.orders, u)

LEMMA EarmarkedOK ==
  ASSUME NEW b, BookOK(b), NEW o, Unfilled(o)
  PROVE  /\ \A need \in Nat : need <= Available(b) =>
              LET u == [o EXCEPT !.heldCash = need]
              IN  u.heldCash = need /\ Entered([Added(b, u) EXCEPT !.reserved = @ + need], b, u)
         /\ LET u == [o EXCEPT !.heldQty = o.qty]
            IN  u.heldCash = 0 /\ Entered(Added(b, u), b, u)
<1>1. o \in OrderFields /\ o.filled <= o.qty /\ o.qty \in Nat /\ OrderOK(o)
  BY OrderTyped DEF Unfilled, OrderOK, Orders
<1>2. /\ b.cash \in Int /\ b.reserved \in Int /\ b.orders \in Seq(Orders)
      /\ DOMAIN b = {"cash", "reserved", "positions", "orders"}
  BY BookTyped DEF BookOK
<1>3. ASSUME NEW need \in Nat, need <= Available(b)
      PROVE  LET u == [o EXCEPT !.heldCash = need]
             IN  u.heldCash = need /\ Entered([Added(b, u) EXCEPT !.reserved = @ + need], b, u)
  <2>. DEFINE u == [o EXCEPT !.heldCash = need]
              y == b.reserved + need
              r == [Added(b, u) EXCEPT !.reserved = @ + need]
  <2>1. u \in OrderFields /\ u.filled = 0 /\ u.qty = o.qty /\ u.heldCash = need /\ u.status = "OPEN"
        /\ u.tag = o.tag /\ u.reason = "none"
    BY <1>1 DEF OrderFields, Unfilled
  <2>. HIDE DEF u
  <2>2. OrderOK(u)
    BY <1>1, <2>1 DEF OrderOK, Orders
  <2>3. y \in Int /\ y <= b.cash /\ y = b.reserved + u.heldCash
    BY <1>2, <1>3, <2>1 DEF Available
  <2>4. r.cash = b.cash /\ r.reserved = y /\ r.positions = b.positions
        /\ r.orders = Append(b.orders, u) /\ Shaped(r)
    BY <1>2 DEF Added, Shaped
  <2>5. Len(r.orders) = Len(b.orders) + 1
    BY <1>2, <2>4
  <2>. HIDE DEF y, r
  <2>6. BookOK(Account(b.cash, y, b.positions, Append(b.orders, u)))
    BY <2>1, <2>2, <2>3, OrderEnters
  <2>7. r = Account(b.cash, y, b.positions, Append(b.orders, u))
    BY <2>4, AccountOf DEF Shaped
  <2>8. u.heldCash = need /\ Entered(r, b, u)
    BY <2>1, <2>2, <2>3, <2>4, <2>5, <2>6, <2>7 DEF Entered
  <2>. QED
    BY <2>8 DEF r, u
<1>4. LET u == [o EXCEPT !.heldQty = o.qty]
      IN  u.heldCash = 0 /\ Entered(Added(b, u), b, u)
  <2>. DEFINE u == [o EXCEPT !.heldQty = o.qty]
              r == Added(b, u)
  <2>1. u \in OrderFields /\ u.filled = 0 /\ u.qty = o.qty /\ u.heldCash = 0 /\ u.status = "OPEN"
        /\ u.tag = o.tag /\ u.reason = "none"
    BY <1>1 DEF OrderFields, Unfilled
  <2>. HIDE DEF u
  <2>2. OrderOK(u)
    BY <1>1, <2>1 DEF OrderOK, Orders
  <2>3. BookOK(r) /\ Len(r.orders) = Len(b.orders) + 1
    BY <2>1, <2>2, AddedOK
  <2>4. r.cash = b.cash /\ r.reserved = b.reserved /\ r.positions = b.positions
        /\ r.orders = Append(b.orders, u)
    BY <1>2 DEF Added
  <2>. HIDE DEF r
  <2>5. r.reserved = b.reserved + u.heldCash
    BY <1>2, <2>1, <2>4
  <2>6. u.heldCash = 0 /\ Entered(r, b, u)
    BY <2>1, <2>2, <2>3, <2>4, <2>5 DEF Entered
  <2>. QED
    BY <2>6 DEF r, u
<1>. QED
  BY <1>3, <1>4

(* The resting orders of a symbol are cancelled at once.                    *)
AtRest(b, k, i) == b.orders[i].status = "OPEN" /\ b.orders[i].key.symbol = k.symbol

Freed(b, k) == [i \in DOMAIN b.orders |-> IF AtRest(b, k, i) THEN b.orders[i].heldCash ELSE 0]

LEMMA ClearedOK ==
  ASSUME NEW b, BookOK(b), NEW k
  PROVE  /\ BookOK(ClearSymbol(b, k)) /\ Len(ClearSymbol(b, k).orders) = Len(b.orders)
         /\ ClearSymbol(b, k) = b => \A i \in DOMAIN b.orders : ~AtRest(b, k, i)
<1>. DEFINE gone(i) == [b.orders[i] EXCEPT !.status = "CANCELLED", !.heldCash = 0, !.heldQty = 0]
            s == [i \in DOMAIN b.orders |-> IF AtRest(b, k, i) THEN gone(i) ELSE b.orders[i]]
            r == ClearSymbol(b, k)
<1>1. /\ b \in Books /\ \A i \in DOMAIN b.orders : OrderOK(b.orders[i])
      /\ b.reserved = SumFunction(Held(b)) /\ b.reserved <= b.cash
      /\ \A j \in Keys : b.positions[j] = SumFunction(MovedBy(b, j)) /\ b.positions[j] >= 0
  BY DEF BookOK
<1>2. /\ b.cash \in Int /\ b.reserved \in Int /\ b.positions \in [Keys -> Int] /\ b.orders \in Seq(Orders)
      /\ DOMAIN b = {"cash", "reserved", "positions", "orders"} /\ IsFiniteSet(DOMAIN b.orders)
      /\ DOMAIN b.orders = 1..Len(b.orders) /\ Len(b.orders) \in Nat
  BY <1>1, BookTyped
<1>3. r = [b EXCEPT !.reserved = @ - SumFunction(Freed(b, k)), !.orders = s]
  BY DEF ClearSymbol, AtRest, Freed
<1>4. r.cash = b.cash /\ r.reserved = b.reserved - SumFunction(Freed(b, k)) /\ r.positions = b.positions
      /\ r.orders = s
  BY <1>2, <1>3
<1>5. ASSUME NEW i \in DOMAIN b.orders
      PROVE  /\ OrderOK(gone(i)) /\ gone(i).key = b.orders[i].key /\ gone(i).side = b.orders[i].side
             /\ gone(i).filled = b.orders[i].filled /\ gone(i).heldCash = 0 /\ gone(i).status = "CANCELLED"
  <2>1. OrderOK(b.orders[i]) /\ b.orders[i] \in OrderFields
    BY BookParts
  <2>2. OrderOK(gone(i))
    BY <2>1, OrderBecomes DEF Terminal
  <2>3. /\ gone(i).key = b.orders[i].key /\ gone(i).side = b.orders[i].side
        /\ gone(i).filled = b.orders[i].filled /\ gone(i).heldCash = 0 /\ gone(i).status = "CANCELLED"
    BY <2>1 DEF OrderFields
  <2>. QED
    BY <2>2, <2>3
<1>. HIDE DEF gone
<1>6. DOMAIN s = DOMAIN b.orders /\ \A i \in DOMAIN s : OrderOK(s[i])
  BY <1>1, <1>5
<1>7. s \in Seq(Orders) /\ Len(s) = Len(b.orders)
  <2>1. \A i \in 1..Len(b.orders) : s[i] \in Orders
    BY <1>2, <1>6 DEF OrderOK
  <2>2. s \in [1..Len(b.orders) -> Orders]
    BY <1>2, <2>1
  <2>. HIDE DEF s
  <2>. QED
    BY <1>2, <2>2, SeqDef
<1>8. /\ DOMAIN Held(b) = DOMAIN b.orders /\ DOMAIN Freed(b, k) = DOMAIN b.orders
      /\ DOMAIN Held(r) = DOMAIN b.orders
  BY <1>4, <1>6 DEF Held, Freed
<1>9. ASSUME NEW i \in DOMAIN b.orders
      PROVE  /\ Held(b)[i] \in Nat /\ Held(r)[i] \in Nat /\ Freed(b, k)[i] \in Nat
             /\ Held(b)[i] = Held(r)[i] + Freed(b, k)[i]
  <2>1. b.orders[i].heldCash \in Nat /\ Held(b)[i] = b.orders[i].heldCash
    BY <1>1, OrderTyped DEF OrderOK, Held
  <2>2. Held(r)[i] = s[i].heldCash
    BY <1>4, <1>6 DEF Held
  <2>3. Freed(b, k)[i] = IF AtRest(b, k, i) THEN b.orders[i].heldCash ELSE 0
    BY DEF Freed
  <2>4. s[i].heldCash = IF AtRest(b, k, i) THEN 0 ELSE b.orders[i].heldCash
    BY <1>5
  <2>. QED
    BY <2>1, <2>2, <2>3, <2>4
<1>10. SumFunction(Held(b)) = SumFunction(Held(r)) + SumFunction(Freed(b, k))
  <2>1. Whole(Held(r), DOMAIN b.orders) /\ Whole(Freed(b, k), DOMAIN b.orders)
    BY <1>9 DEF Whole
  <2>. DEFINE f == Held(b)
              d == Held(r)
              e == Freed(b, k)
  <2>2. /\ DOMAIN d = DOMAIN f /\ DOMAIN e = DOMAIN f /\ IsFiniteSet(DOMAIN f)
        /\ Whole(d, DOMAIN f) /\ Whole(e, DOMAIN f) /\ \A x \in DOMAIN f : f[x] = d[x] + e[x]
    BY <1>2, <1>8, <1>9, <2>1
  <2>. HIDE DEF f, d, e
  <2>3. SumFunction(f) = SumFunction(d) + SumFunction(e)
    BY <2>2, SumParts
  <2>. QED
    BY <2>3 DEF f, d, e
<1>11. SumFunction(Held(r)) \in Nat /\ SumFunction(Freed(b, k)) \in Nat
  <2>1. /\ \A x \in DOMAIN Held(r) : Held(r)[x] \in Nat
        /\ \A x \in DOMAIN Freed(b, k) : Freed(b, k)[x] \in Nat
    BY <1>8, <1>9
  <2>. QED
    BY <1>2, <1>8, <2>1, SumNat
<1>12. r.reserved = SumFunction(Held(r)) /\ r.reserved <= r.cash /\ r.reserved \in Int
  BY <1>1, <1>2, <1>4, <1>10, <1>11
<1>13. r \in Books
  BY <1>2, <1>3, <1>4, <1>7, <1>12 DEF Books
<1>14. ASSUME NEW j \in Keys
       PROVE  r.positions[j] = SumFunction(MovedBy(r, j)) /\ r.positions[j] >= 0
  <2>1. ASSUME NEW i \in DOMAIN b.orders PROVE Moved(s[i], j) = Moved(b.orders[i], j)
    BY <1>5, <2>1 DEF Moved
  <2>2. MovedBy(r, j) = MovedBy(b, j)
    BY <1>4, <1>6, <2>1 DEF MovedBy
  <2>. QED
    BY <1>1, <1>4, <2>2
<1>15. ASSUME r = b, NEW i \in DOMAIN b.orders, AtRest(b, k, i) PROVE FALSE
  <2>1. b.orders[i] = gone(i)
    BY <1>4, <1>15
  <2>. QED
    BY <1>5, <1>15, <2>1 DEF AtRest
<1>16. BookOK(r)
  BY <1>4, <1>6, <1>12, <1>13, <1>14 DEF BookOK
<1>. QED
  BY <1>4, <1>7, <1>15, <1>16

(* With no order of the symbol resting all of a position is free.           *)
LEMMA AllFree ==
  ASSUME NEW b, BookOK(b), NEW k, \A i \in DOMAIN b.orders : ~AtRest(b, k, i), b.positions[k] \in Int
  PROVE  FreeQty(b, k) = b.positions[k]
<1>. DEFINE f == [i \in DOMAIN b.orders |->
                   IF b.orders[i].status = "OPEN" /\ b.orders[i].key = k
                   THEN b.orders[i].heldQty ELSE 0]
<1>1. IsFiniteSet(DOMAIN f) /\ \A i \in DOMAIN f : f[i] = 0
  BY BookTyped DEF BookOK, AtRest
<1>2. ReservedQty(b, k) = SumFunction(f)
  BY DEF ReservedQty
<1>. HIDE DEF f
<1>3. ReservedQty(b, k) = 0
  BY <1>1, <1>2, SumZero
<1>. QED
  BY <1>3 DEF FreeQty

-----------------------------------------------------------------------------
(* The account                                                              *)

(* A call that waits for a quote has a fresh order, or one of the book.      *)
FrameOK(f, n) ==
    /\ f \in Frames
    /\ f.op = "place" => Unfilled(f.order)
    /\ f.op = "poll" => f.at \in 1..n /\ f.upto <= n

AccountInv ==
    /\ BookOK(book) /\ BookOK(saved) /\ degraded \in BOOLEAN
    /\ calls \in [Callers -> Frames]
    /\ \A c \in Callers : FrameOK(calls[c], Len(book.orders))

LEMMA BookIsCoherent ==
  ASSUME NEW b, BookOK(b) PROVE Coherent(b)
<1>1. b.reserved \in Int /\ b.cash \in Int /\ b.reserved >= 0 /\ b.cash >= 0 /\ b.reserved <= b.cash
      /\ \A k \in Keys : b.positions[k] >= 0
  BY HeldCovers, BookTyped DEF BookOK
<1>. QED
  BY <1>1 DEF Coherent

LEMMA AccountCoherent == AccountInv => BookCoherent
<1>. SUFFICES ASSUME AccountInv PROVE BookCoherent
  OBVIOUS
<1>1. BookOK(book) /\ Coherent(book)
  BY BookIsCoherent DEF AccountInv
<1>2. TypeOK
  BY DEF AccountInv, TypeOK, BookOK
<1>3. book.reserved = SumFunction([i \in DOMAIN book.orders |-> book.orders[i].heldCash])
  BY <1>1 DEF BookOK, Held
<1>4. \A k \in Keys : book.positions[k] =
         SumFunction([i \in DOMAIN book.orders |-> Moved(book.orders[i], k)])
  BY <1>1 DEF BookOK, MovedBy
<1>5. \A i \in DOMAIN book.orders : OrderOK(book.orders[i])
  BY <1>1 DEF BookOK
<1>. QED
  BY <1>1, <1>2, <1>3, <1>4, <1>5 DEF BookCoherent, OrderOK

LEMMA FrameShapes ==
  ASSUME NEW f \in Frames
  PROVE  /\ f.op \in {"idle", "place", "square", "poll"}
         /\ f.op = "place" => f.order \in Orders /\ f.left \in SUBSET IntradayKeys
         /\ f.op = "square" => f.left \in SUBSET IntradayKeys
         /\ f.op = "poll" => f.at \in Nat /\ f.upto \in Nat /\ f.filled \in BOOLEAN
BY DEF Frames, Idle

LEMMA FramesTyped ==
  /\ \A n : FrameOK(Idle, n) /\ Idle.op = "idle"
  /\ \A n, left : left \in SUBSET IntradayKeys => FrameOK([op |-> "square", left |-> left], n)
  /\ \A n, o, left : left \in SUBSET IntradayKeys /\ Unfilled(o) =>
        FrameOK([op |-> "place", order |-> o, left |-> left], n)
  /\ \A n, i, m : \A x \in BOOLEAN : n \in Nat /\ m \in Nat /\ i \in 1..m /\ m <= n =>
        FrameOK([op |-> "poll", at |-> i, upto |-> m, filled |-> x], n)
<1>1. \A n : FrameOK(Idle, n) /\ Idle.op = "idle"
  BY DEF FrameOK, Idle, Frames
<1>2. ASSUME NEW n, NEW left \in SUBSET IntradayKeys PROVE FrameOK([op |-> "square", left |-> left], n)
  BY DEF FrameOK, Frames
<1>3. ASSUME NEW n, NEW o, NEW left \in SUBSET IntradayKeys, Unfilled(o)
      PROVE  FrameOK([op |-> "place", order |-> o, left |-> left], n)
  <2>1. o \in Orders
    BY <1>3 DEF Unfilled, OrderOK
  <2>. QED
    BY <1>3, <2>1 DEF FrameOK, Frames
<1>4. ASSUME NEW n \in Nat, NEW m \in Nat, NEW i \in 1..m, NEW x \in BOOLEAN, m <= n
      PROVE  FrameOK([op |-> "poll", at |-> i, upto |-> m, filled |-> x], n)
  BY <1>4 DEF FrameOK, Frames
<1>. QED
  BY <1>1, <1>2, <1>3, <1>4

(* A call moves on with a book that adds up and has no fewer orders.         *)
LEMMA CallMoves ==
  ASSUME AccountInv, BookOK(book'), BookOK(saved'), degraded' \in BOOLEAN,
         Len(book.orders) <= Len(book'.orders),
         NEW c \in Callers, NEW f, FrameOK(f, Len(book'.orders)),
         calls' = [calls EXCEPT ![c] = f]
  PROVE  AccountInv'
<1>1. f \in Frames /\ calls \in [Callers -> Frames]
  BY DEF FrameOK, AccountInv
<1>2. Len(book.orders) \in Nat /\ Len(book'.orders) \in Nat
  BY BookTyped DEF AccountInv, BookOK
<1>3. ASSUME NEW d \in Callers PROVE FrameOK(calls'[d], Len(book'.orders))
  <2>1. CASE d = c
    BY <1>1, <2>1
  <2>2. CASE d # c
    <3>1. calls'[d] = calls[d] /\ FrameOK(calls[d], Len(book.orders)) /\ calls[d] \in Frames
      BY <1>1, <2>2 DEF AccountInv
    <3>2. calls[d].op = "poll" => calls[d].at \in 1..Len(book'.orders) /\ calls[d].upto <= Len(book'.orders)
      BY <1>2, <3>1, FrameShapes DEF FrameOK
    <3>. QED
      BY <3>1, <3>2 DEF FrameOK
  <2>. QED
    BY <2>1, <2>2
<1>4. calls' \in [Callers -> Frames]
  BY <1>1
<1>. QED
  BY <1>3, <1>4 DEF AccountInv

LEMMA CallsStay ==
  ASSUME AccountInv, BookOK(book'), BookOK(saved'), degraded' \in BOOLEAN,
         Len(book.orders) = Len(book'.orders), UNCHANGED calls
  PROVE  AccountInv'
BY DEF AccountInv

LEMMA Committed ==
  ASSUME AccountInv, NEW b, BookOK(b), Commit(b)
  PROVE  /\ book' = b /\ BookOK(book') /\ BookOK(saved') /\ degraded' \in BOOLEAN
         /\ saved' = book' \/ degraded'
<1>1. Coherent(b)
  BY BookIsCoherent
<1>. QED
  BY <1>1 DEF Commit, AccountInv

-----------------------------------------------------------------------------
(* What a restart would lose                                                *)

LEMMA SameAccepted ==
  ASSUME NEW b, NEW r, r.cash = b.cash, r.reserved = b.reserved, r.positions = b.positions,
         \A i : i \in DOMAIN r.orders /\ r.orders[i].status # "REJECTED"
                  <=> i \in DOMAIN b.orders /\ b.orders[i].status # "REJECTED",
         \A i \in DOMAIN b.orders : b.orders[i].status # "REJECTED" =>
            /\ r.orders[i].status = b.orders[i].status /\ r.orders[i].filled = b.orders[i].filled
            /\ r.orders[i].heldCash = b.orders[i].heldCash
  PROVE  Accepted(r) = Accepted(b)
<1>. DEFINE over(x) == {i \in DOMAIN x.orders : x.orders[i].status # "REJECTED"}
            entry(x, i) == [id |-> i, status |-> x.orders[i].status, filled |-> x.orders[i].filled,
                            heldCash |-> x.orders[i].heldCash]
<1>1. over(r) = over(b)
  OBVIOUS
<1>2. \A i \in over(b) : entry(r, i) = entry(b, i)
  OBVIOUS
<1>3. \A x : Accepted(x) = [cash |-> x.cash, reserved |-> x.reserved, positions |-> x.positions,
                            orders |-> {entry(x, i) : i \in over(x)}]
  BY DEF Accepted
<1>. HIDE DEF over, entry
<1>4. {entry(r, i) : i \in over(r)} = {entry(b, i) : i \in over(b)}
  BY <1>1, <1>2
<1>. QED
  BY <1>3, <1>4

LEMMA RefusalLosesNothing ==
  ASSUME NEW b \in Books, NEW o, o.status = "REJECTED"
  PROVE  Accepted(Added(b, o)) = Accepted(b)
<1>. DEFINE r == Added(b, o)
<1>1. /\ r.cash = b.cash /\ r.reserved = b.reserved /\ r.positions = b.positions
      /\ r.orders = Append(b.orders, o)
  BY BookTyped DEF Added
<1>. HIDE DEF r
<1>2. /\ DOMAIN r.orders = DOMAIN b.orders \cup {Len(b.orders) + 1}
      /\ r.orders[Len(b.orders) + 1] = o /\ Len(b.orders) + 1 \notin DOMAIN b.orders
      /\ \A i \in DOMAIN b.orders : r.orders[i] = b.orders[i]
  BY <1>1, BookTyped
<1>3. Accepted(r) = Accepted(b)
  BY <1>1, <1>2, SameAccepted
<1>. QED
  BY <1>3 DEF r

(* The poll of one call stays unsaved, if it was.                           *)
LEMMA NothingLost ==
  ASSUME AccountInv, DurableWhenHealthy, UNCHANGED <<saved, degraded>>, Accepted(book') = Accepted(book),
         NEW c \in Callers, NEW f, calls' = [calls EXCEPT ![c] = f],
         calls[c].op = "poll" /\ calls[c].filled => f.op = "poll" /\ f.filled
  PROVE  DurableWhenHealthy'
<1>1. calls \in [Callers -> Frames]
  BY DEF AccountInv
<1>2. UnsavedPoll => UnsavedPoll'
  <2>. SUFFICES ASSUME NEW d \in Callers, calls[d].op = "poll" /\ calls[d].filled
                PROVE  \E e \in Callers : calls'[e].op = "poll" /\ calls'[e].filled
    BY DEF UnsavedPoll
  <2>1. calls'[d].op = "poll" /\ calls'[d].filled
    BY <1>1
  <2>. QED
    BY <2>1
<1>. QED
  BY <1>2 DEF DurableWhenHealthy

LEMMA SavedNow ==
  ASSUME saved' = book' \/ degraded' PROVE DurableWhenHealthy'
BY DEF DurableWhenHealthy

-----------------------------------------------------------------------------
(* The steps                                                                *)

PaperInv == AccountInv /\ DurableWhenHealthy

LEMMA PaperCommits ==
  ASSUME AccountInv, NEW b, BookOK(b), Commit(b), Len(book.orders) <= Len(b.orders),
         NEW c \in Callers, NEW f, FrameOK(f, Len(b.orders)), calls' = [calls EXCEPT ![c] = f]
  PROVE  PaperInv'
<1>1. /\ book' = b /\ BookOK(book') /\ BookOK(saved') /\ degraded' \in BOOLEAN
      /\ saved' = book' \/ degraded'
  BY Committed
<1>. QED
  BY <1>1, CallMoves, SavedNow DEF PaperInv

LEMMA PaperCommitsOnly ==
  ASSUME AccountInv, NEW b, BookOK(b), Commit(b), Len(book.orders) = Len(b.orders), UNCHANGED calls
  PROVE  PaperInv'
<1>1. /\ book' = b /\ BookOK(book') /\ BookOK(saved') /\ degraded' \in BOOLEAN
      /\ saved' = book' \/ degraded'
  BY Committed
<1>. QED
  BY <1>1, CallsStay, SavedNow DEF PaperInv

(* A refused order enters the book, unsaved, and its call goes on.          *)
LEMMA PaperRefuses ==
  ASSUME PaperInv, NEW o, NEW why, book' = Added(book, Rejected(o, why)),
         OrderOK(Rejected(o, why)), o \in Orders, o.filled = 0, UNCHANGED <<saved, degraded>>,
         NEW c \in Callers, NEW f, \A n : FrameOK(f, n), calls' = [calls EXCEPT ![c] = f],
         calls[c].op # "poll"
  PROVE  PaperInv'
<1>. DEFINE u == Rejected(o, why)
<1>1. u.status = "REJECTED" /\ u.filled = 0 /\ u.heldCash = 0
  BY DEF Rejected, Orders, OrderFields
<1>2. AccountInv /\ BookOK(book) /\ book \in Books
  BY DEF PaperInv, AccountInv, BookOK
<1>. HIDE DEF u
<1>3. BookOK(book') /\ Len(book'.orders) = Len(book.orders) + 1
  BY <1>1, <1>2, AddedOK DEF u
<1>4. Accepted(book') = Accepted(book)
  BY <1>1, <1>2, RefusalLosesNothing DEF u
<1>5. Len(book.orders) <= Len(book'.orders)
  BY <1>2, <1>3, BookTyped
<1>6. BookOK(saved') /\ degraded' \in BOOLEAN
  BY <1>2 DEF AccountInv
<1>7. AccountInv'
  BY <1>2, <1>3, <1>5, <1>6, CallMoves
<1>8. DurableWhenHealthy'
  BY <1>2, <1>4, NothingLost DEF PaperInv
<1>. QED
  BY <1>7, <1>8 DEF PaperInv

(* A call moves on and the account stays.                                   *)
LEMMA PaperWaits ==
  ASSUME PaperInv, UNCHANGED <<book, saved, degraded>>,
         NEW c \in Callers, NEW f, FrameOK(f, Len(book.orders)), calls' = [calls EXCEPT ![c] = f],
         calls[c].op = "poll" /\ calls[c].filled => f.op = "poll" /\ f.filled
  PROVE  PaperInv'
<1>1. AccountInv /\ DurableWhenHealthy /\ BookOK(book') /\ BookOK(saved') /\ degraded' \in BOOLEAN
      /\ Len(book.orders) \in Nat /\ book' = book
  BY BookTyped DEF PaperInv, AccountInv, BookOK
<1>2. Len(book.orders) <= Len(book'.orders) /\ FrameOK(f, Len(book'.orders)) /\ Accepted(book') = Accepted(book)
  BY <1>1
<1>. QED
  BY <1>1, <1>2, CallMoves, NothingLost DEF PaperInv

LEMMA Refusals ==
  ASSUME NEW o, NEW s, degraded \in BOOLEAN, o.side \in {"BUY", "SELL"}, Refusal(o, s) # "none"
  PROVE  \/ Refusal(o, s) \in {"PERSISTENCE_DEGRADED", "MARKET_CLOSED", "SQUARE_OFF_WINDOW"}
         \/ Refusal(o, s) = "HOLDINGS" /\ o.qty > FreeQty(book, o.key)
<1>1. CASE degraded = TRUE
  BY <1>1 DEF Refusal
<1>2. CASE degraded = FALSE /\ s = "closed"
  BY <1>2 DEF Refusal
<1>3. CASE degraded = FALSE /\ s = "squareoff" /\ o.side = "BUY" /\ o.key \in IntradayKeys
  BY <1>3 DEF Refusal
<1>4. CASE degraded = FALSE /\ s # "closed" /\ o.side = "SELL" /\ o.qty > FreeQty(book, o.key)
  BY <1>4 DEF Refusal
<1>5. CASE degraded = FALSE /\ s # "closed" /\ o.side = "SELL" /\ ~(o.qty > FreeQty(book, o.key))
  BY <1>5 DEF Refusal
<1>6. CASE /\ degraded = FALSE /\ s # "closed" /\ o.side = "BUY"
           /\ ~(s = "squareoff" /\ o.key \in IntradayKeys)
  BY <1>6 DEF Refusal
<1>. QED
  BY <1>1, <1>2, <1>3, <1>4, <1>5, <1>6

LEMMA Begun ==
  ASSUME PaperInv, NEW c \in Callers, NEW o, NEW left \in SUBSET IntradayKeys, Begin(c, o, left),
         Unfilled(o), o.tag = "squareoff" => FreeQty(book, o.key) = o.qty,
         calls[c].op \in {"idle", "square"}, UNCHANGED <<saved, degraded>>
  PROVE  PaperInv'
<1>1. PICK hours \in Sessions :
       IF Refusal(o, hours) = "none"
       THEN /\ calls' = [calls EXCEPT ![c] = [op |-> "place", order |-> o, left |-> left]]
            /\ UNCHANGED book
       ELSE /\ book' = Added(book, Rejected(o, Refusal(o, hours)))
            /\ calls' = [calls EXCEPT ![c] =
                           IF @.op = "idle" THEN Idle ELSE [op |-> "square", left |-> left]]
  BY DEF Begin
<1>2. o \in Orders /\ o.qty \in Nat /\ OrderOK(o)
  BY OrderTyped DEF Unfilled, OrderOK
<1>3. CASE Refusal(o, hours) = "none"
  <2>. DEFINE f == [op |-> "place", order |-> o, left |-> left]
  <2>1. FrameOK(f, Len(book.orders))
    BY FramesTyped
  <2>2. calls' = [calls EXCEPT ![c] = f] /\ UNCHANGED <<book, saved, degraded>>
    BY <1>1, <1>3
  <2>3. calls[c].op # "poll"
    OBVIOUS
  <2>. HIDE DEF f
  <2>. QED
    BY <2>1, <2>2, <2>3, PaperWaits
<1>4. CASE Refusal(o, hours) # "none"
  <2>. DEFINE why == Refusal(o, hours)
              f == IF calls[c].op = "idle" THEN Idle ELSE [op |-> "square", left |-> left]
  <2>1. \/ why \in {"PERSISTENCE_DEGRADED", "MARKET_CLOSED", "SQUARE_OFF_WINDOW"}
        \/ why = "HOLDINGS" /\ o.qty > FreeQty(book, o.key)
    <3>1. o.side \in {"BUY", "SELL"} /\ degraded \in BOOLEAN
      BY <1>2, OrderTyped DEF PaperInv, AccountInv
    <3>. QED
      BY <1>4, <3>1, Refusals
  <2>2. why = "HOLDINGS" => o.tag # "squareoff"
    BY <1>2, <2>1
  <2>. HIDE DEF why
  <2>3. OrderOK(Rejected(o, why))
    BY <1>2, <2>1, <2>2, OrderBecomes
  <2>4. \A n : FrameOK(f, n)
    BY FramesTyped
  <2>5. book' = Added(book, Rejected(o, why)) /\ calls' = [calls EXCEPT ![c] = f]
    BY <1>1, <1>4 DEF why
  <2>6. calls[c].op # "poll" /\ o.filled = 0
    BY DEF Unfilled
  <2>. HIDE DEF f
  <2>. QED
    BY <1>2, <2>3, <2>4, <2>5, <2>6, PaperRefuses
<1>. QED
  BY <1>3, <1>4

LEMMA PlacePaper ==
  ASSUME PaperInv, NEW c \in Callers, NEW r \in Requests, PlaceOrder(c, r)
  PROVE  PaperInv'
<1>1. Unfilled(NewOrder(r)) /\ NewOrder(r).tag = "caller"
  <2>1. r.key \in Keys /\ r.side \in {"BUY", "SELL"} /\ r.type \in {"MARKET", "LIMIT", "SL"}
        /\ r.qty \in Nat /\ r.price \in Nat
    BY InputAssumption
  <2>2. NewOrder(r) \in OrderFields /\ NewOrder(r).filled <= NewOrder(r).qty
    BY <2>1 DEF NewOrder, OrderFields
  <2>. QED
    BY <2>2 DEF NewOrder, Unfilled, OrderOK, Orders
<1>2. calls[c].op = "idle" /\ Begin(c, NewOrder(r), {}) /\ UNCHANGED <<saved, degraded>>
  BY DEF PlaceOrder, Idle
<1>. QED
  BY <1>1, <1>2, Begun

LEMMA PlacedFrame ==
  ASSUME PaperInv, NEW c \in Callers, calls[c].op = "place", Placed(c)
  PROVE  \E f : (\A n : FrameOK(f, n)) /\ calls' = [calls EXCEPT ![c] = f]
<1>. DEFINE f == IF calls[c].left = {} THEN Idle ELSE [op |-> "square", left |-> calls[c].left]
<1>1. calls[c].left \in SUBSET IntradayKeys
  BY FrameShapes DEF PaperInv, AccountInv
<1>2. \A n : FrameOK(f, n)
  BY <1>1, FramesTyped
<1>3. calls' = [calls EXCEPT ![c] = f]
  BY DEF Placed
<1>. QED
  BY <1>2, <1>3

LEMMA NoQuotePaper ==
  ASSUME PaperInv, NEW c \in Callers, PlaceNoQuote(c)
  PROVE  PaperInv'
<1>1. calls[c].op = "place" /\ Unfilled(calls[c].order) /\ Placed(c) /\ UNCHANGED <<saved, degraded>>
      /\ book' = Added(book, Rejected(calls[c].order, "NO_PRICE"))
  BY DEF PlaceNoQuote, PaperInv, AccountInv, FrameOK
<1>2. PICK f : (\A n : FrameOK(f, n)) /\ calls' = [calls EXCEPT ![c] = f]
  BY <1>1, PlacedFrame
<1>3. OrderOK(calls[c].order) /\ OrderOK(Rejected(calls[c].order, "NO_PRICE"))
      /\ calls[c].order.filled = 0 /\ calls[c].order \in Orders
  BY <1>1, OrderBecomes DEF Unfilled, OrderOK
<1>. QED
  BY <1>1, <1>2, <1>3, PaperRefuses

LEMMA OutflowNat ==
  ASSUME NEW o \in Orders, NEW q \in Quotes
  PROVE  WorstCaseOutflow(o, q) \in Nat
<1>. DEFINE reference == CASE o.type = "LIMIT"  -> o.price
                           [] o.type = "MARKET" -> q.price + Slip
                           [] o.type = "SL"     -> Max({o.price, q.price}) + Slip
<1>1. o.qty \in Nat /\ o.price \in Nat /\ q.price \in Nat /\ Slip \in Nat /\ BuyCost \in Nat
      /\ o.type \in {"MARKET", "LIMIT", "SL"}
  BY OrderTyped, InputAssumption, MoneyAssumption DEF Orders, OrderFields
<1>2. Max({o.price, q.price}) \in Nat
  <2>1. \E x \in {o.price, q.price} : \A y \in {o.price, q.price} : x >= y
    <3>1. CASE o.price >= q.price
      BY <1>1, <3>1
    <3>2. CASE ~(o.price >= q.price)
      BY <1>1, <3>2
    <3>. QED
      BY <3>1, <3>2
  <2>2. Max({o.price, q.price}) \in {o.price, q.price}
    BY <2>1 DEF Max
  <2>. QED
    BY <1>1, <2>2
<1>3. reference \in Nat
  BY <1>1, <1>2
<1>4. WorstCaseOutflow(o, q) = o.qty * reference + BuyCost
  BY DEF WorstCaseOutflow
<1>. HIDE DEF reference
<1>5. o.qty * reference \in Nat
  BY <1>1, <1>3
<1>. QED
  BY <1>1, <1>4, <1>5

(* An order that entered with its earmark and was refused leaves no trace    *)
(* but itself.                                                              *)
LEMMA RefusedAfterAll ==
  ASSUME NEW b, BookOK(b), NEW u, NEW e, Entered(e, b, u),
         NEW why \in {"NO_LIQUIDITY", "INSUFFICIENT_CASH", "INSUFFICIENT_HOLDINGS"}
  PROVE  LET r == Undone(e, Len(b.orders) + 1, why)
         IN  /\ BookOK(r) /\ Len(r.orders) = Len(b.orders) + 1
             /\ Accepted(r) = Accepted(b)
<1>. DEFINE i == Len(b.orders) + 1
            r == Undone(e, i, why)
<1>1. /\ BookOK(e) /\ OrderOK(u) /\ Len(e.orders) = i /\ e.cash = b.cash /\ e.positions = b.positions
      /\ e.reserved = b.reserved + u.heldCash /\ e.orders = Append(b.orders, u)
  BY DEF Entered
<1>2. /\ b.reserved \in Int /\ b.orders \in Seq(Orders) /\ DOMAIN b.orders = 1..Len(b.orders)
      /\ Len(b.orders) \in Nat
  BY BookTyped DEF BookOK
<1>3. /\ DOMAIN e.orders = DOMAIN b.orders \cup {i} /\ i \notin DOMAIN b.orders /\ e.orders[i] = u
      /\ \A j \in DOMAIN b.orders : e.orders[j] = b.orders[j]
  BY <1>1, <1>2
<1>4. i \in DOMAIN e.orders
  BY <1>3
<1>. HIDE DEF i
<1>5. /\ BookOK(r) /\ Len(r.orders) = i /\ r.cash = b.cash /\ r.positions = b.positions
      /\ r.reserved = e.reserved - e.orders[i].heldCash
      /\ r.orders = [e.orders EXCEPT ![i] = Rejected(e.orders[i], why)]
  <2>1. Unwound(Undone(e, i, why), e, i, why)
    BY <1>1, <1>4, RefusedOK
  <2>. HIDE DEF r
  <2>. QED
    BY <2>1, <1>1 DEF r, Unwound
<1>. HIDE DEF r
<1>6. u.heldCash \in Nat /\ u \in OrderFields
  BY <1>1, OrderTyped DEF OrderOK, Orders
<1>7. r.reserved = b.reserved
  BY <1>1, <1>2, <1>3, <1>5, <1>6
<1>8. /\ DOMAIN r.orders = DOMAIN b.orders \cup {i} /\ r.orders[i] = Rejected(u, why)
      /\ \A j \in DOMAIN b.orders : r.orders[j] = b.orders[j]
  BY <1>3, <1>5
<1>9. Rejected(u, why).status = "REJECTED"
  BY <1>6 DEF Rejected, OrderFields
<1>10. Accepted(r) = Accepted(b)
  BY <1>3, <1>5, <1>7, <1>8, <1>9, SameAccepted
<1>. QED
  BY <1>5, <1>10 DEF r, i

LEMMA QuotePaper ==
  ASSUME SalesPay, PaperInv, NEW c \in Callers, NEW q \in Quotes, PlaceOnQuote(c, q)
  PROVE  PaperInv'
<1>. DEFINE o == calls[c].order
            need == WorstCaseOutflow(o, q)
            i == Len(book.orders) + 1
            earmarked == IF o.side = "BUY"
                         THEN [Added(book, [o EXCEPT !.heldCash = need]) EXCEPT !.reserved = @ + need]
                         ELSE Added(book, [o EXCEPT !.heldQty = o.qty])
            tried == ExecuteAgainst(earmarked, i, q)
<1>1. /\ calls[c].op = "place" /\ Placed(c)
      /\ IF o.side = "BUY" /\ need > Available(book)
         THEN /\ book' = Added(book, Rejected(o, "INSUFFICIENT_CASH"))
              /\ UNCHANGED <<saved, degraded>>
         ELSE IF tried.reason # "none"
         THEN /\ book' = [Release(tried.book, i) EXCEPT
                            !.orders[i] = Rejected(@, tried.reason)]
              /\ UNCHANGED <<saved, degraded>>
         ELSE Commit(Finalise(tried.book, i))
  BY DEF PlaceOnQuote
<1>2. AccountInv /\ DurableWhenHealthy /\ BookOK(book) /\ Unfilled(o) /\ BookOK(saved) /\ degraded \in BOOLEAN
  BY <1>1 DEF PaperInv, AccountInv, FrameOK
<1>3. o \in Orders /\ OrderOK(o) /\ o.filled = 0 /\ Len(book.orders) \in Nat
  BY <1>2, BookTyped DEF Unfilled, OrderOK, BookOK
<1>4. PICK f : (\A n : FrameOK(f, n)) /\ calls' = [calls EXCEPT ![c] = f]
  BY <1>1, PlacedFrame
<1>5. CASE o.side = "BUY" /\ need > Available(book)
  <2>1. OrderOK(Rejected(o, "INSUFFICIENT_CASH"))
    BY <1>3, OrderBecomes
  <2>. QED
    BY <1>1, <1>3, <1>4, <1>5, <2>1, PaperRefuses
<1>6. CASE ~(o.side = "BUY" /\ need > Available(book))
  <2>1. \E u : Entered(earmarked, book, u)
    <3>1. CASE o.side = "BUY"
      <4>1. need \in Nat /\ Available(book) \in Int
        BY <1>2, <1>3, OutflowNat, BookTyped DEF Available, BookOK
      <4>2. need <= Available(book)
        BY <1>6, <3>1, <4>1
      <4>3. Entered([Added(book, [o EXCEPT !.heldCash = need]) EXCEPT !.reserved = @ + need],
                    book, [o EXCEPT !.heldCash = need])
        BY <1>2, <4>1, <4>2, EarmarkedOK
      <4>. QED
        BY <3>1, <4>3
    <3>2. CASE o.side # "BUY"
      <4>1. Entered(Added(book, [o EXCEPT !.heldQty = o.qty]), book, [o EXCEPT !.heldQty = o.qty])
        BY <1>2, EarmarkedOK
      <4>. QED
        BY <3>2, <4>1
    <3>. QED
      BY <3>1, <3>2
  <2>. HIDE DEF earmarked
  <2>2. PICK u : Entered(earmarked, book, u)
    BY <2>1
  <2>3. BookOK(earmarked) /\ Len(earmarked.orders) = i /\ i \in DOMAIN earmarked.orders
    BY <1>3, <2>2, BookTyped DEF Entered, BookOK
  <2>4. /\ BookOK(tried.book) /\ Len(tried.book.orders) = i
        /\ tried.reason \in {"none", "NO_LIQUIDITY", "INSUFFICIENT_CASH", "INSUFFICIENT_HOLDINGS"}
        /\ tried.reason # "none" => tried.book = earmarked
    BY <2>3, ExecutedOK
  <2>. HIDE DEF tried
  <2>5. CASE tried.reason # "none"
    <3>1. book' = Undone(earmarked, i, tried.reason) /\ UNCHANGED <<saved, degraded>>
      BY <1>1, <1>6, <2>4, <2>5 DEF Undone
    <3>2. tried.reason \in {"NO_LIQUIDITY", "INSUFFICIENT_CASH", "INSUFFICIENT_HOLDINGS"}
      BY <2>4, <2>5
    <3>3. BookOK(book') /\ Len(book'.orders) = Len(book.orders) + 1 /\ Accepted(book') = Accepted(book)
      BY <1>2, <2>2, <3>1, <3>2, RefusedAfterAll
    <3>4. Len(book.orders) <= Len(book'.orders) /\ BookOK(saved') /\ degraded' \in BOOLEAN
      BY <1>2, <1>3, <3>1, <3>3
    <3>5. AccountInv'
      BY <1>2, <1>4, <3>3, <3>4, CallMoves
    <3>6. DurableWhenHealthy'
      <4>1. calls[c].op # "poll"
        BY <1>1
      <4>. QED
        BY <1>2, <1>4, <3>1, <3>3, <4>1, NothingLost
    <3>. QED
      BY <3>5, <3>6 DEF PaperInv
  <2>6. CASE tried.reason = "none"
    <3>1. Commit(Finalise(tried.book, i))
      BY <1>1, <1>6, <2>6
    <3>2. i \in DOMAIN tried.book.orders
      BY <1>3, <2>4, BookTyped DEF BookOK
    <3>3. BookOK(Finalise(tried.book, i)) /\ Len(Finalise(tried.book, i).orders) = i
      BY <2>4, <3>2, FinalisedOK
    <3>4. Len(book.orders) <= i
      BY <1>3
    <3>. HIDE DEF i
    <3>. QED
      BY <1>2, <1>4, <3>1, <3>3, <3>4, PaperCommits
  <2>. QED
    BY <2>5, <2>6
<1>. QED
  BY <1>5, <1>6

LEMMA CancelPaper ==
  ASSUME PaperInv, NEW c \in Callers, NEW i \in DOMAIN book.orders, CancelOrder(c, i)
  PROVE  PaperInv'
<1>1. AccountInv /\ BookOK(book) /\ Commit(Cancelled(book, i)) /\ UNCHANGED calls
  BY DEF PaperInv, AccountInv, CancelOrder
<1>2. BookOK(Cancelled(book, i)) /\ Len(Cancelled(book, i).orders) = Len(book.orders)
  BY <1>1, CancelledOK
<1>. QED
  BY <1>1, <1>2, PaperCommitsOnly

LEMMA ModifyPaper ==
  ASSUME PaperInv, NEW c \in Callers, NEW i \in DOMAIN book.orders, NEW qty \in Nat, NEW price \in Nat,
         ModifyOrder(c, i, qty, price)
  PROVE  PaperInv'
<1>. DEFINE o == book.orders[i]
            changed == [book EXCEPT !.orders[i].qty = qty]
            taken == [changed EXCEPT !.orders[i].price = price,
                                     !.orders[i].heldQty = IF @ > 0 THEN qty - o.filled ELSE 0]
<1>1. /\ AccountInv /\ DurableWhenHealthy /\ BookOK(book) /\ BookOK(saved) /\ degraded \in BOOLEAN
      /\ o.status = "OPEN" /\ qty > o.filled /\ UNCHANGED calls
      /\ \/ book' = changed /\ UNCHANGED <<saved, degraded>>
         \/ Commit(taken)
  BY DEF PaperInv, AccountInv, ModifyOrder
<1>2. o.filled \in Nat
  BY <1>1, BookTyped, OrderTyped DEF BookOK
<1>3. /\ BookOK(changed) /\ Len(changed.orders) = Len(book.orders)
      /\ BookOK(taken) /\ Len(taken.orders) = Len(book.orders)
  <2>1. o.filled < qty
    BY <1>1, <1>2
  <2>. QED
    BY <1>1, <2>1, ModifiedOK, ZenonT(60)
<1>4. CASE book' = changed /\ UNCHANGED <<saved, degraded>>
  <2>1. AccountInv'
    BY <1>1, <1>3, <1>4, CallsStay
  <2>2. Accepted(changed) = Accepted(book)
    <3>1. /\ DOMAIN book = {"cash", "reserved", "positions", "orders"}
          /\ book.orders = [j \in DOMAIN book.orders |-> book.orders[j]]
          /\ o \in OrderFields
      BY <1>1, BookParts
    <3>2. changed.cash = book.cash /\ changed.reserved = book.reserved /\ changed.positions = book.positions
          /\ changed.orders = [book.orders EXCEPT ![i] = [o EXCEPT !.qty = qty]]
      BY <3>1
    <3>. DEFINE u == [o EXCEPT !.qty = qty]
    <3>3. u.status = o.status /\ u.filled = o.filled /\ u.heldCash = o.heldCash
      BY <3>1 DEF OrderFields
    <3>. HIDE DEF u
    <3>4. /\ DOMAIN changed.orders = DOMAIN book.orders /\ changed.orders[i] = u
          /\ \A j \in DOMAIN book.orders \ {i} : changed.orders[j] = book.orders[j]
      BY <3>1, <3>2 DEF u
    <3>. HIDE DEF changed
    <3>. QED
      BY <3>2, <3>3, <3>4, SameAccepted
  <2>. HIDE DEF changed
  <2>3. DurableWhenHealthy'
    <3>1. Accepted(book') = Accepted(book) /\ (UnsavedPoll => UnsavedPoll')
      BY <1>1, <1>4, <2>2 DEF UnsavedPoll
    <3>. QED
      BY <1>1, <1>4, <3>1 DEF DurableWhenHealthy
  <2>. QED
    BY <2>1, <2>3 DEF PaperInv
<1>5. CASE Commit(taken)
  <2>. HIDE DEF taken
  <2>. QED
    BY <1>1, <1>3, <1>5, PaperCommitsOnly
<1>. QED
  BY <1>1, <1>4, <1>5

(* A poll goes on with the next resting order, or ends.                     *)
LEMMA Advanced ==
  ASSUME NEW c \in Callers, NEW i \in Nat, i >= 1, NEW n \in Nat, n <= Len(book'.orders),
         NEW x \in BOOLEAN, Advance(c, i, n, x), Len(book'.orders) \in Nat
  PROVE  \E f : /\ FrameOK(f, Len(book'.orders)) /\ calls' = [calls EXCEPT ![c] = f]
                /\ NextOpen(i, n) # {} => f.op = "poll" /\ f.filled = x
<1>. DEFINE T == NextOpen(i, n)
            f == IF T = {} THEN Idle ELSE [op |-> "poll", at |-> Min(T), upto |-> n, filled |-> x]
<1>1. T \subseteq i..n
  BY DEF NextOpen
<1>2. calls' = [calls EXCEPT ![c] = f]
  BY DEF Advance
<1>. HIDE DEF T
<1>3. T # {} => Min(T) \in T
  <2>. SUFFICES ASSUME T # {} PROVE Min(T) \in T
    OBVIOUS
  <2>1. T \subseteq Nat
    BY <1>1
  <2>2. \E m \in T : \A k \in T : m <= k
    BY <2>1, LeastNatural
  <2>. QED
    BY <2>2 DEF Min
<1>4. FrameOK(f, Len(book'.orders))
  <2>1. CASE T = {}
    BY <2>1, FramesTyped
  <2>2. CASE T # {}
    <3>0. \A j \in i..n : j \in 1..n
      OBVIOUS
    <3>1. Min(T) \in 1..n
      BY <1>1, <1>3, <2>2, <3>0
    <3>2. FrameOK([op |-> "poll", at |-> Min(T), upto |-> n, filled |-> x], Len(book'.orders))
      BY <3>1, FramesTyped
    <3>. QED
      BY <2>2, <3>2
  <2>. QED
    BY <2>1, <2>2
<1>5. T # {} => f.op = "poll" /\ f.filled = x
  OBVIOUS
<1>. HIDE DEF f
<1>. QED
  BY <1>2, <1>4, <1>5 DEF T

LEMMA PollStartPaper ==
  ASSUME PaperInv, NEW c \in Callers, PollStart(c)
  PROVE  PaperInv'
<1>1. UNCHANGED <<book, saved, degraded>> /\ Advance(c, 1, Len(book.orders), FALSE) /\ calls[c] = Idle
  BY DEF PollStart
<1>2. Len(book.orders) \in Nat
  BY BookTyped DEF PaperInv, AccountInv, BookOK
<1>3. book'.orders = book.orders
  BY <1>1
<1>4. PICK f : FrameOK(f, Len(book.orders)) /\ calls' = [calls EXCEPT ![c] = f]
  <2>. DEFINE n == Len(book.orders)
              x == FALSE
  <2>1. Advance(c, 1, n, x)
    BY <1>1
  <2>2. n \in Nat /\ x \in BOOLEAN
    BY <1>2
  <2>3. Len(book'.orders) = n
    BY <1>3
  <2>. HIDE DEF n, x
  <2>4. \E f : FrameOK(f, Len(book'.orders)) /\ calls' = [calls EXCEPT ![c] = f]
    <3>1. 1 \in Nat /\ 1 >= 1 /\ n <= Len(book'.orders) /\ Len(book'.orders) \in Nat
      BY <2>2, <2>3
    <3>. QED
      BY <2>1, <2>2, <3>1, Advanced
  <2>. QED
    BY <2>3, <2>4 DEF n
<1>5. calls[c].op = "idle"
  BY <1>1 DEF Idle
<1>. QED
  BY <1>1, <1>4, <1>5, PaperWaits

(* Where a poll stands.                                                     *)
LEMMA Polling ==
  ASSUME AccountInv, NEW c \in Callers, calls[c].op = "poll"
  PROVE  /\ calls[c].at \in DOMAIN book.orders /\ calls[c].at + 1 \in Nat /\ calls[c].at + 1 >= 1
         /\ calls[c].upto \in Nat /\ calls[c].upto <= Len(book.orders) /\ calls[c].filled \in BOOLEAN
         /\ Len(book.orders) \in Nat
<1>1. FrameOK(calls[c], Len(book.orders)) /\ calls[c] \in Frames /\ book \in Books
  BY DEF AccountInv, BookOK
<1>2. calls[c].at \in 1..Len(book.orders) /\ calls[c].upto <= Len(book.orders)
  BY <1>1 DEF FrameOK
<1>3. calls[c].at \in Nat /\ calls[c].upto \in Nat /\ calls[c].filled \in BOOLEAN
  BY <1>1, FrameShapes
<1>4. DOMAIN book.orders = 1..Len(book.orders) /\ Len(book.orders) \in Nat
  BY <1>1, BookTyped
<1>. QED
  BY <1>2, <1>3, <1>4

LEMMA PollNoQuotePaper ==
  ASSUME PaperInv, NEW c \in Callers, PollNoQuote(c)
  PROVE  PaperInv'
<1>. DEFINE g == calls[c]
            rest == {j \in g.at + 1 .. g.upto : book.orders[j].status = "OPEN"}
<1>1. /\ g.op = "poll" /\ Advance(c, g.at + 1, g.upto, g.filled)
      /\ IF g.filled /\ rest = {} THEN Commit(book) ELSE UNCHANGED <<book, saved, degraded>>
  BY DEF PollNoQuote
<1>2. AccountInv /\ BookOK(book)
  BY DEF PaperInv, AccountInv
<1>3. book' = book
  BY <1>1 DEF Commit
<1>4. /\ g.at \in DOMAIN book.orders /\ g.at + 1 \in Nat /\ g.at + 1 >= 1
      /\ g.upto \in Nat /\ g.upto <= Len(book.orders) /\ g.filled \in BOOLEAN
      /\ Len(book.orders) \in Nat
  BY <1>1, <1>2, Polling
<1>5. NextOpen(g.at + 1, g.upto) = rest
  BY <1>3 DEF NextOpen
<1>. HIDE DEF rest
<1>6. PICK f : /\ FrameOK(f, Len(book'.orders)) /\ calls' = [calls EXCEPT ![c] = f]
               /\ NextOpen(g.at + 1, g.upto) # {} => f.op = "poll" /\ f.filled = g.filled
  BY <1>1, <1>3, <1>4, Advanced
<1>7. CASE g.filled /\ rest = {}
  <2>1. Commit(book) /\ FrameOK(f, Len(book.orders)) /\ Len(book.orders) <= Len(book.orders)
    BY <1>1, <1>3, <1>4, <1>6, <1>7
  <2>. QED
    BY <1>2, <1>3, <1>4, <1>6, <2>1, PaperCommits
<1>8. CASE ~(g.filled /\ rest = {})
  <2>1. UNCHANGED <<book, saved, degraded>>
    BY <1>1, <1>8
  <2>2. g.filled => f.op = "poll" /\ f.filled
    BY <1>5, <1>6, <1>8
  <2>. QED
    BY <1>3, <1>6, <2>1, <2>2, PaperWaits
<1>. QED
  BY <1>7, <1>8

LEMMA PollOnQuotePaper ==
  ASSUME SalesPay, PaperInv, NEW c \in Callers, NEW q \in Quotes, PollOnQuote(c, q)
  PROVE  PaperInv'
<1>. DEFINE g == calls[c]
            tried == ExecuteAgainst(book, g.at, q)
            filled == tried.book.orders[g.at].filled > book.orders[g.at].filled
            after == IF filled THEN Finalise(tried.book, g.at) ELSE book
            rest == {j \in g.at + 1 .. g.upto : after.orders[j].status = "OPEN"}
<1>1. /\ g.op = "poll" /\ Advance(c, g.at + 1, g.upto, g.filled \/ filled)
      /\ IF (filled \/ g.filled) /\ rest = {}
         THEN Commit(after)
         ELSE book' = after /\ UNCHANGED <<saved, degraded>>
  BY DEF PollOnQuote
<1>2. AccountInv /\ DurableWhenHealthy /\ BookOK(book) /\ BookOK(saved) /\ degraded \in BOOLEAN
  BY DEF PaperInv, AccountInv
<1>3. /\ g.at \in DOMAIN book.orders /\ g.at + 1 \in Nat /\ g.at + 1 >= 1
      /\ g.upto \in Nat /\ g.upto <= Len(book.orders) /\ g.filled \in BOOLEAN
      /\ Len(book.orders) \in Nat
  BY <1>1, <1>2, Polling
<1>4. BookOK(after) /\ Len(after.orders) = Len(book.orders)
  <2>1. BookOK(tried.book) /\ Len(tried.book.orders) = Len(book.orders)
    BY <1>2, <1>3, ExecutedOK
  <2>. HIDE DEF tried
  <2>2. g.at \in DOMAIN tried.book.orders
    BY <1>2, <1>3, <2>1, BookTyped DEF BookOK
  <2>3. BookOK(Finalise(tried.book, g.at)) /\ Len(Finalise(tried.book, g.at).orders) = Len(book.orders)
    BY <2>1, <2>2, FinalisedOK
  <2>. HIDE DEF filled
  <2>. QED
    BY <1>2, <2>3
<1>5. ~filled => after = book
  BY <1>3
<1>. HIDE DEF after, filled
<1>6. book' = after
  BY <1>1 DEF Commit
<1>7. NextOpen(g.at + 1, g.upto) = rest
  BY <1>6 DEF NextOpen
<1>. HIDE DEF rest
<1>8. PICK f : /\ FrameOK(f, Len(book'.orders)) /\ calls' = [calls EXCEPT ![c] = f]
               /\ NextOpen(g.at + 1, g.upto) # {} => f.op = "poll" /\ f.filled = (g.filled \/ filled)
  <2>. DEFINE x == g.filled \/ filled
  <2>1. x \in BOOLEAN
    BY <1>3
  <2>2. Advance(c, g.at + 1, g.upto, x)
    BY <1>1
  <2>. HIDE DEF x
  <2>3. \E f : /\ FrameOK(f, Len(book'.orders)) /\ calls' = [calls EXCEPT ![c] = f]
               /\ NextOpen(g.at + 1, g.upto) # {} => f.op = "poll" /\ f.filled = x
    BY <1>3, <1>4, <1>6, <2>1, <2>2, Advanced
  <2>. QED
    BY <2>3 DEF x
<1>9. CASE (filled \/ g.filled) /\ rest = {}
  <2>1. Commit(after) /\ FrameOK(f, Len(after.orders)) /\ Len(book.orders) <= Len(after.orders)
    BY <1>1, <1>3, <1>4, <1>6, <1>8, <1>9
  <2>. QED
    BY <1>2, <1>3, <1>4, <1>6, <1>8, <2>1, PaperCommits
<1>10. CASE ~((filled \/ g.filled) /\ rest = {})
  <2>1. UNCHANGED <<saved, degraded>> /\ BookOK(book') /\ Len(book.orders) <= Len(book'.orders)
    BY <1>1, <1>3, <1>4, <1>6, <1>10
  <2>2. AccountInv'
    BY <1>2, <1>8, <2>1, CallMoves
  <2>3. CASE filled \/ g.filled
    <3>1. f.op = "poll" /\ f.filled
      BY <1>7, <1>8, <1>10, <2>3
    <3>2. calls'[c] = f
      BY <1>2, <1>8 DEF AccountInv
    <3>3. UnsavedPoll'
      BY <3>1, <3>2 DEF UnsavedPoll
    <3>. QED
      BY <2>2, <3>3 DEF PaperInv, DurableWhenHealthy
  <2>4. CASE ~(filled \/ g.filled)
    <3>1. Accepted(book') = Accepted(book)
      BY <1>5, <1>6, <2>4
    <3>2. DurableWhenHealthy'
      BY <1>2, <1>8, <2>1, <2>4, <3>1, NothingLost
    <3>. QED
      BY <2>2, <3>2 DEF PaperInv
  <2>. QED
    BY <2>3, <2>4
<1>. QED
  BY <1>9, <1>10

LEMMA SquareOffStartPaper ==
  ASSUME PaperInv, NEW c \in Callers, SquareOffStart(c)
  PROVE  PaperInv'
<1>1. /\ calls[c] = Idle /\ UNCHANGED <<book, saved, degraded>>
      /\ calls' = [calls EXCEPT ![c] = [op |-> "square", left |-> IntradayKeys]]
  BY DEF SquareOffStart
<1>. DEFINE f == [op |-> "square", left |-> IntradayKeys]
<1>2. FrameOK(f, Len(book.orders))
  BY FramesTyped
<1>3. calls[c].op = "idle" /\ calls' = [calls EXCEPT ![c] = f]
  BY <1>1 DEF Idle
<1>. HIDE DEF f
<1>. QED
  BY <1>1, <1>2, <1>3, PaperWaits

LEMMA SquareOffEndPaper ==
  ASSUME PaperInv, NEW c \in Callers, SquareOffEnd(c)
  PROVE  PaperInv'
<1>1. /\ calls[c].op = "square" /\ UNCHANGED <<book, saved, degraded>>
      /\ calls' = [calls EXCEPT ![c] = Idle]
  BY DEF SquareOffEnd, Return
<1>2. FrameOK(Idle, Len(book.orders))
  BY FramesTyped
<1>. QED
  BY <1>1, <1>2, PaperWaits

LEMMA SquareOffCancelPaper ==
  ASSUME PaperInv, NEW c \in Callers, NEW k \in IntradayKeys, SquareOffCancel(c, k)
  PROVE  PaperInv'
<1>1. AccountInv /\ BookOK(book) /\ Commit(ClearSymbol(book, k)) /\ UNCHANGED calls
  BY DEF PaperInv, AccountInv, SquareOffCancel
<1>2. BookOK(ClearSymbol(book, k)) /\ Len(ClearSymbol(book, k).orders) = Len(book.orders)
  BY <1>1, ClearedOK
<1>. QED
  BY <1>1, <1>2, PaperCommitsOnly

LEMMA SquareOffSellPaper ==
  ASSUME PaperInv, NEW c \in Callers, NEW k \in IntradayKeys, SquareOffSell(c, k)
  PROVE  PaperInv'
<1>. DEFINE r == [key |-> k, side |-> "SELL", type |-> "MARKET", qty |-> book.positions[k], price |-> 0]
            o == [NewOrder(r) EXCEPT !.tag = "squareoff"]
            left == calls[c].left \ {k}
<1>1. /\ calls[c].op = "square" /\ ClearSymbol(book, k) = book /\ Begin(c, o, left)
      /\ UNCHANGED <<saved, degraded>>
  BY DEF SquareOffSell
<1>2. BookOK(book) /\ calls[c] \in Frames /\ k \in Keys
  BY DEF PaperInv, AccountInv, IntradayKeys
<1>3. left \in SUBSET IntradayKeys
  <2>1. calls[c].left \in SUBSET IntradayKeys
    BY <1>1, <1>2, FrameShapes
  <2>. QED
    BY <2>1
<1>4. book.positions[k] \in Nat
  <2>1. book.positions[k] \in Int /\ book.positions[k] >= 0
    BY <1>2, BookTyped DEF BookOK
  <2>. QED
    BY <2>1
<1>5. Unfilled(o)
  <2>1. o \in OrderFields /\ o.filled = 0 /\ o.qty = book.positions[k] /\ o.status = "OPEN"
        /\ o.heldCash = 0 /\ o.heldQty = 0 /\ o.reason = "none"
    BY <1>2, <1>4 DEF NewOrder, OrderFields
  <2>. HIDE DEF o
  <2>. QED
    BY <1>4, <2>1 DEF Unfilled, OrderOK, Orders
<1>6. FreeQty(book, o.key) = o.qty
  <2>1. \A i \in DOMAIN book.orders : ~AtRest(book, k, i)
    BY <1>1, <1>2, ClearedOK
  <2>2. FreeQty(book, k) = book.positions[k]
    BY <1>2, <1>4, <2>1, AllFree
  <2>3. o.key = k /\ o.qty = book.positions[k]
    BY DEF NewOrder
  <2>. QED
    BY <2>2, <2>3
<1>. HIDE DEF o, left
<1>. QED
  BY <1>1, <1>3, <1>5, <1>6, Begun

LEMMA RestartPaper ==
  ASSUME PaperInv, Restart
  PROVE  PaperInv'
<1>1. /\ book' = saved /\ degraded' = FALSE /\ saved' = saved /\ BookOK(saved)
      /\ calls' = [c \in Callers |-> Idle]
  BY DEF Restart, PaperInv, AccountInv
<1>2. BookOK(book') /\ BookOK(saved') /\ degraded' \in BOOLEAN
  BY <1>1
<1>3. \A c \in Callers : calls'[c] = Idle /\ FrameOK(calls'[c], Len(book'.orders))
  BY <1>1, FramesTyped
<1>4. calls' \in [Callers -> Frames]
  BY <1>1 DEF Frames
<1>5. saved' = book'
  BY <1>1
<1>. QED
  BY <1>2, <1>3, <1>4, <1>5, SavedNow DEF PaperInv, AccountInv

LEMMA EmptyBookOK == BookOK(EmptyBook)
<1>. DEFINE b == EmptyBook
<1>1. /\ b.cash = InitialCash /\ b.reserved = 0 /\ b.orders = << >> /\ b.positions = [k \in Keys |-> 0]
      /\ DOMAIN b.orders = {} /\ InitialCash \in Nat
  BY MoneyAssumption DEF EmptyBook
<1>2. b \in Books
  BY MoneyAssumption DEF EmptyBook, Books
<1>. HIDE DEF b
<1>3. SumFunction(Held(b)) = 0
  <2>1. DOMAIN Held(b) = {}
    BY <1>1 DEF Held
  <2>2. IsFiniteSet(DOMAIN Held(b)) /\ \A x \in DOMAIN Held(b) : Held(b)[x] = 0
    BY <2>1, FS_EmptySet
  <2>. QED
    BY <2>2, SumZero
<1>4. ASSUME NEW k \in Keys PROVE b.positions[k] = SumFunction(MovedBy(b, k)) /\ b.positions[k] >= 0
  <2>1. DOMAIN MovedBy(b, k) = {}
    BY <1>1 DEF MovedBy
  <2>2. IsFiniteSet(DOMAIN MovedBy(b, k)) /\ \A x \in DOMAIN MovedBy(b, k) : MovedBy(b, k)[x] = 0
    BY <2>1, FS_EmptySet
  <2>3. SumFunction(MovedBy(b, k)) = 0
    BY <2>2, SumZero
  <2>. QED
    BY <1>1, <2>3
<1>5. BookOK(b)
  BY <1>1, <1>2, <1>3, <1>4 DEF BookOK
<1>. QED
  BY <1>5 DEF b

LEMMA PaperBegins == Init => PaperInv
<1>. SUFFICES ASSUME Init PROVE PaperInv
  OBVIOUS
<1>1. book = EmptyBook /\ saved = EmptyBook /\ degraded = FALSE /\ calls = [c \in Callers |-> Idle]
  BY DEF Init
<1>2. BookOK(book) /\ BookOK(saved) /\ degraded \in BOOLEAN
  BY <1>1, EmptyBookOK
<1>3. \A c \in Callers : FrameOK(calls[c], Len(book.orders))
  BY <1>1, FramesTyped
<1>4. calls \in [Callers -> Frames]
  BY <1>1 DEF Frames
<1>5. DurableWhenHealthy
  BY <1>1 DEF DurableWhenHealthy
<1>. QED
  BY <1>2, <1>3, <1>4, <1>5 DEF PaperInv, AccountInv

LEMMA PaperStays ==
  ASSUME SalesPay, PaperInv, [Next]_vars
  PROVE  PaperInv'
<1>1. CASE UNCHANGED vars
  <2>1. book' = book /\ saved' = saved /\ degraded' = degraded /\ calls' = calls
    BY <1>1 DEF vars
  <2>. QED
    BY <2>1 DEF PaperInv, AccountInv, DurableWhenHealthy, UnsavedPoll
<1>2. CASE Restart
  BY <1>2, RestartPaper
<1>3. ASSUME NEW c \in Callers, NEW r \in Requests, PlaceOrder(c, r) PROVE PaperInv'
  BY <1>3, PlacePaper
<1>4. ASSUME NEW c \in Callers,
             PlaceNoQuote(c) \/ PollStart(c) \/ PollNoQuote(c) \/ SquareOffStart(c) \/ SquareOffEnd(c)
      PROVE  PaperInv'
  BY <1>4, NoQuotePaper, PollStartPaper, PollNoQuotePaper, SquareOffStartPaper, SquareOffEndPaper
<1>5. ASSUME NEW c \in Callers, NEW q \in Quotes, PlaceOnQuote(c, q) \/ PollOnQuote(c, q)
      PROVE  PaperInv'
  BY <1>5, QuotePaper, PollOnQuotePaper
<1>6. ASSUME NEW c \in Callers, NEW i \in DOMAIN book.orders, CancelOrder(c, i)
      PROVE  PaperInv'
  BY <1>6, CancelPaper
<1>7. ASSUME NEW c \in Callers, NEW i \in DOMAIN book.orders, NEW r \in Requests,
             ModifyOrder(c, i, r.qty, r.price)
      PROVE  PaperInv'
  <2>1. r.qty \in Nat /\ r.price \in Nat
    BY InputAssumption
  <2>. QED
    BY <1>7, <2>1, ModifyPaper
<1>8. ASSUME NEW c \in Callers, NEW k \in IntradayKeys, SquareOffCancel(c, k) \/ SquareOffSell(c, k)
      PROVE  PaperInv'
  BY <1>8, SquareOffCancelPaper, SquareOffSellPaper
<1>. QED
  BY <1>1, <1>2, <1>3, <1>4, <1>5, <1>6, <1>7, <1>8 DEF Next

LEMMA PaperAlways == SalesPay => (Spec => []PaperInv)
<1>. SUFFICES ASSUME SalesPay PROVE Spec => []PaperInv
  OBVIOUS
<1>1. PaperInv /\ [Next]_vars => PaperInv'
  BY PaperStays
<1>. QED
  BY <1>1, PaperBegins, PTL DEF Spec

(* However the calls interleave at their awaits, whatever the feed answers, *)
(* whichever saves fail and whenever the process starts again: the paper    *)
(* account adds up, and a square-off is never refused for want of stock     *)
(* (broker/paper.py).  A sale must bring in at least what it costs.         *)
THEOREM PaperAddsUp == SalesPay => (Spec => []BookCoherent)
<1>1. PaperInv => BookCoherent
  BY AccountCoherent DEF PaperInv
<1>. QED
  BY <1>1, PaperAlways, PTL

(* While saves succeed a restart finds every acknowledged operation, except  *)
(* the fills of a poll that is still under way (_save_state, paper.py).      *)
THEOREM SavesKeepUp == SalesPay => (Spec => []DurableWhenHealthy)
<1>1. PaperInv => DurableWhenHealthy
  BY DEF PaperInv
<1>. QED
  BY <1>1, PaperAlways, PTL

-----------------------------------------------------------------------------
(* THE LIVE BROKER'S ADAPTER                                                 *)

-----------------------------------------------------------------------------
(* What a task is told                                                       *)

Asks == [op : Writes \cup {"none", "positions"}, at : {"idle", "waiting", "sent", "done"},
         wake : Int, attempt : Nat, arrived : BOOLEAN, alone : BOOLEAN, flat : BOOLEAN,
         answer : {"none", "refused", "not done", "unknown", "done", "flat", "held"}]

(* A call by where it is: what it was told, and what the exchange knows of it. *)
CallOK(a) ==
    /\ a.at \in {"idle", "waiting"} => ~a.arrived /\ a.answer = "none"
    /\ a.at = "idle" => a.op = "none"
    /\ a.at = "waiting" => a.op \in Writes
    /\ a.at = "sent" => a.op # "bare stop" /\ (a.op # "positions" => a.answer = "none")
    /\ a.answer = "refused" => a.at = "done" /\ (a.op = "place" => ~a.arrived)
    /\ a.answer = "done" => a.at = "done" /\ a.arrived
    /\ a.answer = "flat" => a.flat

(* One order and one cancel at the exchange for a call that arrived.         *)
MarketOK(t) ==
    /\ market.placed[t] = IF asks[t].op = "place" /\ asks[t].arrived THEN 1 ELSE 0
    /\ market.cancelled[t] = IF asks[t].op = "cancel" /\ asks[t].arrived THEN 1 ELSE 0

CallsInv ==
    /\ asks \in [Tasks -> Asks]
    /\ market \in [placed : [Tasks -> Nat], cancelled : [Tasks -> Nat], position : Int, trades : Nat]
    /\ \A t \in Tasks : CallOK(asks[t]) /\ MarketOK(t)

LEMMA CallsTruth == CallsInv => ToldTheTruth
  <1> SUFFICES ASSUME CallsInv, NEW t \in Tasks
               PROVE  /\ market.placed[t] <= 1
                      /\ asks[t].at = "done" /\ asks[t].op = "place" /\ asks[t].answer = "done" => market.placed[t] = 1
                      /\ asks[t].at = "done" /\ asks[t].op = "cancel" /\ asks[t].answer = "done" => market.cancelled[t] = 1
                      /\ asks[t].answer = "refused" => market.placed[t] = 0
                      /\ asks[t].at = "done" /\ asks[t].answer = "flat" => asks[t].flat
    BY DEF ToldTheTruth
  <1>1. CallOK(asks[t]) /\ MarketOK(t)
    BY DEF CallsInv
  <1>2. asks[t].answer = "flat" => asks[t].flat
    BY <1>1 DEF CallOK
  <1>3. asks[t].answer = "done" => asks[t].arrived
    BY <1>1 DEF CallOK
  <1>4. asks[t].answer = "refused" => (asks[t].op = "place" => ~asks[t].arrived)
    BY <1>1 DEF CallOK
  <1> QED BY <1>1, <1>2, <1>3, <1>4 DEF MarketOK

LEMMA CallsInit == ZdInit => CallsInv
  <1> SUFFICES ASSUME ZdInit PROVE CallsInv
    OBVIOUS
  <1>1. Silent \in Asks /\ CallOK(Silent)
    BY DEF Silent, Asks, CallOK, Writes
  <1>2. asks \in [Tasks -> Asks] /\ \A t \in Tasks : asks[t] = Silent
    BY <1>1 DEF ZdInit
  <1>3. market \in [placed : [Tasks -> Nat], cancelled : [Tasks -> Nat], position : Int, trades : Nat]
          /\ \A t \in Tasks : market.placed[t] = 0 /\ market.cancelled[t] = 0
    BY DEF ZdInit
  <1>4. \A t \in Tasks : MarketOK(t)
    BY <1>2, <1>3 DEF MarketOK, Silent
  <1> QED BY <1>1, <1>2, <1>3, <1>4 DEF CallsInv

(* Only the call of one task changes, and with it what arrived of it.        *)
LEMMA CallsFrame ==
  ASSUME CallsInv, NEW t \in Tasks, NEW ask \in Asks, CallOK(ask),
         asks' = [asks EXCEPT ![t] = ask],
         market' \in [placed : [Tasks -> Nat], cancelled : [Tasks -> Nat], position : Int, trades : Nat],
         \A u \in Tasks \ {t} : market'.placed[u] = market.placed[u]
                                /\ market'.cancelled[u] = market.cancelled[u],
         market'.placed[t] = (IF ask.op = "place" /\ ask.arrived THEN 1 ELSE 0),
         market'.cancelled[t] = (IF ask.op = "cancel" /\ ask.arrived THEN 1 ELSE 0)
  PROVE  CallsInv'
  <1>1. asks' \in [Tasks -> Asks] /\ asks'[t] = ask /\ \A u \in Tasks \ {t} : asks'[u] = asks[u]
    BY DEF CallsInv
  <1>2. \A u \in Tasks : CallOK(asks'[u])
    BY <1>1 DEF CallsInv
  <1>3. \A u \in Tasks : /\ market'.placed[u] = IF asks'[u].op = "place" /\ asks'[u].arrived THEN 1 ELSE 0
                         /\ market'.cancelled[u] = IF asks'[u].op = "cancel" /\ asks'[u].arrived THEN 1 ELSE 0
    BY <1>1 DEF CallsInv, MarketOK
  <1> QED BY <1>1, <1>2, <1>3 DEF CallsInv, MarketOK, CallOK

(* A call that nothing arrived of, before and after.                         *)
LEMMA CallsQuiet ==
  ASSUME CallsInv, NEW t \in Tasks, NEW ask \in Asks, CallOK(ask),
         asks' = [asks EXCEPT ![t] = ask], market' = market,
         (ask.op = asks[t].op /\ ask.arrived = asks[t].arrived)
           \/ (~ask.arrived /\ (~asks[t].arrived \/ asks[t].op \notin {"place", "cancel"}))
  PROVE  CallsInv'
  <1>1. /\ market.placed[t] = (IF ask.op = "place" /\ ask.arrived THEN 1 ELSE 0)
        /\ market.cancelled[t] = (IF ask.op = "cancel" /\ ask.arrived THEN 1 ELSE 0)
    BY DEF CallsInv, MarketOK
  <1>2. market' \in [placed : [Tasks -> Nat], cancelled : [Tasks -> Nat], position : Int, trades : Nat]
    BY DEF CallsInv
  <1> QED BY <1>1, <1>2, CallsFrame

LEMMA Attempted == ASSUME NEW ask \in Asks PROVE ask.attempt + 1 \in Nat
  <1>1. ask.attempt \in Nat
    BY DEF Asks
  <1> QED BY <1>1

(* What follows the limiter: refused at once, or on its way.                 *)
LEMMA ProceedOK ==
  ASSUME NEW ask \in Asks, ask.op # "none", ~ask.arrived, ask.answer = "none"
  PROVE  /\ Proceed(ask) \in Asks /\ CallOK(Proceed(ask))
         /\ Proceed(ask).op = ask.op /\ ~Proceed(ask).arrived
         /\ Proceed(ask).at \in {"sent", "done"}
  <1>1. ask.op \in Writes \cup {"positions"}
    BY DEF Asks
  <1>2. CASE ask.op = "bare stop"
    <2>1. Proceed(ask) = [ask EXCEPT !.at = "done", !.answer = "refused"]
      BY <1>2 DEF Proceed
    <2> QED BY <1>1, <1>2, <2>1 DEF Asks, CallOK
  <1>3. CASE ask.op # "bare stop" /\ ~session.handle
    <2>1. PICK answer \in {"not done", "refused"} :
             Proceed(ask) = [ask EXCEPT !.at = "done", !.answer = answer]
      BY <1>3 DEF Proceed
    <2> QED BY <1>1, <1>3, <2>1 DEF Asks, CallOK
  <1>4. CASE ask.op # "bare stop" /\ session.handle
    <2>0. ask.attempt + 1 \in Nat
      BY Attempted
    <2>1. PICK n \in Nat : Proceed(ask) = [ask EXCEPT !.at = "sent", !.attempt = n]
      BY <1>4, <2>0 DEF Proceed
    <2>2. Proceed(ask) \in Asks
      BY <2>1 DEF Asks
    <2>3. /\ Proceed(ask).at = "sent" /\ Proceed(ask).answer = "none"
          /\ Proceed(ask).op = ask.op /\ Proceed(ask).arrived = ask.arrived
      BY <2>1 DEF Asks
    <2> QED BY <1>4, <2>2, <2>3 DEF CallOK
  <1> QED BY <1>2, <1>3, <1>4

(* Other calls may learn that they do not wait alone, or that the account    *)
(* was flat meanwhile; neither changes what arrived.                         *)
LEMMA CallsOthers ==
  ASSUME CallsInv, NEW u \in Tasks, NEW b \in BOOLEAN
  PROVE  /\ [asks[u] EXCEPT !.alone = FALSE] \in Asks /\ CallOK([asks[u] EXCEPT !.alone = FALSE])
         /\ [asks[u] EXCEPT !.alone = FALSE].op = asks[u].op
         /\ [asks[u] EXCEPT !.alone = FALSE].arrived = asks[u].arrived
         /\ (asks[u].flat => b) =>
              /\ [asks[u] EXCEPT !.flat = b] \in Asks /\ CallOK([asks[u] EXCEPT !.flat = b])
              /\ [asks[u] EXCEPT !.flat = b].op = asks[u].op
              /\ [asks[u] EXCEPT !.flat = b].arrived = asks[u].arrived
  <1>1. asks[u] \in Asks /\ CallOK(asks[u])
    BY DEF CallsInv
  <1> DEFINE a1 == [asks[u] EXCEPT !.alone = FALSE]
             a2 == [asks[u] EXCEPT !.flat = b]
  <1>2. a1 \in Asks /\ a1.op = asks[u].op /\ a1.arrived = asks[u].arrived /\ a1.at = asks[u].at
          /\ a1.answer = asks[u].answer /\ a1.flat = asks[u].flat
    BY <1>1 DEF Asks
  <1>3. a2 \in Asks /\ a2.op = asks[u].op /\ a2.arrived = asks[u].arrived /\ a2.at = asks[u].at
          /\ a2.answer = asks[u].answer /\ a2.flat = b
    BY <1>1 DEF Asks
  <1> HIDE DEF a1, a2
  <1>4. CallOK(a1)
    BY <1>1, <1>2 DEF CallOK
  <1>5. (asks[u].flat => b) => CallOK(a2)
    BY <1>1, <1>3 DEF CallOK
  <1> QED BY <1>2, <1>3, <1>4, <1>5 DEF a1, a2

-----------------------------------------------------------------------------
(* The limiter                                                               *)

Passes == [time : Nat, alone : BOOLEAN]

(* The stamps st kept at time c are the last of the passes ps; the others are *)
(* a second old, and time goes forward.                                      *)
WindowOf(st, ps, c) ==
    /\ Len(st) <= Len(ps)
    /\ \A k \in 1..Len(st) : st[k] = ps[Len(ps) - Len(st) + k].time
    /\ \A i \in 1..(Len(ps) - Len(st)) : ps[i].time + Second <= c
    /\ \A j \in 1..Len(ps) : ps[j].time <= c
    /\ \A i, j \in 1..Len(ps) : i <= j => ps[i].time <= ps[j].time

QuietIn(ps, q) == q = 1 \/ ps[q].time >= ps[q - 1].time + Second

(* The rate of the passes ps from q on, at the places i and i + Rps.          *)
RateAt(ps, q, i) ==
    /\ q <= i /\ QuietIn(ps, q) /\ \A j \in q..(i + Rps) : ps[j].alone
    => ps[i + Rps].time >= ps[i].time + Second
RateOf(ps) == \A q, i \in 1..Len(ps) : i + Rps \in 1..Len(ps) => RateAt(ps, q, i)

LEMMA PassTimes ==
  ASSUME NEW ps \in Seq(Passes)
  PROVE  Len(ps) \in Nat /\ \A i \in 1..Len(ps) : ps[i] \in Passes /\ ps[i].time \in Nat
  <1>1. \A i \in 1..Len(ps) : ps[i] \in Passes
    BY ElementOfSeq
  <1> QED BY <1>1 DEF Passes

(* What pruning takes off the stamps is old, and what stays is young where   *)
(* it begins.                                                                *)
LEMMA PrunedOf ==
  ASSUME stamps \in Seq(Nat), clock \in Nat
  PROVE  \E k \in 0..Len(stamps) :
           /\ Pruned \in Seq(Nat) /\ Len(Pruned) = Len(stamps) - k
           /\ \A i \in 1..Len(Pruned) : Pruned[i] = stamps[k + i]
           /\ \A i \in 1..k : stamps[i] + Second <= clock
           /\ Len(Pruned) > 0 => clock < Pruned[1] + Second
  <1>0. Second \in Nat /\ Len(stamps) \in Nat /\ DOMAIN stamps = 1..Len(stamps)
          /\ \A i \in 1..Len(stamps) : stamps[i] \in Nat
    BY AdapterAssumption
  <1>1. CASE Fresh = {}
    <2>1. Pruned = <<>>
      BY <1>1 DEF Pruned
    <2>2. Pruned \in Seq(Nat) /\ Len(Pruned) = 0
      BY <2>1
    <2>3. ASSUME NEW i \in 1..Len(stamps) PROVE stamps[i] + Second <= clock
      <3>1. ~(clock - stamps[i] < Second)
        BY <1>0, <1>1 DEF Fresh
      <3> QED BY <1>0, <3>1
    <2>4. Len(stamps) \in 0..Len(stamps) /\ Len(Pruned) = Len(stamps) - Len(stamps)
      BY <1>0, <2>2
    <2>5. \A i \in 1..Len(Pruned) : FALSE
      BY <2>2
    <2> QED BY <2>2, <2>3, <2>4, <2>5
  <1>2. CASE Fresh # {}
    <2>1. PICK m \in Fresh : \A i \in Fresh : m <= i
      <3>1. Fresh \subseteq Nat
        BY <1>0 DEF Fresh
      <3> QED BY <1>2, <3>1, LeastNatural
    <2>2. Min(Fresh) = m
      <3>1. \A x \in Fresh : (\A i \in Fresh : x <= i) => x = m
        BY <1>0, <2>1 DEF Fresh
      <3> QED BY <2>1, <3>1 DEF Min
    <2>3. m \in 1..Len(stamps) /\ clock - stamps[m] < Second
      BY <1>0, <2>1 DEF Fresh
    <2>4. Pruned = SubSeq(stamps, m, Len(stamps))
      BY <1>2, <2>2 DEF Pruned
    <2>5. /\ Pruned \in Seq(Nat) /\ Len(Pruned) = Len(stamps) - m + 1
          /\ \A i \in 1..(Len(stamps) - m + 1) : Pruned[i] = stamps[m + i - 1]
      <3>1. stamps \in Seq(Nat) /\ m \in 1..(Len(stamps) + 1) /\ Len(stamps) \in m-1..Len(stamps)
        BY <1>0, <2>3
      <3>2. /\ SubSeq(stamps, m, Len(stamps)) \in Seq(Nat)
            /\ Len(SubSeq(stamps, m, Len(stamps))) = Len(stamps) - m + 1
            /\ \A i \in 1..(Len(stamps) - m + 1) : SubSeq(stamps, m, Len(stamps))[i] = stamps[m + i - 1]
        BY ONLY <1>0, <2>3, <3>1, SubSeqProperties
      <3> QED BY ONLY <2>4, <3>2
    <2>6. ASSUME NEW i \in 1..(m - 1) PROVE stamps[i] + Second <= clock
      <3>1. i \in 1..Len(stamps) /\ i < m
        BY <1>0, <2>3
      <3>2. i \notin Fresh
        BY <1>0, <2>1, <2>3, <3>1
      <3>3. ~(clock - stamps[i] < Second)
        BY <1>0, <3>1, <3>2 DEF Fresh
      <3> QED BY <1>0, <3>1, <3>3
    <2>7. clock < Pruned[1] + Second
      <3>1. 1 \in 1..(Len(stamps) - m + 1) /\ m + 1 - 1 = m
        BY <1>0, <2>3
      <3>2. Pruned[1] = stamps[m]
        BY <2>5, <3>1
      <3> QED BY <1>0, <2>3, <3>2
    <2> DEFINE k == m - 1
    <2>8. k \in 0..Len(stamps) /\ m = k + 1
      BY <1>0, <2>3
    <2>9. Len(Pruned) = Len(stamps) - k
      BY <1>0, <2>3, <2>5
    <2>10. \A i \in 1..Len(Pruned) : Pruned[i] = stamps[k + i]
      BY <1>0, <2>3, <2>5
    <2>11. \A i \in 1..k : stamps[i] + Second <= clock
      BY <2>6
    <2> HIDE DEF k
    <2> QED BY <2>5, <2>7, <2>8, <2>9, <2>10, <2>11
  <1> QED BY <1>1, <1>2

(* A full window has an oldest stamp, less than a second old.                *)
LEMMA PrunedFull ==
  ASSUME stamps \in Seq(Nat), clock \in Nat, Full(Pruned)
  PROVE  Pruned \in Seq(Nat) /\ Len(Pruned) >= Rps /\ Pruned[1] + Second \in Int /\ clock < Pruned[1] + Second
  <1>1. Pruned \in Seq(Nat) /\ (Len(Pruned) > 0 => clock < Pruned[1] + Second)
    BY PrunedOf
  <1>2. Len(Pruned) \in Nat /\ Len(Pruned) >= Rps /\ Rps \in Nat \ {0} /\ Second \in Nat
    BY <1>1, AdapterAssumption DEF Full
  <1>3. Len(Pruned) > 0 /\ 1 \in 1..Len(Pruned)
    BY <1>2
  <1>4. Pruned[1] \in Nat
    BY <1>1, <1>3, ElementOfSeq
  <1> QED BY <1>1, <1>2, <1>3, <1>4

LEMMA WindowPruned ==
  ASSUME NEW st \in Seq(Nat), NEW ps \in Seq(Passes), NEW c \in Nat, WindowOf(st, ps, c),
         NEW k \in 0..Len(st), NEW rest \in Seq(Nat), Len(rest) = Len(st) - k,
         \A i \in 1..Len(rest) : rest[i] = st[k + i],
         \A i \in 1..k : st[i] + Second <= c
  PROVE  WindowOf(rest, ps, c)
  <1>0. Len(st) \in Nat /\ Len(ps) \in Nat /\ Len(rest) \in Nat /\ k \in Nat /\ Len(rest) = Len(st) - k
    OBVIOUS
  <1>1. Len(rest) <= Len(ps)
    BY <1>0 DEF WindowOf
  <1>2. \A i \in 1..Len(rest) : rest[i] = ps[Len(ps) - Len(rest) + i].time
    <2> SUFFICES ASSUME NEW i \in 1..Len(rest) PROVE rest[i] = ps[Len(ps) - Len(rest) + i].time
      OBVIOUS
    <2>1. k + i \in 1..Len(st) /\ Len(ps) - Len(st) + (k + i) = Len(ps) - Len(rest) + i
      BY <1>0
    <2> QED BY <2>1 DEF WindowOf
  <1>3. \A i \in 1..(Len(ps) - Len(rest)) : ps[i].time + Second <= c
    <2> SUFFICES ASSUME NEW i \in 1..(Len(ps) - Len(rest)) PROVE ps[i].time + Second <= c
      OBVIOUS
    <2>1. CASE i <= Len(ps) - Len(st)
      BY <1>0, <2>1 DEF WindowOf
    <2>2. CASE i > Len(ps) - Len(st)
      <3>1. i - (Len(ps) - Len(st)) \in 1..k
        <4>1. i \in Nat /\ i <= Len(ps) - Len(rest)
          BY <1>0, <1>1
        <4> QED BY <1>0, <2>2, <4>1
      <3>2. st[i - (Len(ps) - Len(st))] = ps[Len(ps) - Len(st) + (i - (Len(ps) - Len(st)))].time
        <4>1. i - (Len(ps) - Len(st)) \in 1..Len(st)
          BY <1>0, <3>1
        <4> QED BY <4>1 DEF WindowOf
      <3>3. Len(ps) - Len(st) + (i - (Len(ps) - Len(st))) = i
        BY <1>0
      <3> QED BY <3>1, <3>2, <3>3
    <2> QED BY <1>0, <2>1, <2>2
  <1> QED BY <1>1, <1>2, <1>3 DEF WindowOf

LEMMA WindowAppended ==
  ASSUME NEW st \in Seq(Nat), NEW ps \in Seq(Passes), NEW c \in Nat, WindowOf(st, ps, c),
         NEW p \in Passes, p.time = c
  PROVE  WindowOf(Append(st, c), Append(ps, p), c)
  <1> DEFINE st2 == Append(st, c)
             ps2 == Append(ps, p)
  <1>0. Len(st) \in Nat /\ Len(ps) \in Nat
    OBVIOUS
  <1>1. Len(st2) = Len(st) + 1 /\ Len(ps2) = Len(ps) + 1
          /\ (\A i \in 1..Len(st) : st2[i] = st[i]) /\ st2[Len(st) + 1] = c
          /\ (\A i \in 1..Len(ps) : ps2[i] = ps[i]) /\ ps2[Len(ps) + 1] = p
    BY AppendProperties
  <1> HIDE DEF st2, ps2
  <1>2. \A k \in 1..Len(st2) : st2[k] = ps2[Len(ps2) - Len(st2) + k].time
    <2> SUFFICES ASSUME NEW k \in 1..Len(st2) PROVE st2[k] = ps2[Len(ps2) - Len(st2) + k].time
      OBVIOUS
    <2>1. CASE k = Len(st) + 1
      BY <1>0, <1>1, <2>1
    <2>2. CASE k # Len(st) + 1
      <3>1. k \in 1..Len(st) /\ Len(ps) - Len(st) + k \in 1..Len(ps)
        BY <1>0, <1>1, <2>2 DEF WindowOf
      <3>2. Len(ps2) - Len(st2) + k = Len(ps) - Len(st) + k
        BY <1>0, <1>1
      <3> QED BY <1>1, <3>1, <3>2 DEF WindowOf
    <2> QED BY <2>1, <2>2
  <1>3. \A i \in 1..(Len(ps2) - Len(st2)) : ps2[i].time + Second <= c
    BY <1>0, <1>1 DEF WindowOf
  <1>4. ASSUME NEW j \in 1..Len(ps2) PROVE ps2[j].time <= c
    <2>1. CASE j = Len(ps) + 1
      BY <1>0, <1>1, <2>1
    <2>2. CASE j # Len(ps) + 1
      <3>1. j \in 1..Len(ps) /\ ps2[j] = ps[j]
        BY <1>1, <2>2
      <3> QED BY <3>1 DEF WindowOf
    <2> QED BY <2>1, <2>2
  <1>5. ASSUME NEW i \in 1..Len(ps2), NEW j \in 1..Len(ps2), i <= j PROVE ps2[i].time <= ps2[j].time
    <2>1. CASE j \in 1..Len(ps)
      <3>1. i \in 1..Len(ps)
        BY <1>0, <1>1, <1>5, <2>1
      <3>2. ps[i].time <= ps[j].time
        BY <1>5, <2>1, <3>1 DEF WindowOf
      <3> QED BY <1>1, <2>1, <3>1, <3>2
    <2>2. CASE j = Len(ps) + 1
      <3>1. ps2[j].time = c
        BY <1>1, <2>2
      <3> QED BY <1>4, <3>1
    <2> QED BY <1>0, <1>1, <2>1, <2>2
  <1>6. Len(st2) <= Len(ps2)
    BY <1>0, <1>1 DEF WindowOf
  <1>7. WindowOf(st2, ps2, c)
    BY <1>2, <1>3, <1>4, <1>5, <1>6 DEF WindowOf
  <1> QED BY <1>7 DEF st2, ps2

LEMMA WindowAged ==
  ASSUME NEW st \in Seq(Nat), NEW ps \in Seq(Passes), NEW c \in Nat, WindowOf(st, ps, c)
  PROVE  WindowOf(st, ps, c + 1)
  <1>1. Second \in Nat /\ Len(ps) \in Nat /\ Len(st) \in Nat /\ \A i \in 1..Len(ps) : ps[i].time \in Nat
    BY AdapterAssumption, PassTimes
  <1>2. \A i \in 1..(Len(ps) - Len(st)) : ps[i].time + Second <= c + 1
    BY <1>1 DEF WindowOf
  <1>3. \A i \in 1..Len(ps) : ps[i].time <= c + 1
    BY <1>1 DEF WindowOf
  <1> QED BY <1>2, <1>3 DEF WindowOf

(* A new pass keeps the rate when it is a second behind the one Rps before   *)
(* it, whenever it and the ones between are alone.                           *)
LEMMA RateAppended ==
  ASSUME NEW ps \in Seq(Passes), RateOf(ps), NEW p \in Passes,
         \A q, i \in 1..Len(ps) :
           /\ i + Rps = Len(ps) + 1 /\ q <= i /\ QuietIn(ps, q) /\ p.alone
           /\ \A j \in q..Len(ps) : ps[j].alone
           => p.time >= ps[i].time + Second
  PROVE  RateOf(Append(ps, p))
  <1> DEFINE ps2 == Append(ps, p)
  <1>0. Len(ps) \in Nat /\ Rps \in Nat \ {0}
    BY AdapterAssumption
  <1>1. Len(ps2) = Len(ps) + 1
          /\ (\A i \in 1..Len(ps) : ps2[i] = ps[i]) /\ ps2[Len(ps) + 1] = p
    BY AppendProperties
  <1> HIDE DEF ps2
  <1>2. ASSUME NEW q \in 1..Len(ps2), NEW i \in 1..Len(ps2), i + Rps \in 1..Len(ps2),
               q <= i, QuietIn(ps2, q), \A j \in q..(i + Rps) : ps2[j].alone
        PROVE  ps2[i + Rps].time >= ps2[i].time + Second
    <2>1. q \in 1..Len(ps) /\ i \in 1..Len(ps)
      BY <1>0, <1>1, <1>2
    <2>2. QuietIn(ps, q)
      BY <1>0, <1>1, <1>2, <2>1 DEF QuietIn
    <2>3. CASE i + Rps <= Len(ps)
      <3>1. ASSUME NEW j \in q..(i + Rps) PROVE ps[j].alone
        <4>1. j \in 1..Len(ps)
          BY <1>0, <2>1, <2>3
        <4>2. ps2[j].alone
          BY <1>2
        <4> QED BY <1>1, <4>1, <4>2
      <3>2. RateAt(ps, q, i)
        BY <1>0, <2>1, <2>3 DEF RateOf
      <3>3. i + Rps \in 1..Len(ps)
        BY <1>0, <2>1, <2>3
      <3> QED BY <1>1, <1>2, <2>1, <2>2, <3>1, <3>2, <3>3 DEF RateAt
    <2>4. CASE i + Rps = Len(ps) + 1
      <3>1. \A j \in q..Len(ps) : ps[j].alone
        BY <1>0, <1>1, <1>2, <2>1, <2>4
      <3>2. p.alone
        BY <1>0, <1>1, <1>2, <2>1, <2>4
      <3> QED BY <1>1, <1>2, <2>1, <2>2, <2>4, <3>1, <3>2
    <2>5. i + Rps <= Len(ps) + 1 /\ i + Rps \in Nat
      BY <1>0, <1>1, <1>2
    <2>6. i + Rps <= Len(ps) \/ i + Rps = Len(ps) + 1
      BY <1>0, <2>5
    <2> QED BY <2>3, <2>4, <2>6
  <1>3. RateOf(ps2)
    BY <1>2 DEF RateOf, RateAt
  <1> QED BY <1>3 DEF ps2

(* A caller that finds a place in the window passes at once.                 *)
LEMMA RateDirect ==
  ASSUME NEW rest \in Seq(Nat), NEW ps \in Seq(Passes), NEW c \in Nat, WindowOf(rest, ps, c),
         Len(rest) < Rps, RateOf(ps), NEW p \in Passes, p.time = c
  PROVE  RateOf(Append(ps, p))
  <1>0. Len(ps) \in Nat /\ Len(rest) \in Nat /\ Rps \in Nat \ {0}
    BY AdapterAssumption
  <1>1. \A i \in 1..Len(ps) : i + Rps = Len(ps) + 1 => p.time >= ps[i].time + Second
    BY <1>0, AdapterAssumption DEF WindowOf, Passes
  <1> QED BY <1>1, RateAppended

LEMMA NotBoth == ASSUME NEW a \in Nat, NEW b \in Nat, NEW s \in Nat, a >= b + s, a < b + s PROVE FALSE
  OBVIOUS
LEMMA Carried ==
  ASSUME NEW a \in Nat, NEW b \in Nat, NEW d \in Nat, NEW s \in Nat, a >= b + s, d <= b PROVE a >= d + s
  OBVIOUS

(* One that waited alone passes when the oldest of a window as large as the  *)
(* rate allows is a second old: were it larger, two of it that are as many   *)
(* places apart would be less than a second apart.                           *)
LEMMA RateWaited ==
  ASSUME NEW st \in Seq(Nat), NEW ps \in Seq(Passes), NEW c \in Nat, WindowOf(st, ps, c),
         Len(st) >= Rps, c >= st[1] + Second, \A j \in 1..Len(ps) : ps[j].time < st[1] + Second,
         RateOf(ps), NEW p \in Passes, p.time = c
  PROVE  RateOf(Append(ps, p))
  <1>0. /\ Len(ps) \in Nat /\ Len(st) \in Nat /\ Rps \in Nat \ {0} /\ Second \in Nat \ {0}
        /\ \A j \in 1..Len(ps) : ps[j].time \in Nat
    BY AdapterAssumption, PassTimes
  <1> DEFINE first == Len(ps) - Len(st) + 1
  <1>1. first \in 1..Len(ps) /\ st[1] = ps[first].time
    BY <1>0 DEF WindowOf
  <1>2. ASSUME NEW q \in 1..Len(ps), NEW i \in 1..Len(ps), i + Rps = Len(ps) + 1, q <= i,
               QuietIn(ps, q), \A j \in q..Len(ps) : ps[j].alone
        PROVE  p.time >= ps[i].time + Second
    <2>1. CASE first = i
      BY <1>1, <2>1
    <2>2. CASE first # i
      <3>0. first < i /\ first + Rps \in 1..Len(ps)
        <4>1. Len(ps) + 1 - Rps = i /\ first <= i
          BY <1>0, <1>2
        <4> HIDE DEF first
        <4> QED BY <1>0, <1>1, <1>2, <2>2, <4>1
      <3>1. CASE q <= first
        <4>1. RateAt(ps, q, first)
          BY <1>1, <3>0 DEF RateOf
        <4>2. \A j \in q..(first + Rps) : ps[j].alone
          BY <1>0, <1>1, <1>2, <3>0
        <4>3. ps[first + Rps].time >= ps[first].time + Second
          BY <1>2, <3>1, <4>1, <4>2 DEF RateAt
        <4>4. ps[first + Rps].time < st[1] + Second
          BY <3>0
        <4>5. ps[first + Rps].time \in Nat /\ ps[first].time \in Nat
          BY <1>0, <1>1, <3>0
        <4> QED BY <1>0, <1>1, <4>3, <4>4, <4>5, NotBoth
      <3>2. CASE q > first
        <4>1. ps[q].time >= ps[q - 1].time + Second /\ q - 1 \in 1..Len(ps) /\ first <= q - 1
          BY <1>0, <1>1, <1>2, <3>2 DEF QuietIn
        <4>2. ps[first].time <= ps[q - 1].time
          BY <1>1, <4>1 DEF WindowOf
        <4>3. ps[q].time < ps[first].time + Second
          BY <1>1
        <4>4. ps[q].time \in Nat /\ ps[q - 1].time \in Nat /\ ps[first].time \in Nat
          BY <1>0, <1>1, <4>1
        <4>5. ps[q].time >= ps[first].time + Second
          <5> HIDE DEF first
          <5> QED BY <1>0, <4>1, <4>2, <4>4, Carried
        <4> QED BY <1>0, <4>3, <4>4, <4>5, NotBoth
      <3> QED BY <1>0, <1>1, <3>1, <3>2
    <2> QED BY <2>1, <2>2
  <1> QED BY <1>2, RateAppended

-----------------------------------------------------------------------------
(* Every step tells the truth                                                *)

LEMMA AsksWrite ==
  ASSUME NEW op \in Writes, NEW b \in BOOLEAN
  PROVE  LET ask == [Silent EXCEPT !.op = op, !.alone = b]
         IN ask \in Asks /\ ask.op = op /\ ~ask.arrived /\ ask.answer = "none" /\ ask.at = "idle" /\ ask.alone = b
  <1> DEFINE ask == [Silent EXCEPT !.op = op, !.alone = b]
  <1>0. ask = [Silent EXCEPT !.op = op, !.alone = b]
    OBVIOUS
  <1> HIDE DEF ask
  <1>1. ask = [op |-> op, at |-> "idle", wake |-> 0, attempt |-> 0, arrived |-> FALSE, alone |-> b,
               flat |-> FALSE, answer |-> "none"]
    BY <1>0 DEF Silent
  <1>2. ask \in Asks
    BY <1>1 DEF Asks
  <1>3. ask.op = op /\ ask.arrived = FALSE /\ ask.answer = "none" /\ ask.at = "idle" /\ ask.alone = b
    BY <1>1
  <1> QED BY <1>2, <1>3 DEF ask

LEMMA AskCalls ==
  ASSUME CallsInv, stamps \in Seq(Nat), clock \in Nat, NEW t \in Tasks, Ask(t) PROVE CallsInv'
  <1>1. PICK op \in Writes :
         LET ask == [Silent EXCEPT !.op = op, !.alone = Waiting = {}] IN
         \/ /\ Full(Pruned)
            /\ asks' = [u \in Tasks |-> IF u = t THEN [ask EXCEPT !.at = "waiting", !.wake = Pruned[1] + Second]
                                     ELSE IF u \in Waiting THEN [asks[u] EXCEPT !.alone = FALSE] ELSE asks[u]]
         \/ asks' = [u \in Tasks |-> IF u = t THEN Proceed(ask)
                                     ELSE IF u \in Waiting THEN [asks[u] EXCEPT !.alone = FALSE] ELSE asks[u]]
    BY DEF Ask
  <1> DEFINE ask == [Silent EXCEPT !.op = op, !.alone = Waiting = {}]
  <1>2. /\ ask \in Asks /\ ask.op = op /\ ask.op # "none" /\ ~ask.arrived /\ ask.answer = "none"
        /\ ask.at = "idle" /\ op \in Writes
    BY AsksWrite, <1>1, ZenonT(60) DEF Writes
  <1> HIDE DEF ask
  <1>3. PICK new \in Asks :
          /\ asks' = [u \in Tasks |-> IF u = t THEN new
                                      ELSE IF u \in Waiting THEN [asks[u] EXCEPT !.alone = FALSE] ELSE asks[u]]
          /\ CallOK(new) /\ ~new.arrived
    <2>1. CASE asks' = [u \in Tasks |-> IF u = t THEN Proceed(ask)
                                     ELSE IF u \in Waiting THEN [asks[u] EXCEPT !.alone = FALSE] ELSE asks[u]]
      BY <1>2, <2>1, ProceedOK
    <2>2. CASE /\ Full(Pruned)
               /\ asks' = [u \in Tasks |-> IF u = t THEN [ask EXCEPT !.at = "waiting", !.wake = Pruned[1] + Second]
                                     ELSE IF u \in Waiting THEN [asks[u] EXCEPT !.alone = FALSE] ELSE asks[u]]
      <3> DEFINE new == [ask EXCEPT !.at = "waiting", !.wake = Pruned[1] + Second]
      <3>1. Pruned[1] + Second \in Int
        BY <2>2, PrunedFull
      <3>2. new \in Asks /\ new.at = "waiting" /\ new.op = op /\ ~new.arrived /\ new.answer = "none"
        BY <1>2, <3>1 DEF Asks
      <3> HIDE DEF new
      <3>3. CallOK(new)
        BY <1>2, <3>2 DEF CallOK
      <3> QED BY <2>2, <3>2, <3>3 DEF new
    <2> QED BY <1>1, <2>1, <2>2 DEF ask
  <1>4. market' = market /\ asks[t].at = "idle"
    BY DEF Ask
  <1>5. asks' \in [Tasks -> Asks]
    BY <1>3, CallsOthers DEF CallsInv
  <1>6. \A u \in Tasks : CallOK(asks'[u])
    BY <1>3, CallsOthers DEF CallsInv
  <1>7. \A u \in Tasks \ {t} : asks'[u].op = asks[u].op /\ asks'[u].arrived = asks[u].arrived
    BY <1>3, CallsOthers
  <1>8. ~asks[t].arrived /\ ~asks'[t].arrived
    BY <1>3, <1>4 DEF CallsInv, CallOK
  <1>9. \A u \in Tasks : MarketOK(u)'
    BY <1>4, <1>7, <1>8 DEF CallsInv, MarketOK
  <1> QED BY <1>4, <1>5, <1>6, <1>9 DEF CallsInv, CallOK

LEMMA WakeCalls == ASSUME CallsInv, NEW t \in Tasks, Wake(t) PROVE CallsInv'
  <1>1. asks[t] \in Asks /\ CallOK(asks[t]) /\ asks[t].at = "waiting"
    BY DEF CallsInv, Wake
  <1>2. asks[t].op # "none" /\ ~asks[t].arrived /\ asks[t].answer = "none"
    BY <1>1 DEF CallOK, Writes
  <1>3. /\ Proceed(asks[t]) \in Asks /\ CallOK(Proceed(asks[t]))
        /\ Proceed(asks[t]).op = asks[t].op /\ ~Proceed(asks[t]).arrived
    BY <1>1, <1>2, ProceedOK
  <1>4. asks' = [asks EXCEPT ![t] = Proceed(asks[t])] /\ market' = market
    BY DEF Wake
  <1> QED BY <1>2, <1>3, <1>4, CallsQuiet

LEMMA AsksPositions ==
  ASSUME NEW f \in BOOLEAN
  PROVE  LET ask == [Silent EXCEPT !.op = "positions", !.flat = f]
         IN ask \in Asks /\ ask.op = "positions" /\ ~ask.arrived /\ ask.answer = "none"
  <1> DEFINE ask == [Silent EXCEPT !.op = "positions", !.flat = f]
  <1>0. ask = [Silent EXCEPT !.op = "positions", !.flat = f]
    OBVIOUS
  <1> HIDE DEF ask
  <1>1. ask = [op |-> "positions", at |-> "idle", wake |-> 0, attempt |-> 0, arrived |-> FALSE, alone |-> TRUE,
               flat |-> f, answer |-> "none"]
    BY <1>0 DEF Silent
  <1>2. ask \in Asks
    BY <1>1 DEF Asks
  <1>3. ask.op = "positions" /\ ask.arrived = FALSE /\ ask.answer = "none"
    BY <1>1
  <1> QED BY <1>2, <1>3 DEF ask

LEMMA AskPositionsCalls == ASSUME CallsInv, NEW t \in Tasks, AskPositions(t) PROVE CallsInv'
  <1> DEFINE ask == [Silent EXCEPT !.op = "positions", !.flat = market.position = 0]
  <1>1. asks' = [asks EXCEPT ![t] = Proceed(ask)] /\ market' = market /\ asks[t].at = "idle"
    BY DEF AskPositions
  <1>2. ask \in Asks /\ ask.op = "positions" /\ ~ask.arrived /\ ask.answer = "none"
    <2>1. (market.position = 0) \in BOOLEAN
      OBVIOUS
    <2> QED BY <2>1, AsksPositions
  <1> HIDE DEF ask
  <1>3. Proceed(ask) \in Asks /\ CallOK(Proceed(ask)) /\ ~Proceed(ask).arrived
    BY <1>2, ProceedOK
  <1>4. ~asks[t].arrived
    BY <1>1 DEF CallsInv, CallOK
  <1> QED BY <1>1, <1>3, <1>4, CallsQuiet

(* A request takes effect at the exchange once.                              *)
LEMMA CallsArrived ==
  ASSUME CallsInv, NEW t \in Tasks, NEW ask \in Asks, CallOK(ask), ask.arrived, ask.op = asks[t].op,
         ~asks[t].arrived, asks' = [asks EXCEPT ![t] = ask],
         market' = [market EXCEPT !.placed[t] = IF asks[t].op = "place" THEN @ + 1 ELSE @,
                                  !.cancelled[t] = IF asks[t].op = "cancel" THEN @ + 1 ELSE @]
  PROVE  CallsInv'
  <1>1. market \in [placed : [Tasks -> Nat], cancelled : [Tasks -> Nat], position : Int, trades : Nat]
          /\ market.placed[t] = 0 /\ market.cancelled[t] = 0
    BY DEF CallsInv, MarketOK
  <1>2. PICK p \in Nat : p = IF asks[t].op = "place" THEN 1 ELSE 0
    OBVIOUS
  <1>3. PICK k \in Nat : k = IF asks[t].op = "cancel" THEN 1 ELSE 0
    OBVIOUS
  <1> DEFINE pl == [market.placed EXCEPT ![t] = p]
             ca == [market.cancelled EXCEPT ![t] = k]
  <1>4. market' = [market EXCEPT !.placed = pl, !.cancelled = ca]
    BY <1>1, <1>2, <1>3
  <1>5. /\ market' \in [placed : [Tasks -> Nat], cancelled : [Tasks -> Nat], position : Int, trades : Nat]
        /\ market'.placed[t] = p /\ market'.cancelled[t] = k
        /\ \A u \in Tasks \ {t} : market'.placed[u] = market.placed[u] /\ market'.cancelled[u] = market.cancelled[u]
    <2>1. /\ market' \in [placed : [Tasks -> Nat], cancelled : [Tasks -> Nat], position : Int, trades : Nat]
          /\ market'.placed = pl /\ market'.cancelled = ca
      <3>1. pl \in [Tasks -> Nat] /\ ca \in [Tasks -> Nat]
        BY <1>1
      <3> HIDE DEF pl, ca
      <3> QED BY <1>1, <1>4, <3>1
    <2> QED BY <1>1, <2>1
  <1>6. /\ market'.placed[t] = (IF ask.op = "place" /\ ask.arrived THEN 1 ELSE 0)
        /\ market'.cancelled[t] = (IF ask.op = "cancel" /\ ask.arrived THEN 1 ELSE 0)
    BY <1>2, <1>3, <1>5
  <1> QED BY <1>5, <1>6, CallsFrame

LEMMA ArriveCalls == ASSUME CallsInv, NEW t \in Tasks, Arrive(t) PROVE CallsInv' /\ asks'[t].at # "waiting"
  <1>1. asks[t] \in Asks /\ CallOK(asks[t]) /\ asks[t].at = "sent" /\ ~asks[t].arrived
    BY DEF CallsInv, Arrive
  <1>2. PICK f \in BOOLEAN : f = (asks[t].flat \/ (Reads(t) /\ market.position = 0))
    OBVIOUS
  <1>3. PICK r : r = IF Reads(t) THEN IF market.position = 0 THEN "flat" ELSE "held" ELSE asks[t].answer
    OBVIOUS
  <1>4. asks' = [asks EXCEPT ![t] = [asks[t] EXCEPT !.arrived = TRUE, !.flat = f, !.answer = r]]
    <2>1. asks \in [Tasks -> Asks]
      BY DEF CallsInv
    <2> QED BY <1>2, <1>3, <2>1 DEF Arrive, Asks
  <1> DEFINE ask == [asks[t] EXCEPT !.arrived = TRUE, !.flat = f, !.answer = r]
  <1>5. r \in {"none", "refused", "not done", "unknown", "done", "flat", "held"}
    BY <1>1, <1>3 DEF Asks
  <1>6. /\ ask \in Asks /\ ask.op = asks[t].op /\ ask.at = asks[t].at /\ ask.arrived
        /\ ask.flat = f /\ ask.answer = r
    BY <1>1, <1>2, <1>5 DEF Asks
  <1> HIDE DEF ask
  <1>7. r = "flat" => f
    BY <1>1, <1>2, <1>3 DEF CallOK
  <1>8. CallOK(ask)
    BY <1>1, <1>3, <1>6, <1>7 DEF CallOK, Reads
  <1>9. market' = [market EXCEPT !.placed[t] = IF asks[t].op = "place" THEN @ + 1 ELSE @,
                                 !.cancelled[t] = IF asks[t].op = "cancel" THEN @ + 1 ELSE @]
    BY DEF Arrive
  <1>10. asks' = [asks EXCEPT ![t] = ask]
    BY <1>4 DEF ask
  <1>11. asks'[t].at # "waiting"
    BY <1>1, <1>6, <1>10 DEF CallsInv
  <1> QED BY <1>1, <1>6, <1>8, <1>9, <1>10, CallsArrived, <1>11

LEMMA ArriveLateCalls == ASSUME CallsInv, NEW t \in Tasks, ArriveLate(t) PROVE CallsInv' /\ asks'[t].at # "waiting"
  <1>1. asks[t] \in Asks /\ CallOK(asks[t]) /\ asks[t].at = "done" /\ ~asks[t].arrived
          /\ asks[t].answer \in {"unknown", "not done"}
    BY DEF CallsInv, ArriveLate
  <1> DEFINE ask == [asks[t] EXCEPT !.arrived = TRUE]
  <1>2. asks' = [asks EXCEPT ![t] = ask]
    BY DEF CallsInv, ArriveLate
  <1>3. /\ ask \in Asks /\ ask.op = asks[t].op /\ ask.at = asks[t].at /\ ask.arrived
        /\ ask.answer = asks[t].answer
    BY <1>1 DEF Asks
  <1> HIDE DEF ask
  <1>4. CallOK(ask)
    BY <1>1, <1>3 DEF CallOK
  <1>5. market' = [market EXCEPT !.placed[t] = IF asks[t].op = "place" THEN @ + 1 ELSE @,
                                 !.cancelled[t] = IF asks[t].op = "cancel" THEN @ + 1 ELSE @]
    BY DEF ArriveLate
  <1>11. asks'[t].at # "waiting"
    BY <1>1, <1>2, <1>3 DEF CallsInv
  <1> QED BY <1>1, <1>2, <1>3, <1>4, <1>5, CallsArrived, <1>11

LEMMA AnswerCalls == ASSUME CallsInv, NEW t \in Tasks, Answer(t) PROVE CallsInv' /\ asks'[t].at # "waiting"
  <1>1. asks[t] \in Asks /\ CallOK(asks[t]) /\ asks[t].at = "sent" /\ asks[t].arrived
    BY DEF CallsInv, Answer
  <1>2. PICK whole \in BOOLEAN :
          asks' = [asks EXCEPT ![t].at = "done",
                     ![t].answer = IF ~Reads(t) THEN "done" ELSE IF whole THEN @ ELSE "refused"]
    BY DEF Answer
  <1>3. PICK r : r = IF ~Reads(t) THEN "done" ELSE IF whole THEN asks[t].answer ELSE "refused"
    OBVIOUS
  <1> DEFINE ask == [asks[t] EXCEPT !.at = "done", !.answer = r]
  <1>4. asks' = [asks EXCEPT ![t] = ask]
    <2>1. asks \in [Tasks -> Asks]
      BY DEF CallsInv
    <2> QED BY <1>2, <1>3, <2>1 DEF Asks
  <1>5. r \in {"none", "refused", "not done", "unknown", "done", "flat", "held"}
    BY <1>1, <1>3 DEF Asks
  <1>6. /\ ask \in Asks /\ ask.op = asks[t].op /\ ask.arrived = asks[t].arrived /\ ask.at = "done"
        /\ ask.flat = asks[t].flat /\ ask.answer = r
    BY <1>1, <1>5 DEF Asks
  <1> HIDE DEF ask
  <1>7. r = "flat" => asks[t].flat
    BY <1>1, <1>3 DEF CallOK
  <1>8. r = "refused" => asks[t].op # "place"
    BY <1>1, <1>3 DEF Reads, CallOK
  <1>9. CallOK(ask)
    BY <1>1, <1>6, <1>7, <1>8 DEF CallOK
  <1>10. market' = market
    BY DEF Answer
  <1>11. asks'[t].at # "waiting"
    BY <1>4, <1>6 DEF CallsInv
  <1> QED BY <1>4, <1>6, <1>9, <1>10, CallsQuiet, <1>11

LEMMA FailCalls == ASSUME CallsInv, NEW t \in Tasks, Fail(t) PROVE CallsInv'
  <1>1. asks[t] \in Asks /\ CallOK(asks[t]) /\ asks[t].at = "sent"
    BY DEF CallsInv, Fail
  <1>2. asks' = [asks EXCEPT ![t] = Failed(asks[t])] /\ market' = market
    BY DEF Fail
  <1>3. CASE asks[t].op = "positions" /\ asks[t].attempt < Attempts
    <2>0. asks[t].attempt + 1 \in Nat
      BY <1>1, Attempted
    <2>1. PICK n \in Nat : Failed(asks[t]) = [asks[t] EXCEPT !.attempt = n, !.arrived = FALSE, !.answer = "none"]
      BY <1>3, <2>0 DEF Failed
    <2>2. /\ Failed(asks[t]) \in Asks /\ Failed(asks[t]).op = "positions" /\ Failed(asks[t]).at = "sent"
          /\ ~Failed(asks[t]).arrived /\ Failed(asks[t]).answer = "none"
      BY <1>1, <1>3, <2>1 DEF Asks
    <2>3. CallOK(Failed(asks[t]))
      BY <2>2 DEF CallOK
    <2> QED BY <1>2, <1>3, <2>2, <2>3, CallsQuiet
  <1>4. CASE ~(asks[t].op = "positions" /\ asks[t].attempt < Attempts)
    <2>1. PICK r \in {"refused", "not done", "unknown"} :
            /\ Failed(asks[t]) = [asks[t] EXCEPT !.at = "done", !.answer = r]
            /\ r = "refused" => asks[t].op = "positions"
      BY <1>4 DEF Failed
    <2>2. /\ Failed(asks[t]) \in Asks /\ Failed(asks[t]).op = asks[t].op /\ Failed(asks[t]).at = "done"
          /\ Failed(asks[t]).arrived = asks[t].arrived /\ Failed(asks[t]).answer = r
      BY <1>1, <2>1 DEF Asks
    <2>3. CallOK(Failed(asks[t]))
      BY <2>1, <2>2 DEF CallOK
    <2> QED BY <1>2, <2>2, <2>3, CallsQuiet
  <1> QED BY <1>3, <1>4

LEMMA TradeCalls == ASSUME CallsInv, Trade PROVE CallsInv'
  <1>1. PICK b \in BOOLEAN : b = (market.position = 1)
    OBVIOUS
  <1>2. asks' = [t \in Tasks |-> IF Reads(t) /\ asks[t].at = "sent" THEN [asks[t] EXCEPT !.flat = asks[t].flat \/ b]
                                 ELSE asks[t]]
    BY <1>1 DEF Trade
  <1>3. \A t \in Tasks : asks'[t] \in Asks /\ CallOK(asks'[t])
                          /\ asks'[t].op = asks[t].op /\ asks'[t].arrived = asks[t].arrived
    <2> SUFFICES ASSUME NEW t \in Tasks
                 PROVE  asks'[t] \in Asks /\ CallOK(asks'[t])
                          /\ asks'[t].op = asks[t].op /\ asks'[t].arrived = asks[t].arrived
      OBVIOUS
    <2> DEFINE f == asks[t].flat \/ b
    <2>1. f \in BOOLEAN /\ (asks[t].flat => f)
      OBVIOUS
    <2>2. asks'[t] = asks[t] \/ asks'[t] = [asks[t] EXCEPT !.flat = f]
      BY <1>2
    <2> HIDE DEF f
    <2>3. asks[t] \in Asks /\ CallOK(asks[t])
      BY DEF CallsInv
    <2> QED BY <2>1, <2>2, <2>3, CallsOthers
  <1>4. asks' \in [Tasks -> Asks]
    <2>1. asks' = [t \in Tasks |-> asks'[t]]
      BY <1>2
    <2> QED BY <1>3, <2>1
  <1>5. /\ market' \in [placed : [Tasks -> Nat], cancelled : [Tasks -> Nat], position : Int, trades : Nat]
        /\ market'.placed = market.placed /\ market'.cancelled = market.cancelled
    <2>1. market.trades \in Nat /\ market.position \in Int
      BY DEF CallsInv
    <2>2. market' = [market EXCEPT !.position = 1 - market.position, !.trades = market.trades + 1]
      BY DEF Trade
    <2>3. 1 - market.position \in Int /\ market.trades + 1 \in Nat
      BY <2>1
    <2> QED BY <2>2, <2>3 DEF CallsInv
  <1>6. \A t \in Tasks : MarketOK(t)'
    BY <1>3, <1>5 DEF CallsInv, MarketOK
  <1> QED BY <1>3, <1>4, <1>5, <1>6 DEF CallsInv, CallOK

LEMMA StutterCalls == ASSUME CallsInv, UNCHANGED <<asks, market>> PROVE CallsInv'
  BY DEF CallsInv, CallOK, MarketOK

-----------------------------------------------------------------------------
(* Every step keeps the rate                                                 *)

(* One that waits with no other: as many stamps as the rate allows, the      *)
(* oldest of them what it waits for, and nothing passed since it was due.    *)
WaitsAlone(t) ==
    /\ \A u \in Tasks \ {t} : asks[u].at # "waiting"
    /\ Len(stamps) >= Rps /\ asks[t].wake = stamps[1] + Second
    /\ \A j \in 1..Len(passed) : passed[j].time < stamps[1] + Second

RateInv ==
    /\ stamps \in Seq(Nat) /\ passed \in Seq(Passes) /\ clock \in Nat
    /\ WindowOf(stamps, passed, clock) /\ RateOf(passed)
    /\ \A t \in Tasks : asks[t].at = "waiting" /\ asks[t].alone => WaitsAlone(t)

LEMMA RateInit == ZdInit => RateInv
  <1> SUFFICES ASSUME ZdInit PROVE RateInv
    OBVIOUS
  <1>1. stamps = <<>> /\ passed = <<>> /\ clock = 0 /\ \A t \in Tasks : asks[t].at = "idle"
    BY DEF ZdInit, Silent
  <1>2. stamps \in Seq(Nat) /\ passed \in Seq(Passes) /\ Len(stamps) = 0 /\ Len(passed) = 0
    BY <1>1
  <1>3. WindowOf(stamps, passed, clock) /\ RateOf(passed)
    BY <1>1, <1>2 DEF WindowOf, RateOf
  <1> QED BY <1>1, <1>2, <1>3 DEF RateInv

(* Nobody passes, nothing is pruned, and nobody starts to wait.              *)
LEMMA RateFrame ==
  ASSUME RateInv, UNCHANGED <<stamps, clock, passed>>,
         \A u \in Tasks : asks'[u].at = "waiting" => asks'[u] = asks[u]
  PROVE  RateInv'
  <1>1. ASSUME NEW t \in Tasks, asks'[t].at = "waiting", asks'[t].alone PROVE WaitsAlone(t)'
    <2>1. WaitsAlone(t) /\ asks'[t] = asks[t]
      BY <1>1 DEF RateInv
    <2> QED BY <2>1 DEF WaitsAlone
  <1> QED BY <1>1 DEF RateInv

(* Whoever waits after the step does not wait alone.                         *)
LEMMA RatePassed ==
  ASSUME RateInv, stamps' \in Seq(Nat), passed' \in Seq(Passes), clock' = clock,
         WindowOf(stamps', passed', clock), RateOf(passed'),
         \A u \in Tasks : asks'[u].at = "waiting" => asks'[u].alone = FALSE
  PROVE  RateInv'
  BY DEF RateInv

LEMMA AskRate == ASSUME CallsInv, RateInv, NEW t \in Tasks, Ask(t) PROVE RateInv'
  <1>1. stamps \in Seq(Nat) /\ passed \in Seq(Passes) /\ clock \in Nat
          /\ WindowOf(stamps, passed, clock) /\ RateOf(passed)
    BY DEF RateInv
  <1>2. Pruned \in Seq(Nat) /\ WindowOf(Pruned, passed, clock)
    BY <1>1, PrunedOf, WindowPruned
  <1>3. PICK op \in Writes :
         LET ask == [Silent EXCEPT !.op = op, !.alone = Waiting = {}] IN
         \/ /\ Full(Pruned)
            /\ asks' = [u \in Tasks |-> IF u = t THEN [ask EXCEPT !.at = "waiting", !.wake = Pruned[1] + Second]
                                        ELSE IF u \in Waiting THEN [asks[u] EXCEPT !.alone = FALSE] ELSE asks[u]]
            /\ stamps' = Pruned /\ passed' = passed
         \/ /\ ~Full(Pruned)
            /\ asks' = [u \in Tasks |-> IF u = t THEN Proceed(ask)
                                        ELSE IF u \in Waiting THEN [asks[u] EXCEPT !.alone = FALSE] ELSE asks[u]]
            /\ stamps' = Append(Pruned, clock)
            /\ passed' = Append(passed, [time |-> clock, alone |-> ask.alone])
    BY DEF Ask
  <1> DEFINE ask == [Silent EXCEPT !.op = op, !.alone = Waiting = {}]
  <1>4. clock' = clock
    BY DEF Ask
  <1>5. ask \in Asks /\ ask.op = op /\ ask.op # "none" /\ ~ask.arrived /\ ask.answer = "none"
          /\ ask.alone = (Waiting = {})
    BY AsksWrite, ZenonT(60) DEF Writes
  <1> HIDE DEF ask
  <1>6. CASE /\ Full(Pruned)
             /\ asks' = [u \in Tasks |-> IF u = t THEN [ask EXCEPT !.at = "waiting", !.wake = Pruned[1] + Second]
                                         ELSE IF u \in Waiting THEN [asks[u] EXCEPT !.alone = FALSE] ELSE asks[u]]
             /\ stamps' = Pruned /\ passed' = passed
    <2>1. asks'[t] = [ask EXCEPT !.at = "waiting", !.wake = Pruned[1] + Second]
      BY <1>6
    <2>2. asks'[t].alone = (Waiting = {}) /\ asks'[t].wake = Pruned[1] + Second
      BY <1>5, <2>1 DEF Asks
    <2>3. ASSUME NEW u \in Tasks, u # t, asks'[u].at = "waiting" PROVE u \in Waiting /\ asks'[u].alone = FALSE
      <3>1. asks[u] \in Asks
        BY DEF CallsInv
      <3>2. CASE u \in Waiting
        BY <1>6, <2>3, <3>1, <3>2 DEF Asks
      <3>3. CASE u \notin Waiting
        BY <1>6, <2>3, <3>3 DEF Waiting
      <3> QED BY <3>2, <3>3
    <2>4. Len(Pruned) >= Rps /\ Pruned[1] + Second \in Int /\ clock < Pruned[1] + Second
      BY <1>1, <1>6, PrunedFull
    <2>5. \A j \in 1..Len(passed) : passed[j].time < Pruned[1] + Second
      <3>1. \A j \in 1..Len(passed) : passed[j].time <= clock /\ passed[j].time \in Nat
        BY <1>1, PassTimes DEF WindowOf
      <3> QED BY <1>1, <2>4, <3>1
    <2>6. ASSUME NEW u \in Tasks, asks'[u].at = "waiting", asks'[u].alone PROVE WaitsAlone(u)'
      <3>1. u = t
        BY <2>3, <2>6
      <3>2. \A v \in Tasks \ {t} : asks'[v].at # "waiting"
        BY <2>2, <2>3, <2>6, <3>1
      <3> QED BY <1>6, <2>2, <2>4, <2>5, <3>1, <3>2 DEF WaitsAlone
    <2> QED BY <1>1, <1>2, <1>4, <1>6, <2>6 DEF RateInv
  <1>7. CASE /\ ~Full(Pruned)
             /\ asks' = [u \in Tasks |-> IF u = t THEN Proceed(ask)
                                         ELSE IF u \in Waiting THEN [asks[u] EXCEPT !.alone = FALSE] ELSE asks[u]]
             /\ stamps' = Append(Pruned, clock)
             /\ passed' = Append(passed, [time |-> clock, alone |-> ask.alone])
    <2> DEFINE p == [time |-> clock, alone |-> ask.alone]
    <2>1. p \in Passes /\ p.time = clock
      BY <1>1, <1>5 DEF Passes
    <2> HIDE DEF p
    <2>2. stamps' \in Seq(Nat) /\ passed' \in Seq(Passes) /\ passed' = Append(passed, p)
      BY <1>1, <1>2, <1>7, <2>1 DEF p
    <2>3. WindowOf(stamps', passed', clock)
      BY <1>1, <1>2, <1>7, <2>1, <2>2, WindowAppended
    <2>4. Len(Pruned) < Rps
      BY <1>2, <1>7, AdapterAssumption DEF Full
    <2>5. RateOf(passed')
      BY <1>1, <1>2, <2>1, <2>2, <2>4, RateDirect
    <2>6. \A u \in Tasks : asks'[u].at = "waiting" => asks'[u].alone = FALSE
      <3> SUFFICES ASSUME NEW u \in Tasks, asks'[u].at = "waiting" PROVE asks'[u].alone = FALSE
        OBVIOUS
      <3>1. asks[u] \in Asks
        BY DEF CallsInv
      <3>2. asks'[t].at # "waiting"
        BY <1>5, <1>7, ProceedOK
      <3>3. CASE u \in Waiting
        BY <1>7, <3>1, <3>2, <3>3 DEF Asks
      <3>4. CASE u \notin Waiting
        BY <1>7, <3>2, <3>4 DEF Waiting
      <3> QED BY <3>3, <3>4
    <2> QED BY <1>4, <2>2, <2>3, <2>5, <2>6, RatePassed
  <1> QED BY <1>3, <1>6, <1>7 DEF ask

LEMMA WakeRate == ASSUME CallsInv, RateInv, NEW t \in Tasks, Wake(t) PROVE RateInv'
  <1>1. stamps \in Seq(Nat) /\ passed \in Seq(Passes) /\ clock \in Nat
          /\ WindowOf(stamps, passed, clock) /\ RateOf(passed)
    BY DEF RateInv
  <1>2. asks[t] \in Asks /\ CallOK(asks[t]) /\ asks[t].at = "waiting" /\ clock >= asks[t].wake
    BY DEF CallsInv, Wake
  <1>3. /\ asks' = [asks EXCEPT ![t] = Proceed(asks[t])] /\ stamps' = Append(stamps, clock)
        /\ passed' = Append(passed, [time |-> clock, alone |-> asks[t].alone]) /\ clock' = clock
    BY DEF Wake
  <1> DEFINE p == [time |-> clock, alone |-> asks[t].alone]
  <1>4. p \in Passes /\ p.time = clock /\ p.alone = asks[t].alone
    BY <1>1, <1>2 DEF Passes, Asks
  <1> HIDE DEF p
  <1>5. stamps' \in Seq(Nat) /\ passed' \in Seq(Passes) /\ passed' = Append(passed, p)
    BY <1>1, <1>3, <1>4 DEF p
  <1>6. WindowOf(stamps', passed', clock)
    BY <1>1, <1>3, <1>4, <1>5, WindowAppended
  <1>7. RateOf(passed')
    <2>1. CASE asks[t].alone
      <3>1. WaitsAlone(t)
        BY <1>2, <2>1 DEF RateInv
      <3>2. Len(stamps) >= Rps /\ clock >= stamps[1] + Second
              /\ \A j \in 1..Len(passed) : passed[j].time < stamps[1] + Second
        BY <1>2, <3>1 DEF WaitsAlone
      <3> QED BY <1>1, <1>4, <1>5, <3>2, RateWaited
    <2>2. CASE ~asks[t].alone
      BY <1>1, <1>4, <1>5, <2>2, RateAppended
    <2> QED BY <2>1, <2>2
  <1>8. \A u \in Tasks : asks'[u].at = "waiting" => asks'[u].alone = FALSE
    <2> SUFFICES ASSUME NEW u \in Tasks, asks'[u].at = "waiting" PROVE asks'[u].alone = FALSE
      OBVIOUS
    <2>1. asks \in [Tasks -> Asks]
      BY DEF CallsInv
    <2>2. asks[t].op # "none" /\ ~asks[t].arrived /\ asks[t].answer = "none"
      BY <1>2 DEF CallOK, Writes
    <2>3. asks'[t].at # "waiting"
      BY <1>2, <1>3, <2>1, <2>2, ProceedOK
    <2>4. u # t /\ asks'[u] = asks[u]
      BY <1>3, <2>1, <2>3
    <2>5. ~(asks[u].alone)
      BY <1>2, <2>4 DEF RateInv, WaitsAlone
    <2>6. asks[u].alone \in BOOLEAN
      BY <2>1 DEF Asks
    <2> QED BY <2>4, <2>5, <2>6
  <1> QED BY <1>3, <1>5, <1>6, <1>7, <1>8, RatePassed

LEMMA PassRate == ASSUME RateInv, Pass PROVE RateInv'
  <1>1. stamps \in Seq(Nat) /\ passed \in Seq(Passes) /\ clock \in Nat
          /\ WindowOf(stamps, passed, clock) /\ RateOf(passed)
    BY DEF RateInv
  <1>2. clock' = clock + 1 /\ UNCHANGED <<stamps, passed, asks>>
    BY DEF Pass
  <1>3. WindowOf(stamps, passed, clock + 1)
    BY <1>1, WindowAged
  <1>4. clock' \in Nat /\ WindowOf(stamps', passed', clock')
    BY <1>1, <1>2, <1>3
  <1>5. \A t \in Tasks : WaitsAlone(t) => WaitsAlone(t)'
    BY <1>2 DEF WaitsAlone
  <1> QED BY <1>2, <1>4, <1>5 DEF RateInv

-----------------------------------------------------------------------------
(* The adapter                                                               *)

AdapterInv == CallsInv /\ RateInv

LEMMA AdapterStep == ASSUME AdapterInv, [ZdNext]_zdVars PROVE AdapterInv'
  <1>0. CallsInv /\ RateInv /\ stamps \in Seq(Nat) /\ clock \in Nat /\ asks \in [Tasks -> Asks]
    BY DEF AdapterInv, RateInv, CallsInv
  <1>1. CASE Connect \/ Disconnect \/ ExchangeToken \/ TokenExpires \/ UNCHANGED zdVars
    <2>1. UNCHANGED <<stamps, asks, clock, passed, market>>
      BY <1>1 DEF Connect, Disconnect, ExchangeToken, TokenExpires, zdVars
    <2>2. CallsInv'
      BY <1>0, <2>1, StutterCalls
    <2>3. RateInv'
      BY <1>0, <2>1, RateFrame
    <2> QED BY <2>2, <2>3 DEF AdapterInv
  <1>2. CASE Pass
    BY <1>0, <1>2, StutterCalls, PassRate DEF AdapterInv, Pass
  <1>3. CASE Trade
    <2>1. \A u \in Tasks : asks'[u].at = "waiting" => asks'[u] = asks[u]
      <3> SUFFICES ASSUME NEW u \in Tasks, asks'[u].at = "waiting" PROVE asks'[u] = asks[u]
        OBVIOUS
      <3>1. asks[u] \in Asks
        BY <1>0
      <3>2. CASE Reads(u) /\ asks[u].at = "sent"
        BY <1>3, <3>1, <3>2 DEF Trade, Asks
      <3>3. CASE ~(Reads(u) /\ asks[u].at = "sent")
        BY <1>3, <3>3 DEF Trade
      <3> QED BY <3>2, <3>3
    <2>2. RateInv'
      BY <1>0, <1>3, <2>1, RateFrame DEF Trade
    <2> QED BY <1>0, <1>3, <2>2, TradeCalls DEF AdapterInv
  <1>4. ASSUME NEW t \in Tasks, Ask(t) PROVE AdapterInv'
    BY <1>0, <1>4, AskCalls, AskRate DEF AdapterInv
  <1>5. ASSUME NEW t \in Tasks, Wake(t) PROVE AdapterInv'
    BY <1>0, <1>5, WakeCalls, WakeRate DEF AdapterInv
  <1>6. ASSUME NEW t \in Tasks, AskPositions(t) \/ Arrive(t) \/ Answer(t) \/ Fail(t) \/ ArriveLate(t)
        PROVE  AdapterInv'
    <2>1. CallsInv'
      BY <1>0, <1>6, AskPositionsCalls, ArriveCalls, AnswerCalls, FailCalls, ArriveLateCalls
    <2>2. UNCHANGED <<stamps, clock, passed>> /\ \A u \in Tasks \ {t} : asks'[u] = asks[u]
      BY <1>0, <1>6 DEF AskPositions, Arrive, Answer, Fail, ArriveLate
    <2>3. asks'[t].at # "waiting"
      <3>1. CASE AskPositions(t)
        <4> DEFINE ask == [Silent EXCEPT !.op = "positions", !.flat = market.position = 0]
        <4>1. ask \in Asks /\ ask.op = "positions" /\ ~ask.arrived /\ ask.answer = "none"
          <5>1. (market.position = 0) \in BOOLEAN
            OBVIOUS
          <5> QED BY <5>1, AsksPositions
        <4>2. asks'[t] = Proceed(ask)
          BY <1>0, <3>1 DEF AskPositions
        <4> HIDE DEF ask
        <4> QED BY <4>1, <4>2, ProceedOK
      <3>2. CASE Fail(t)
        <4>1. asks[t] \in Asks /\ asks[t].at = "sent" /\ asks'[t] = Failed(asks[t])
          BY <1>0, <3>2 DEF Fail
        <4> QED BY <4>1 DEF Failed, Asks
      <3>3. CASE Arrive(t) \/ ArriveLate(t) \/ Answer(t)
        BY <1>0, <3>3, ArriveCalls, ArriveLateCalls, AnswerCalls
      <3> QED BY <1>6, <3>1, <3>2, <3>3
    <2>4. RateInv'
      BY <1>0, <2>2, <2>3, RateFrame
    <2> QED BY <2>1, <2>4 DEF AdapterInv
  <1> QED BY <1>1, <1>2, <1>3, <1>4, <1>5, <1>6 DEF ZdNext

LEMMA RateHeld == RateInv => RateHeldAlone
  <1> SUFFICES ASSUME RateInv, NEW q \in DOMAIN passed, NEW i \in DOMAIN passed,
                      q <= i, Quiet(q), i + Rps \in DOMAIN passed,
                      \A j \in q..(i + Rps) : passed[j].alone
               PROVE  passed[i + Rps].time >= passed[i].time + Second
    BY DEF RateHeldAlone
  <1>1. DOMAIN passed = 1..Len(passed)
    BY DEF RateInv
  <1>2. RateAt(passed, q, i)
    BY <1>1 DEF RateInv, RateOf
  <1>3. QuietIn(passed, q)
    BY DEF Quiet, QuietIn
  <1> QED BY <1>2, <1>3 DEF RateAt

(* For any number of tasks and any rate: what a caller of the live adapter is told (answered, *)
(* refused, flat) is what happened at the exchange, however requests and answers are lost and  *)
(* late, and the limiter keeps its rate as long as nobody waits beside another.              *)
THEOREM AdapterTrue == ZdSpec => []AdapterHolds
  <1>1. ZdInit => AdapterInv
    BY CallsInit, RateInit DEF AdapterInv
  <1>2. AdapterInv /\ [ZdNext]_zdVars => AdapterInv'
    BY AdapterStep
  <1>3. AdapterInv => AdapterHolds
    BY CallsTruth, RateHeld DEF AdapterInv, AdapterHolds
  <1> QED BY <1>1, <1>2, <1>3, PTL DEF ZdSpec

-----------------------------------------------------------------------------
(* QUOTES                                                                    *)

-----------------------------------------------------------------------------
(* Days and moments                                                         *)

LEMMA DayAndMoment ==
  ASSUME NEW t \in Nat
  PROVE  /\ DayOf(t) \in Nat /\ t % DayLength \in 0..(DayLength - 1)
         /\ t = DayOf(t) * DayLength + (t % DayLength)
<1>. DEFINE L == DayLength
<1>. L \in Nat /\ L >= 2
  BY QuotesAssumption
<1>. HIDE DEF L
<1>1. t \div L \in Nat /\ t % L \in 0..(L - 1)
  OBVIOUS
<1>2. t % L = t - L * (t \div L)
  OBVIOUS
<1>3. t = (t \div L) * L + (t % L)
  BY <1>1, <1>2
<1>. QED
  BY <1>1, <1>3 DEF DayOf, L

(* A later day is at least a day's length later.                            *)
LEMMA DaysApart ==
  ASSUME NEW a \in Int, NEW b \in Int, a < b
  PROVE  a * DayLength + DayLength <= b * DayLength
<1>. DayLength \in Nat
  BY QuotesAssumption
<1>1. (b - a - 1) * DayLength >= 0
  BY b - a - 1 \in Nat
<1>2. (b - a - 1) * DayLength = b * DayLength - a * DayLength - DayLength
  OBVIOUS
<1>. QED
  BY <1>1, <1>2

(* The day of an instant within it.                                          *)
LEMMA DayIs ==
  ASSUME NEW d \in Nat, NEW m \in 0..(DayLength - 1)
  PROVE  DayOf(d * DayLength + m) = d
<1>. DEFINE t == d * DayLength + m
<1>1. t \in Nat
  BY QuotesAssumption
<1>2. DayOf(t) \in Nat /\ t % DayLength \in 0..(DayLength - 1) /\ t = DayOf(t) * DayLength + (t % DayLength)
  BY <1>1, DayAndMoment
<1>3. ~ d < DayOf(t)
  BY <1>2, DaysApart, QuotesAssumption
<1>4. ~ DayOf(t) < d
  BY <1>2, DaysApart, QuotesAssumption
<1>. QED
  BY <1>2, <1>3, <1>4

LEMMA DaysInOrder ==
  ASSUME NEW t \in Nat, NEW u \in Nat, t <= u
  PROVE  DayOf(t) <= DayOf(u)
<1>1. DayOf(t) \in Nat /\ t % DayLength \in 0..(DayLength - 1) /\ t = DayOf(t) * DayLength + (t % DayLength)
  BY DayAndMoment
<1>2. DayOf(u) \in Nat /\ u % DayLength \in 0..(DayLength - 1) /\ u = DayOf(u) * DayLength + (u % DayLength)
  BY DayAndMoment
<1>. QED
  BY <1>1, <1>2, DaysApart, QuotesAssumption

-----------------------------------------------------------------------------
(* What is known of a quote                                                  *)

BarBefore(bar, day) == bar.day \in Nat /\ bar.day < day

(* A close of the daily feed, of a day before t.                              *)
ClosedBefore(q, t) ==
    \E day \in Nat : /\ day < DayOf(t)
                     /\ q.seen = day * DayLength + SessionEnd
Quoted(q) == q = [price |-> q.price, stamp |-> q.stamp, seen |-> q.seen, traded |-> q.traded]
Daily(q, t) == Quoted(q) /\ ClosedBefore(q, t) /\ q.stamp = q.seen

(* What the mock ticks answer at t: no later than that, and for a fill no older     *)
(* than the feed lets a price become, unless it is of an earlier day.           *)
FromTicks(q, t, use) ==
    /\ q.stamp \in Int /\ q.stamp <= t
    /\ q.seen \in Nat
    /\ use = "fill" /\ feeding = "alive" /\ DayOf(q.seen) = DayOf(t) => t - q.seen <= MaxAge

Rightly(o, q) ==
    \/ q = None
    \/ o.via = "ticks" /\ feeding # "unarmed" /\ FromTicks(q, moment, o.use)
    \/ o.via = "provider" /\ Daily(q, moment)

-----------------------------------------------------------------------------
(* The invariant                                                             *)

FilesOld == \A s \in Stocks : files[s] # None => BarBefore(files[s].bar, files[s].on)
CacheOld == \A s \in Stocks : quoteCache[s] # None => Daily(quoteCache[s].quote, moment)

AskingOK(o) ==
    /\ o.stock \in Stocks /\ o.asked \in Nat /\ FirstMoment <= o.asked /\ o.asked <= moment
    /\ o.via \in {"ticks", "provider"} /\ (o.via = "ticks" => feeding # "unarmed")
    /\ o.use \in {"reference", "fill", "read"}
    /\ o.file # None => BarBefore(o.file, DayOf(o.asked))
ApprovedOK(o) == o.stock \in Stocks /\ (o.type = "MARKET" => o.via # "provider")
PricedLive(o) ==
    o.outcome = "priced" =>
        /\ feeding # "unarmed"
        /\ feeding = "alive" /\ DayOf(o.quote.seen) = DayOf(o.when) => o.when - o.quote.seen <= MaxAge
RefusedOld(o) ==
    o.outcome = "stale" /\ o.type = "MARKET" => o.quote = None \/ o.when - o.quote.stamp > MaxAge
OrdererOK(o) ==
    /\ o.at \in {"idle", "asking", "approved", "done"}
    /\ o.at = "asking" => AskingOK(o)
    /\ o.at = "approved" => ApprovedOK(o)
    /\ o.at = "done" => PricedLive(o) /\ RefusedOld(o)

(* The feed passes in every moment of a session it lives through.              *)
FeedOK ==
    /\ feeding \in {"unarmed", "alive", "dead"}
    /\ lastPass \in Nat /\ lastPass <= moment
    /\ lastPass # 0 => MarketOpen(lastPass) /\ feeding # "unarmed"
    /\ \A s \in Stocks : lastTick[s] # None => lastTick[s].at = lastPass /\ lastPass # 0
    /\ feeding = "alive" /\ MarketOpen(moment) /\ lastPass # 0 /\ DayOf(lastPass) = DayOf(moment)
         => moment - lastPass <= 1

QtInv ==
    /\ moment \in Nat /\ FirstMoment <= moment
    /\ ages = [s \in Stocks |-> ages[s]] /\ caller = [c \in Orderers |-> caller[c]]
    /\ files = [s \in Stocks |-> files[s]] /\ quoteCache = [s \in Stocks |-> quoteCache[s]]
    /\ FilesOld /\ CacheOld /\ FeedOK
    /\ \A c \in Orderers : OrdererOK(caller[c])

LEMMA QtStart == QtInit => QtInv
<1>. SUFFICES ASSUME QtInit PROVE QtInv
  OBVIOUS
<1>1. moment \in Nat /\ FirstMoment <= moment
  BY QuotesAssumption DEF QtInit
<1>2. \A c \in Orderers : OrdererOK(caller[c])
  BY DEF QtInit, OrdererOK, Resting
<1>3. FeedOK
  BY <1>1 DEF QtInit, FeedOK
<1>. QED
  BY <1>1, <1>2, <1>3 DEF QtInit, QtInv, FilesOld, CacheOld

-----------------------------------------------------------------------------
(* Old closes                                                                *)

LEMMA StaysBefore ==
  ASSUME NEW q, NEW t \in Nat, NEW u \in Nat, t <= u, ClosedBefore(q, t)
  PROVE  ClosedBefore(q, u)
<1>1. DayOf(t) \in Nat /\ DayOf(u) \in Nat /\ DayOf(t) <= DayOf(u)
  BY DaysInOrder, DayAndMoment
<1>. QED
  BY <1>1 DEF ClosedBefore

(* It was seen on an earlier day, and in a session it is too old.              *)
LEMMA BeforeIsOld ==
  ASSUME NEW q, NEW t \in Nat, ClosedBefore(q, t)
  PROVE  /\ q.seen \in Nat /\ q.seen <= t /\ DayOf(q.seen) < DayOf(t)
         /\ MarketOpen(t) => t - q.seen > MaxAge
<1>1. PICK day \in Nat : day < DayOf(t) /\ q.seen = day * DayLength + SessionEnd
  BY DEF ClosedBefore
<1>2. DayLength \in Nat /\ SessionEnd \in 0..(DayLength - 1) /\ MaxAge \in Nat /\ SessionEnd + MaxAge < DayLength
  BY QuotesAssumption
<1>3. DayOf(q.seen) = day
  BY <1>1, <1>2, DayIs
<1>4. DayOf(t) \in Nat /\ t % DayLength \in 0..(DayLength - 1) /\ t = DayOf(t) * DayLength + (t % DayLength)
  BY DayAndMoment
<1>5. day * DayLength + DayLength <= DayOf(t) * DayLength
  BY <1>1, <1>4, DaysApart
<1>6. day * DayLength \in Nat /\ DayOf(t) * DayLength \in Nat
  BY <1>2, <1>4
<1>7. q.seen \in Nat /\ q.seen <= t
  BY <1>1, <1>2, <1>4, <1>5, <1>6
<1>8. MarketOpen(t) => t - q.seen > MaxAge
  BY <1>1, <1>2, <1>4, <1>5, <1>6 DEF MarketOpen
<1>. QED
  BY <1>1, <1>3, <1>7, <1>8

(* A bar makes a quote of its day.                                           *)
LEMMA BarQuotes ==
  ASSUME NEW bar, NEW t \in Nat, BarBefore(bar, DayOf(t))
  PROVE  Daily(QuoteOf(bar, t), t)
BY DEF Daily, Quoted, ClosedBefore, QuoteOf, BarTimestamp, BarBefore

LEMMA VendorIsOld ==
  ASSUME NEW t \in Nat, FirstMoment <= t, NEW bar \in VendorBars(t)
  PROVE  BarBefore(bar, DayOf(t))
<1>1. DayOf(t) \in Nat /\ t % DayLength \in 0..(DayLength - 1) /\ t = DayOf(t) * DayLength + (t % DayLength)
  BY DayAndMoment
<1>2. DayOf(t) >= 2
  <2>1. DayOf(t) <= 1 => DayOf(t) * DayLength <= DayLength
    BY <1>1, QuotesAssumption
  <2>. QED
    BY <1>1, <2>1, QuotesAssumption
<1>. QED
  BY <1>1, <1>2 DEF BarBefore, VendorBars

-----------------------------------------------------------------------------
(* Answers                                                                   *)

Inquires(o) ==
    /\ o.stock \in Stocks /\ o.via \in {"ticks", "provider"}
    /\ o.use \in {"reference", "fill", "read"}

LEMMA StampInt ==
  ASSUME NEW o, NEW q, q # None, Rightly(o, q), moment \in Nat
  PROVE  q.stamp \in Int /\ q.stamp <= moment
BY BeforeIsOld DEF Rightly, Daily, FromTicks

(* In a session the daily feed's close is stale.                              *)
LEMMA ProviderIsStale ==
  ASSUME NEW o, NEW q, q # None, Rightly(o, q), moment \in Nat,
         o.via = "provider", MarketOpen(moment)
  PROVE  moment - q.stamp > MaxAge
BY BeforeIsOld DEF Rightly, Daily

LEMMA FinishedIs ==
  ASSUME NEW o, NEW q, NEW outcome
  PROVE  Finished(o, outcome, q).at = "done" /\ Finished(o, outcome, q).outcome = outcome
BY DEF Finished

LEMMA PricedOK ==
  ASSUME NEW o, NEW q, Inquires(o), Rightly(o, q), moment \in Nat,
         ages = [s \in Stocks |-> ages[s]]
  PROVE  OrdererOK(Priced(o, q))
<1>. DEFINE known == IF q = None THEN ages ELSE Recorded(o.stock, q)
            p == Priced(o, q)
<1>1. q # None => known[o.stock] = moment - q.stamp /\ q.stamp \in Int /\ q.stamp <= moment
  BY StampInt DEF Recorded, Inquires
<1>2. CASE IsStaleTick(known, o.stock)
  <2>1. p = Finished(o, "stale", q)
    BY <1>2 DEF Priced
  <2>2. q # None => moment - q.stamp > MaxAge
    BY <1>1, <1>2 DEF IsStaleTick, Never
  <2>3. p.at = "done" /\ p.outcome = "stale" /\ p.quote = q /\ p.when = moment
    BY <2>1 DEF Finished
  <2>. QED
    BY <2>2, <2>3 DEF OrdererOK, PricedLive, RefusedOld
<1>3. CASE ~IsStaleTick(known, o.stock) /\ q = None
  <2>1. p = Finished(o, "no_quote", q)
    BY <1>3 DEF Priced
  <2>2. p.at = "done" /\ p.outcome = "no_quote"
    BY <2>1, FinishedIs
  <2>3. p.outcome # "priced" /\ p.outcome # "stale"
    BY <2>2
  <2>. QED
    BY <2>2, <2>3 DEF OrdererOK, PricedLive, RefusedOld
<1>4. CASE ~IsStaleTick(known, o.stock) /\ q # None
  <2>1. p = Gated(o, known, q)
    BY <1>4 DEF Priced
  <2>2. CASE MarketOpen(moment)
    <3>1. o.via # "provider"
      BY <1>1, <1>4, <2>2, ProviderIsStale DEF IsStaleTick
    <3>2. p = [Finished(o, "approved", q) EXCEPT !.at = "approved"]
      BY <1>4, <2>1, <2>2 DEF Gated
    <3>3. p.at = "approved" /\ p.stock = o.stock /\ p.via = o.via
      BY <3>2 DEF Finished
    <3>. QED
      BY <3>1, <3>3 DEF OrdererOK, ApprovedOK, Inquires
  <2>3. CASE ~MarketOpen(moment)
    <3>1. p = Finished(o, "blocked", q)
      BY <2>1, <2>3 DEF Gated
    <3>. QED
      BY <3>1 DEF OrdererOK, PricedLive, RefusedOld, Finished
  <2>. QED
    BY <2>2, <2>3
<1>. QED
  BY <1>2, <1>3, <1>4

LEMMA SnapshotOK ==
  ASSUME NEW o, NEW q, Inquires(o), Rightly(o, q), o.use = "fill", moment \in Nat
  PROVE  OrdererOK(Snapshot(o, q))
<1>. DEFINE p == Snapshot(o, q)
<1>1. CASE Usable(o, q) = None
  BY <1>1 DEF Snapshot, Finished, OrdererOK, PricedLive, RefusedOld
<1>2. CASE Usable(o, q) # None
  <2>1. q # None /\ o.via = "ticks" /\ feeding # "unarmed" /\ FromTicks(q, moment, "fill")
    BY <1>2 DEF Usable, Inquires, Rightly
  <2>2. CASE moment - q.stamp > MaxAge
    <3>1. p = Finished(o, "stale", q)
      BY <1>2, <2>2 DEF Snapshot
    <3>. QED
      BY <2>2, <3>1 DEF Finished, OrdererOK, PricedLive, RefusedOld
  <2>3. CASE ~(moment - q.stamp > MaxAge) /\ ~q.traded
    <3>1. p = Finished(o, "no_liquidity", q)
      BY <1>2, <2>3 DEF Snapshot
    <3>2. p.at = "done" /\ p.outcome = "no_liquidity"
      BY <3>1, FinishedIs
    <3>3. p.outcome # "priced" /\ p.outcome # "stale"
      BY <3>2
    <3>. QED
      BY <3>2, <3>3 DEF OrdererOK, PricedLive, RefusedOld
  <2>4. CASE ~(moment - q.stamp > MaxAge) /\ q.traded
    <3>1. p = Finished(o, "priced", q)
      BY <1>2, <2>4 DEF Snapshot
    <3>2. p.at = "done" /\ p.outcome = "priced" /\ p.quote = q /\ p.when = moment
      BY <3>1 DEF Finished
    <3>. QED
      BY <2>1, <3>2 DEF OrdererOK, PricedLive, RefusedOld, FromTicks
  <2>. QED
    BY <2>2, <2>3, <2>4
<1>. QED
  BY <1>1, <1>2

LEMMA UseOK ==
  ASSUME NEW o, NEW q, Inquires(o), Rightly(o, q), moment \in Nat,
         ages = [s \in Stocks |-> ages[s]]
  PROVE  OrdererOK(Use(o, q))
<1>1. CASE o.use = "reference"
  BY <1>1, PricedOK DEF Use
<1>2. CASE o.use = "fill"
  BY <1>2, SnapshotOK DEF Use
<1>3. CASE o.use = "read"
  BY <1>3 DEF Use, Resting, OrdererOK
<1>. QED
  BY <1>1, <1>2, <1>3 DEF Inquires

LEMMA AgesStay ==
  ASSUME NEW o, NEW q, ages = [s \in Stocks |-> ages[s]]
  PROVE  AgesAfter(o, q) = [s \in Stocks |-> AgesAfter(o, q)[s]]
BY DEF AgesAfter, Recorded

-----------------------------------------------------------------------------
(* What stays as it was                                                      *)

(* Time and the life of the feed disturb no call.                             *)
LEMMA CallStays ==
  ASSUME NEW o, OrdererOK(o), moment \in Nat, moment' \in Nat, moment <= moment',
         feeding \in {"unarmed", "alive", "dead"},
         feeding' # "unarmed" \/ feeding' = feeding, feeding' = "alive" => feeding # "dead"
  PROVE  OrdererOK(o)'
<1>1. AskingOK(o) => AskingOK(o)'
  BY DEF AskingOK
<1>2. ApprovedOK(o) => ApprovedOK(o)'
  BY DEF ApprovedOK
<1>3. PricedLive(o) => PricedLive(o)'
  BY DEF PricedLive
<1>4. RefusedOld(o) => RefusedOld(o)'
  BY DEF RefusedOld
<1>. QED
  BY <1>1, <1>2, <1>3, <1>4 DEF OrdererOK

(* One call moved, the feed and the clock did not.                            *)
LEMMA OneCallMoved ==
  ASSUME QtInv, NEW c \in Orderers, NEW o, OrdererOK(o),
         caller' = [caller EXCEPT ![c] = o], UNCHANGED <<moment, feeding, lastTick, lastPass>>,
         ages' = [s \in Stocks |-> ages'[s]],
         files' = [s \in Stocks |-> files'[s]], quoteCache' = [s \in Stocks |-> quoteCache'[s]],
         FilesOld', CacheOld'
  PROVE  QtInv'
<1>1. \A x \in Orderers : OrdererOK(caller'[x])
  BY DEF QtInv
<1>2. \A x \in Orderers : OrdererOK(caller[x])'
  BY <1>1 DEF OrdererOK, AskingOK, ApprovedOK, PricedLive, RefusedOld
<1>3. FeedOK'
  BY DEF QtInv, FeedOK
<1>4. caller' = [x \in Orderers |-> caller'[x]]
  BY DEF QtInv
<1>. QED
  BY <1>2, <1>3, <1>4 DEF QtInv

-----------------------------------------------------------------------------
(* Every step                                                                *)

LEMMA RestampedIs ==
  ASSUME NEW q, NEW t, Quoted(q)
  PROVE  Restamped(q, t).stamp = t /\ Restamped(q, t).seen = q.seen
BY DEF Restamped, Quoted

(* An old close under a new stamp.                                           *)
LEMMA RestampedFromTicks ==
  ASSUME NEW q, NEW use, moment \in Nat, Daily(q, moment), NEW asked \in Nat, asked <= moment
  PROVE  FromTicks(Restamped(q, asked), moment, use)
<1>1. q.seen \in Nat /\ DayOf(q.seen) < DayOf(moment) /\ Restamped(q, asked).stamp = asked
      /\ Restamped(q, asked).seen = q.seen
  BY BeforeIsOld, RestampedIs DEF Daily
<1>2. DayOf(q.seen) # DayOf(moment)
  BY <1>1, DayAndMoment
<1>. QED
  BY <1>1, <1>2 DEF FromTicks

(* The last tick is of this session, or of another day.                        *)
LEMMA TickFromTicks ==
  ASSUME QtInv, NEW s \in Stocks, lastTick[s] # None, NEW use, use = "fill" => MarketOpen(moment)
  PROVE  FromTicks(TickQuote(s), moment, use)
<1>1. TickQuote(s).stamp = moment /\ TickQuote(s).seen = lastPass /\ lastPass # 0
  BY DEF TickQuote, QtInv, FeedOK
<1>2. MaxAge \in Nat /\ 1 <= MaxAge
  BY QuotesAssumption
<1>. QED
  BY <1>1, <1>2 DEF FromTicks, QtInv, FeedOK

LEMMA AnsweredKeeps ==
  ASSUME QtInv, NEW c \in Orderers, NEW o, NEW q, Inquires(o), Rightly(o, q), Answered(c, o, q),
         UNCHANGED <<moment, feeding, lastTick, lastPass>>,
         files' = [s \in Stocks |-> files'[s]], quoteCache' = [s \in Stocks |-> quoteCache'[s]],
         FilesOld', CacheOld'
  PROVE  QtInv'
<1>1. OrdererOK(Use(o, q)) /\ caller' = [caller EXCEPT ![c] = Use(o, q)]
  BY UseOK DEF QtInv, Answered
<1>2. ages' = [s \in Stocks |-> ages'[s]]
  BY AgesStay DEF Answered, QtInv
<1>. QED
  BY <1>1, <1>2, OneCallMoved

LEMMA GetQuoteKeeps ==
  ASSUME QtInv, NEW c \in Orderers, NEW s \in Stocks, NEW type, NEW use \in {"reference", "fill", "read"},
         use = "fill" => MarketOpen(moment), GetQuote(c, s, type, use),
         UNCHANGED <<moment, feeding, lastTick, lastPass>>
  PROVE  QtInv'
<1>. DEFINE via == IF Armed THEN "ticks" ELSE "provider"
            file == IF files[s] # None /\ files[s].on = DayOf(moment) THEN files[s].bar ELSE None
            o == [at |-> "asking", use |-> use, stock |-> s, type |-> type, via |-> via, asked |-> moment,
                  file |-> file]
            q == quoteCache[s].quote
<1>1. files' = files /\ quoteCache' = quoteCache /\ moment \in Nat /\ FirstMoment <= moment
  BY DEF GetQuote, QtInv
<1>2. files' = [x \in Stocks |-> files'[x]] /\ quoteCache' = [x \in Stocks |-> quoteCache'[x]]
      /\ FilesOld' /\ CacheOld'
  BY <1>1 DEF QtInv, FilesOld, CacheOld, Daily, ClosedBefore, Quoted
<1>3. Inquires(o) /\ o.use = use /\ o.via = via
  BY DEF Inquires
<1>4. CASE Armed /\ lastTick[s] # None
  <2>1. Answered(c, o, TickQuote(s))
    BY <1>4 DEF GetQuote
  <2>2. Rightly(o, TickQuote(s))
    BY <1>3, <1>4, TickFromTicks DEF Rightly, Armed
  <2>. QED
    BY <1>2, <1>3, <2>1, <2>2, AnsweredKeeps
<1>5. CASE ~(Armed /\ lastTick[s] # None) /\ Cached(s)
  <2>1. Daily(q, moment)
    BY <1>5 DEF Cached, QtInv, CacheOld
  <2>2. CASE Armed
    <3>1. Answered(c, o, Restamped(q, moment))
      BY <1>5, <2>2 DEF GetQuote
    <3>2. Rightly(o, Restamped(q, moment))
      BY <1>1, <1>3, <2>1, <2>2, RestampedFromTicks DEF Rightly, Armed
    <3>. QED
      BY <1>2, <1>3, <3>1, <3>2, AnsweredKeeps
  <2>3. CASE ~Armed
    <3>1. Answered(c, o, q)
      BY <1>5, <2>3 DEF GetQuote
    <3>2. Rightly(o, q)
      BY <1>3, <2>1, <2>3 DEF Rightly
    <3>. QED
      BY <1>2, <1>3, <3>1, <3>2, AnsweredKeeps
  <2>. QED
    BY <2>2, <2>3
<1>6. CASE ~(Armed /\ lastTick[s] # None) /\ ~Cached(s)
  <2>1. caller' = [caller EXCEPT ![c] = o] /\ ages' = ages
    BY <1>6 DEF GetQuote
  <2>2. file # None => BarBefore(file, DayOf(moment))
    BY DEF QtInv, FilesOld
  <2>3. AskingOK(o)
    BY <1>1, <2>2 DEF AskingOK, Armed
  <2>4. OrdererOK(o)
    BY <2>3 DEF OrdererOK
  <2>5. ages' = [x \in Stocks |-> ages'[x]]
    BY <2>1 DEF QtInv
  <2>. HIDE DEF o
  <2>. QED
    BY <1>2, <2>1, <2>4, <2>5, OneCallMoved
<1>. QED
  BY <1>4, <1>5, <1>6

LEMMA ProviderKeeps ==
  ASSUME QtInv, NEW c \in Orderers, ProviderAnswers(c)
  PROVE  QtInv'
<1>. DEFINE o == caller[c]
<1>1. o.at = "asking" /\ AskingOK(o) /\ Inquires(o) /\ moment \in Nat
  BY DEF ProviderAnswers, QtInv, OrdererOK, AskingOK, Inquires
<1>2. UNCHANGED <<moment, feeding, lastTick, lastPass>>
  BY DEF ProviderAnswers, feedVars
<1>3. PICK bar \in IF o.file # None THEN {o.file} ELSE VendorBars(o.asked) :
        LET q == QuoteOf(bar, o.asked) IN
        /\ files' = IF o.file # None THEN files
                    ELSE [files EXCEPT ![o.stock] = [on |-> DayOf(o.asked), bar |-> bar]]
        /\ quoteCache' = [quoteCache EXCEPT ![o.stock] = [at |-> o.asked, quote |-> q]]
        /\ Answered(c, o, IF o.via = "ticks" THEN Restamped(q, o.asked) ELSE q)
  BY DEF ProviderAnswers
<1>. DEFINE q == QuoteOf(bar, o.asked)
<1>4. BarBefore(bar, DayOf(o.asked))
  BY <1>1, <1>3, VendorIsOld DEF AskingOK
<1>5. Daily(q, o.asked)
  BY <1>1, <1>4, BarQuotes DEF AskingOK
<1>6. Daily(q, moment)
  BY <1>1, <1>5, StaysBefore DEF Daily, AskingOK
<1>. HIDE DEF q, o
<1>7. FilesOld' /\ files' = [x \in Stocks |-> files'[x]]
  BY <1>3, <1>4 DEF QtInv, FilesOld
<1>8. \A x \in Stocks : quoteCache'[x] # None => Daily(quoteCache'[x].quote, moment)
  BY <1>3, <1>6 DEF QtInv, CacheOld, q
<1>9. CacheOld' /\ quoteCache' = [x \in Stocks |-> quoteCache'[x]]
  <2>1. quoteCache' = [x \in Stocks |-> quoteCache'[x]]
    BY <1>3 DEF QtInv
  <2>. QED
    BY <1>2, <1>8, <2>1 DEF CacheOld, Daily, ClosedBefore, Quoted
<1>10. CASE o.via = "ticks"
  <2>1. Rightly(o, Restamped(q, o.asked))
    BY <1>1, <1>6, <1>10, RestampedFromTicks DEF Rightly, AskingOK
  <2>2. Answered(c, o, Restamped(q, o.asked))
    BY <1>3, <1>10 DEF q
  <2>. QED
    BY <1>1, <1>2, <1>7, <1>9, <2>1, <2>2, AnsweredKeeps
<1>11. CASE o.via = "provider"
  <2>1. Rightly(o, q)
    BY <1>6, <1>11 DEF Rightly
  <2>2. Answered(c, o, q)
    BY <1>3, <1>11 DEF q
  <2>. QED
    BY <1>1, <1>2, <1>7, <1>9, <2>1, <2>2, AnsweredKeeps
<1>. QED
  BY <1>1, <1>10, <1>11 DEF Inquires

LEMMA FailureKeeps ==
  ASSUME QtInv, NEW c \in Orderers, ProviderFails(c)
  PROVE  QtInv'
<1>. DEFINE o == caller[c]
<1>1. Inquires(o) /\ Answered(c, o, None) /\ UNCHANGED <<moment, feeding, lastTick, lastPass, files, quoteCache>>
  BY DEF ProviderFails, feedVars, QtInv, OrdererOK, AskingOK, Inquires
<1>2. Rightly(o, None)
  BY DEF Rightly
<1>. HIDE DEF o
<1>3. FilesOld' /\ CacheOld'
  BY <1>1 DEF QtInv, FilesOld, CacheOld, Daily, ClosedBefore, Quoted
<1>. QED
  BY <1>1, <1>2, <1>3, AnsweredKeeps DEF QtInv

LEMMA StartKeeps ==
  ASSUME QtInv, NEW c \in Orderers, NEW s \in Stocks,
         ReadQuote(c, s) \/ SubmitMarket(c, s) \/ SubmitLimit(c, s)
  PROVE  QtInv'
<1>1. UNCHANGED <<moment, feeding, lastTick, lastPass>>
  BY DEF ReadQuote, SubmitMarket, SubmitLimit, Start
<1>2. CASE ReadQuote(c, s) \/ SubmitMarket(c, s)
  BY <1>1, <1>2, GetQuoteKeeps DEF ReadQuote, SubmitMarket
<1>3. CASE SubmitLimit(c, s)
  <2>. DEFINE o == [stock |-> s, type |-> "LIMIT", via |-> "none"]
  <2>1. UNCHANGED <<ages, files, quoteCache>> /\ caller' = [caller EXCEPT ![c] = Gated(o, ages, None)]
    BY <1>3 DEF SubmitLimit
  <2>2. OrdererOK(Gated(o, ages, None))
    <3>. DEFINE p == Gated(o, ages, None)
    <3>1. CASE MarketOpen(moment) /\ ~IsStaleTick(ages, o.stock)
      <4>1. p = [Finished(o, "approved", None) EXCEPT !.at = "approved"]
        BY <3>1 DEF Gated
      <4>2. p.at = "approved" /\ p.stock = s /\ p.type = "LIMIT"
        BY <4>1 DEF Finished
      <4>. QED
        BY <4>2 DEF OrdererOK, ApprovedOK
    <3>2. CASE ~(MarketOpen(moment) /\ ~IsStaleTick(ages, o.stock))
      <4>1. p = Finished(o, "blocked", None)
        BY <3>2 DEF Gated
      <4>. QED
        BY <4>1 DEF Finished, OrdererOK, PricedLive, RefusedOld
    <3>. QED
      BY <3>1, <3>2
  <2>3. FilesOld' /\ CacheOld'
    BY <1>1, <2>1 DEF QtInv, FilesOld, CacheOld, Daily, ClosedBefore, Quoted
  <2>. HIDE DEF o
  <2>. QED
    BY <1>1, <2>1, <2>2, <2>3, OneCallMoved DEF QtInv
<1>. QED
  BY <1>2, <1>3

LEMMA PlaceKeeps ==
  ASSUME QtInv, NEW c \in Orderers, Place(c)
  PROVE  QtInv'
<1>. DEFINE o == caller[c]
<1>1. UNCHANGED <<moment, feeding, lastTick, lastPass>> /\ o.at = "approved" /\ o.stock \in Stocks
  BY DEF Place, feedVars, QtInv, OrdererOK, ApprovedOK
<1>2. CASE MarketOpen(moment)
  <2>1. GetQuote(c, o.stock, o.type, "fill")
    BY <1>2 DEF Place
  <2>. QED
    BY <1>1, <1>2, <2>1, GetQuoteKeeps
<1>3. CASE ~MarketOpen(moment)
  <2>1. UNCHANGED <<ages, files, quoteCache>> /\ caller' = [caller EXCEPT ![c] = Finished(o, "closed", None)]
    BY <1>3 DEF Place
  <2>2. OrdererOK(Finished(o, "closed", None))
    BY DEF Finished, OrdererOK, PricedLive, RefusedOld
  <2>3. FilesOld' /\ CacheOld'
    BY <1>1, <2>1 DEF QtInv, FilesOld, CacheOld, Daily, ClosedBefore, Quoted
  <2>. QED
    BY <1>1, <2>1, <2>2, <2>3, OneCallMoved DEF QtInv
<1>. QED
  BY <1>2, <1>3

(* The feed and the clock leave what calls, files and caches say.             *)
LEMMA WorldKeeps ==
  ASSUME QtInv, UNCHANGED <<files, quoteCache, ages, caller>>, moment' \in Nat, moment <= moment',
         feeding' # "unarmed" \/ feeding' = feeding, feeding' = "alive" => feeding # "dead", FeedOK'
  PROVE  QtInv'
<1>1. \A c \in Orderers : OrdererOK(caller[c])'
  <2>1. \A c \in Orderers : OrdererOK(caller[c])
    BY DEF QtInv
  <2>. QED
    BY <2>1 DEF QtInv, FeedOK, OrdererOK, AskingOK, ApprovedOK, PricedLive, RefusedOld
<1>2. FilesOld'
  BY DEF QtInv, FilesOld
<1>3. \A s \in Stocks : quoteCache[s] # None => Daily(quoteCache[s].quote, moment')
  BY StaysBefore DEF QtInv, CacheOld, Daily
<1>4. CacheOld'
  BY <1>3 DEF CacheOld, Daily, ClosedBefore, Quoted
<1>5. FirstMoment <= moment'
  BY QuotesAssumption DEF QtInv
<1>. QED
  BY <1>1, <1>2, <1>4, <1>5 DEF QtInv

LEMMA FeedKeeps ==
  ASSUME QtInv, ArmFeed \/ FeedPass \/ FeedDies
  PROVE  QtInv'
<1>1. FeedOK /\ moment \in Nat /\ FirstMoment <= moment
  BY DEF QtInv
<1>2. moment' = moment /\ UNCHANGED <<files, quoteCache, ages, caller>>
  BY DEF ArmFeed, FeedPass, FeedDies
<1>3. CASE ArmFeed
  <2>. USE <1>3 DEF ArmFeed
  <2>1. FeedOK'
    BY <1>1 DEF FeedOK
  <2>. QED
    BY <1>1, <1>2, <2>1, WorldKeeps
<1>4. CASE FeedPass
  <2>. USE <1>4 DEF FeedPass
  <2>1. lastPass' = moment /\ moment # 0 /\ MarketOpen(moment) /\ feeding' = feeding
    BY <1>1 DEF FeedOK
  <2>2. \A s \in Stocks : lastTick'[s] # None => lastTick'[s].at = moment
    OBVIOUS
  <2>3. FeedOK'
    BY <1>1, <1>2, <2>1, <2>2 DEF FeedOK
  <2>. QED
    BY <1>1, <1>2, <2>1, <2>3, WorldKeeps
<1>5. CASE FeedDies
  <2>. USE <1>5 DEF FeedDies
  <2>1. FeedOK'
    BY <1>1 DEF FeedOK
  <2>. QED
    BY <1>1, <1>2, <2>1, WorldKeeps
<1>. QED
  BY <1>3, <1>4, <1>5

LEMMA TimeKeeps ==
  ASSUME QtInv, TimePasses
  PROVE  QtInv'
<1>1. FeedOK /\ moment \in Nat /\ moment' = moment + 1 /\ UNCHANGED <<feeding, lastTick, lastPass, files, quoteCache, ages, caller>>
  BY DEF QtInv, TimePasses
<1>2. ASSUME feeding = "alive", MarketOpen(moment + 1), lastPass # 0, DayOf(lastPass) = DayOf(moment + 1)
      PROVE  moment + 1 - lastPass <= 1
  <2>. DEFINE D == DayOf(moment + 1)
              r == (moment + 1) % DayLength
  <2>1. D \in Nat /\ moment + 1 = D * DayLength + r /\ r \in 1..SessionEnd
    BY <1>1, <1>2, DayAndMoment DEF MarketOpen
  <2>2. lastPass = D * DayLength + (lastPass % DayLength) /\ lastPass % DayLength \in 1..SessionEnd
    BY <1>1, <1>2, DayAndMoment DEF FeedOK, MarketOpen
  <2>3. moment = D * DayLength + (r - 1) /\ r - 1 \in 0..(DayLength - 1) /\ D * DayLength \in Nat
    <3>1. D * DayLength \in Nat
      BY <2>1, QuotesAssumption
    <3>. HIDE DEF D, r
    <3>. QED
      BY <1>1, <2>1, <3>1, QuotesAssumption
  <2>4. CASE MarketOpen(moment)
    BY <1>1, <1>2, <2>4 DEF TimePasses
  <2>5. CASE ~MarketOpen(moment)
    <3>1. DayOf(moment) = D
      BY <2>1, <2>3, DayIs
    <3>2. moment = D * DayLength + (moment % DayLength) /\ moment % DayLength \in 0..(DayLength - 1)
      BY <1>1, <3>1, DayAndMoment
    <3>. DEFINE w == moment % DayLength
                past == D * DayLength
    <3>3. past \in Int /\ w \in Int /\ r \in Int /\ moment = past + (r - 1) /\ moment = past + w
      BY <2>1, <2>3, <3>2
    <3>. HIDE DEF D, r, w, past
    <3>5. w = r - 1
      BY <3>3
    <3>4. r = 1
      BY <2>1, <2>5, <3>3, <3>5, QuotesAssumption DEF MarketOpen, w
    <3>. QED
      BY <1>1, <2>2, <2>3, <3>4 DEF FeedOK
  <2>. QED
    BY <2>4, <2>5
<1>3. FeedOK'
  BY <1>1, <1>2 DEF FeedOK
<1>. QED
  BY <1>1, <1>3, WorldKeeps DEF FeedOK

LEMMA QtKeeps == QtInv /\ [QtNext]_qtVars => QtInv'
<1>. SUFFICES ASSUME QtInv, [QtNext]_qtVars PROVE QtInv'
  OBVIOUS
<1>1. ASSUME NEW c \in Orderers, NEW s \in Stocks, ReadQuote(c, s) \/ SubmitMarket(c, s) \/ SubmitLimit(c, s)
      PROVE QtInv'
  BY <1>1, StartKeeps
<1>2. ASSUME NEW c \in Orderers, ProviderAnswers(c) \/ ProviderFails(c) \/ Place(c)
      PROVE QtInv'
  BY <1>2, ProviderKeeps, FailureKeeps, PlaceKeeps
<1>3. CASE ArmFeed \/ FeedPass \/ FeedDies
  BY <1>3, FeedKeeps
<1>4. CASE TimePasses
  BY <1>4, TimeKeeps
<1>5. CASE UNCHANGED qtVars
  BY <1>5 DEF qtVars, QtInv, FilesOld, CacheOld, FeedOK, OrdererOK, AskingOK, ApprovedOK,
              PricedLive, RefusedOld, Daily, ClosedBefore, Quoted
<1>. QED
  BY <1>1, <1>2, <1>3, <1>4, <1>5 DEF QtNext

LEMMA QtTells == QtInv => QuotesHold
<1>. SUFFICES ASSUME QtInv, NEW c \in Orderers
     PROVE  /\ ~(caller[c].at = "approved" /\ caller[c].type = "MARKET" /\ caller[c].via = "provider")
            /\ caller[c].at = "done" => PricedLive(caller[c]) /\ RefusedOld(caller[c])
  BY DEF QuotesHold, DailyIsNeverLive, TickPricesAreLive, FreshIsNotRefused, PricedLive, RefusedOld
<1>. QED
  BY DEF QtInv, OrdererOK, ApprovedOK

-----------------------------------------------------------------------------
(* HISTORY                                                                   *)

OneOf(s, series) == \E adjust \in BOOLEAN : series = Computed(held[s].bars, held[s].events, adjust)

TurnOK(s, frame) ==
    /\ frame.at \in {"off", "waiting", "fetching", "adjusting", "storing", "out"}
    /\ frame.at = "adjusting" => frame.series = Normalized(held[s].bars)
    /\ frame.at = "storing" => OneOf(s, HandleMissing(frame.series))
    /\ frame.at = "out" => OneOf(s, frame.series)

HsInv ==
    /\ held \in [Issues -> [bars : Series, events : Splits]]
    /\ redis = [s \in Issues |-> redis[s]]
    /\ request = [adjust |-> request.adjust, of |-> request.of, made |-> request.made]
    /\ request.of = [s \in Issues |-> request.of[s]]
    /\ \A s \in Issues : TurnOK(s, request.of[s]) /\ (redis[s] # <<>> => OneOf(s, redis[s]))
    /\ Cardinality(Working) <= MaxConcurrent

LEMMA HsStart == HistoryInit => HsInv
<1>. SUFFICES ASSUME HistoryInit PROVE HsInv
  OBVIOUS
<1>1. request = [adjust |-> FALSE, of |-> [s \in Issues |-> [at |-> "off"]], made |-> 0]
  BY DEF HistoryInit, NoRequest
<1>2. Working = {}
  BY <1>1 DEF Working
<1>3. Cardinality(Working) <= MaxConcurrent
  BY <1>2, FS_EmptySet, HistoryAssumption
<1>4. \A s \in Issues : TurnOK(s, request.of[s])
  BY <1>1 DEF TurnOK
<1>. QED
  BY <1>1, <1>3, <1>4 DEF HsInv, HistoryInit

(* One symbol's call moves, within the turns that are given.                   *)
LEMMA FrameMoves ==
  ASSUME HsInv, NEW s \in Issues, NEW frame, TurnOK(s, frame), Goes(s, frame), held' = held,
         redis' = [x \in Issues |-> redis'[x]],
         \A x \in Issues : redis'[x] # <<>> => OneOf(x, redis'[x]),
         \/ Cardinality(Working) < MaxConcurrent
         \/ request.of[s].at \in {"fetching", "adjusting", "storing"}
  PROVE  HsInv'
<1>1. /\ request'.of = [request.of EXCEPT ![s] = frame]
      /\ request' = [adjust |-> request'.adjust, of |-> request'.of, made |-> request'.made]
  BY DEF Goes, HsInv
<1>2. request'.of = [x \in Issues |-> IF x = s THEN frame ELSE request.of[x]]
  BY <1>1 DEF HsInv
<1>3. Working' \subseteq Working \cup {s}
  BY <1>2 DEF Working
<1>4. IsFiniteSet(Working) /\ Cardinality(Working) \in Nat
  <2>1. Working \subseteq Issues
    BY DEF Working
  <2>. QED
    BY <2>1, FS_Subset, FS_CardinalityType, HistoryAssumption
<1>5. /\ IsFiniteSet(Working \cup {s})
      /\ Cardinality(Working \cup {s}) = IF s \in Working THEN Cardinality(Working) ELSE Cardinality(Working) + 1
  BY <1>4, FS_AddElement
<1>6. Cardinality(Working') <= Cardinality(Working \cup {s}) /\ Cardinality(Working') \in Nat
  BY <1>3, <1>5, FS_Subset, FS_CardinalityType
<1>7. Cardinality(Working)' <= MaxConcurrent
  <2>1. request.of[s].at \in {"fetching", "adjusting", "storing"} => s \in Working
    BY DEF Working
  <2>. QED
    BY <1>4, <1>5, <1>6, <2>1, HistoryAssumption DEF HsInv
<1>8. \A x \in Issues : TurnOK(x, request.of[x])'
  <2>1. \A x \in Issues : TurnOK(x, request'.of[x])
    BY <1>2 DEF HsInv
  <2>. QED
    BY <2>1 DEF TurnOK, OneOf
<1>9. \A x \in Issues : redis'[x] # <<>> => OneOf(x, redis[x])'
  BY DEF OneOf
<1>. QED
  BY <1>1, <1>2, <1>7, <1>8, <1>9 DEF HsInv

LEMMA TurnKeeps ==
  ASSUME HsInv, NEW s \in Issues, Enter(s) \/ Fetch(s) \/ Adjust(s) \/ Store(s) \/ Fails(s)
  PROVE  HsInv'
<1>. DEFINE f == request.of[s]
<1>1. TurnOK(s, f) /\ redis = [x \in Issues |-> redis[x]] /\ \A x \in Issues : redis[x] # <<>> => OneOf(x, redis[x])
  BY DEF HsInv
<1>2. CASE Enter(s)
  <2>1. redis' = redis /\ held' = held /\ Cardinality(Working) < MaxConcurrent
    BY <1>2 DEF Enter
  <2>2. CASE redis[s] # <<>> /\ Goes(s, Out(redis[s]))
    <3>1. TurnOK(s, Out(redis[s]))
      BY <1>1, <2>2 DEF TurnOK, Out
    <3>. QED
      BY <1>1, <2>1, <2>2, <3>1, FrameMoves
  <2>3. CASE Goes(s, [at |-> "fetching"])
    <3>1. TurnOK(s, [at |-> "fetching"])
      BY DEF TurnOK
    <3>. QED
      BY <1>1, <2>1, <2>3, <3>1, FrameMoves
  <2>. QED
    BY <1>2, <2>2, <2>3 DEF Enter
<1>3. CASE Fetch(s)
  <2>. DEFINE g == [at |-> IF request.adjust THEN "adjusting" ELSE "storing",
                    series |-> Normalized(held[s].bars)]
  <2>1. redis' = redis /\ held' = held /\ Goes(s, g) /\ f.at = "fetching"
    BY <1>3 DEF Fetch
  <2>2. OneOf(s, HandleMissing(g.series))
    BY DEF OneOf, Computed
  <2>3. TurnOK(s, g)
    BY <2>2 DEF TurnOK
  <2>. HIDE DEF g
  <2>. QED
    BY <1>1, <2>1, <2>3, FrameMoves
<1>4. CASE Adjust(s)
  <2>. DEFINE g == [at |-> "storing", series |-> ApplyAdjustment(f.series, held[s].events)]
  <2>1. redis' = redis /\ held' = held /\ Goes(s, g) /\ f.at = "adjusting"
    BY <1>4 DEF Adjust
  <2>2. g.series = ApplyAdjustment(Normalized(held[s].bars), held[s].events)
    BY <1>1, <2>1 DEF TurnOK
  <2>3. OneOf(s, HandleMissing(g.series))
    BY <2>2 DEF OneOf, Computed
  <2>4. TurnOK(s, g)
    BY <2>3 DEF TurnOK
  <2>. HIDE DEF g
  <2>. QED
    BY <1>1, <2>1, <2>4, FrameMoves
<1>5. CASE Store(s)
  <2>. DEFINE series == HandleMissing(f.series)
  <2>1. held' = held /\ Goes(s, Out(series)) /\ f.at = "storing"
    BY <1>5 DEF Store
  <2>2. OneOf(s, series)
    BY <1>1, <2>1 DEF TurnOK
  <2>3. TurnOK(s, Out(series))
    BY <2>2 DEF TurnOK, Out
  <2>4. redis' = redis \/ redis' = [redis EXCEPT ![s] = series]
    BY <1>5 DEF Store
  <2>. HIDE DEF series
  <2>5. redis' = [x \in Issues |-> redis'[x]] /\ \A x \in Issues : redis'[x] # <<>> => OneOf(x, redis'[x])
    BY <1>1, <2>2, <2>4
  <2>. QED
    BY <2>1, <2>3, <2>5, FrameMoves
<1>6. CASE Fails(s)
  <2>1. redis' = redis /\ held' = held /\ Goes(s, [at |-> "off"]) /\ f.at \in {"fetching", "adjusting"}
    BY <1>6 DEF Fails
  <2>2. TurnOK(s, [at |-> "off"])
    BY DEF TurnOK
  <2>. QED
    BY <1>1, <2>1, <2>2, FrameMoves
<1>. QED
  BY <1>2, <1>3, <1>4, <1>5, <1>6

LEMMA HsKeeps == HsInv /\ [HistoryNext]_hsVars => HsInv'
<1>. SUFFICES ASSUME HsInv, [HistoryNext]_hsVars PROVE HsInv'
  OBVIOUS
<1>1. CASE GetMultiple
  <2>1. PICK adjust \in BOOLEAN :
          request' = [adjust |-> adjust, made |-> request.made + 1, of |-> [s \in Issues |-> [at |-> "waiting"]]]
    BY <1>1 DEF GetMultiple
  <2>2. held' = held /\ redis' = redis
    BY <1>1 DEF GetMultiple
  <2>3. Working' = {}
    BY <2>1 DEF Working
  <2>4. Cardinality(Working)' <= MaxConcurrent
    BY <2>3, FS_EmptySet, HistoryAssumption
  <2>5. \A s \in Issues : TurnOK(s, request.of[s])'
    BY <2>1 DEF TurnOK
  <2>. QED
    BY <2>1, <2>2, <2>4, <2>5 DEF HsInv, OneOf
<1>2. ASSUME NEW s \in Issues, Enter(s) \/ Fetch(s) \/ Adjust(s) \/ Store(s) \/ Fails(s)
      PROVE  HsInv'
  BY <1>2, TurnKeeps
<1>3. ASSUME NEW s \in Issues, Expire(s)
      PROVE  HsInv'
  <2>. USE <1>3 DEF Expire
  <2>1. redis' = [x \in Issues |-> redis'[x]] /\ \A x \in Issues : redis'[x] # <<>> => OneOf(x, redis'[x])
    BY DEF HsInv
  <2>. QED
    BY <2>1 DEF HsInv, TurnOK, OneOf, Working
<1>4. CASE UNCHANGED hsVars
  BY <1>4 DEF hsVars, HsInv, TurnOK, OneOf, Working
<1>. QED
  BY <1>1, <1>2, <1>3, <1>4 DEF HistoryNext

(* Only the bar of the split is blanked.                                      *)
LEMMA OnlySplitsBlanked == BlanksOnlySplits
<1>. SUFFICES ASSUME NEW path \in Paths, NEW k \in DOMAIN path
     PROVE  LET left == [i \in DOMAIN path |-> IF i < k THEN 5 * path[i] ELSE path[i]]
            IN Masked(left, left) = IF k = 1 THEN path ELSE [left EXCEPT ![k] = Missing]
  BY DEF BlanksOnlySplits
<1>. DEFINE left == [i \in DOMAIN path |-> IF i < k THEN 5 * path[i] ELSE path[i]]
<1>1. /\ path \in Seq(Nat \ {0})
      /\ \A i \in 2..Len(path) : 2 * path[i] <= 3 * path[i - 1] /\ 2 * path[i - 1] <= 3 * path[i]
  BY HistoryAssumption
<1>2. DOMAIN path = 1..Len(path) /\ Len(path) \in Nat /\ path = [i \in 1..Len(path) |-> path[i]]
      /\ \A i \in 1..Len(path) : path[i] \in Nat \ {0}
  BY <1>1
<1>3. \A i \in DOMAIN path : left[i] \in Nat \ {0} /\ left[i] # Missing
  BY <1>2, HistoryAssumption
<1>4. ASSUME NEW i \in DOMAIN path, i # k
      PROVE  ~Artifact(left, left, i)
  <2>1. CASE i > 1
    <3>1. i \in 2..Len(path) /\ i - 1 \in DOMAIN path
      BY <1>2, <2>1
    <3>2. 2 * path[i] <= 3 * path[i - 1] /\ 2 * path[i - 1] <= 3 * path[i]
      BY <1>1, <3>1
    <3>3. path[i] \in Nat /\ path[i - 1] \in Nat
      BY <1>2, <3>1
    <3>4. \/ left[i] = path[i] /\ left[i - 1] = path[i - 1]
          \/ left[i] = 5 * path[i] /\ left[i - 1] = 5 * path[i - 1]
      BY <1>2, <1>4, <3>1
    <3>5. ~Extreme(left[i - 1], left[i])
      BY <3>2, <3>3, <3>4 DEF Extreme
    <3>. QED
      BY <3>5 DEF Artifact
  <2>2. CASE ~(i > 1)
    BY <2>2 DEF Artifact
  <2>. QED
    BY <2>1, <2>2
<1>5. CASE k = 1
  <2>1. ~Artifact(left, left, k)
    BY <1>5 DEF Artifact
  <2>2. \A i \in DOMAIN path : left[i] = path[i]
    BY <1>2, <1>5
  <2>3. Masked(left, left) = [i \in DOMAIN path |-> left[i]]
    BY <1>4, <2>1 DEF Masked
  <2>. QED
    BY <1>2, <1>5, <2>2, <2>3
<1>6. CASE k # 1
  <2>1. k \in 2..Len(path) /\ k - 1 \in DOMAIN path
    BY <1>2, <1>6
  <2>2. left[k - 1] = 5 * path[k - 1] /\ left[k] = path[k] /\ path[k] \in Nat \ {0} /\ path[k - 1] \in Nat \ {0}
    BY <1>2, <2>1
  <2>3. 2 * path[k] <= 3 * path[k - 1]
    BY <1>1, <2>1
  <2>4. Extreme(left[k - 1], left[k])
    BY <1>3, <2>1, <2>2, <2>3 DEF Extreme
  <2>5. Artifact(left, left, k)
    <3>1. left[k - 1] * left[k] = left[k] * left[k - 1]
      BY <1>3, <2>1
    <3>2. Alike(left[k - 1], left[k], left[k - 1], left[k])
      BY <3>1 DEF Alike
    <3>. HIDE DEF left
    <3>. QED
      BY <2>1, <2>4, <3>2 DEF Artifact
  <2>6. Masked(left, left) = [i \in DOMAIN path |-> IF i = k THEN Missing ELSE left[i]]
    BY <1>4, <2>5 DEF Masked
  <2>. QED
    BY <1>6, <2>6
<1>. QED
  BY <1>5, <1>6

LEMMA HsTells == SeriesAgree /\ HsInv => HistoryHolds
<1>. SUFFICES ASSUME SeriesAgree, HsInv PROVE AnswersAreWhole
  BY OnlySplitsBlanked DEF HistoryHolds
<1>1. ASSUME NEW s \in Issues, request.of[s].at = "out"
      PROVE  ClosesOf(request.of[s].series) \in
               {Due(held[s].bars, held[s].events, adjust) : adjust \in BOOLEAN}
  <2>1. PICK adjust \in BOOLEAN : request.of[s].series = Computed(held[s].bars, held[s].events, adjust)
    BY <1>1 DEF HsInv, TurnOK, OneOf
  <2>2. held[s].bars \in Series /\ held[s].events \in Splits
    BY DEF HsInv
  <2>3. ClosesOf(request.of[s].series) = Due(held[s].bars, held[s].events, adjust)
    BY <2>1, <2>2 DEF SeriesAgree
  <2>. QED
    BY <2>3
<1>. QED
  BY <1>1 DEF AnswersAreWhole, HsInv

(* The daily feed prices no market order in a session, a stock the feed ticks is not  *)
(* filled at an older price than it may be, and a fresh quote is not refused, for   *)
(* any stocks, ages, callers, caches, late vendors and deaths of the feed.          *)
THEOREM QuotesTrue == QtInit /\ [][QtNext]_qtVars => []QuotesHold
BY QtStart, QtKeeps, QtTells, PTL

(* And beside it every series of history that is given out, from the broker or the   *)
(* cache, is adjusted once or not at all, if one call alone computes it right; turns *)
(* are kept to, and only the day of a split is blanked.                        *)
THEOREM PricesTrue ==
    SeriesAgree /\ QtInit /\ [][QtNext]_qtVars /\ HistoryInit /\ [][HistoryNext]_hsVars
        => []PricesHold
<1>1. SeriesAgree /\ HsInv => HistoryHolds
  BY HsTells
<1>2. SeriesAgree /\ HistoryInit /\ [][HistoryNext]_hsVars => []HistoryHolds
  <2>. SUFFICES ASSUME SeriesAgree PROVE HistoryInit /\ [][HistoryNext]_hsVars => []HistoryHolds
    OBVIOUS
  <2>1. HsInv => HistoryHolds
    BY <1>1
  <2>. QED
    BY <2>1, HsStart, HsKeeps, PTL
<1>3. QuotesHold /\ HistoryHolds => PricesHold
  BY DEF PricesHold
<1>. QED
  BY <1>2, <1>3, QuotesTrue, PTL
=============================================================================
