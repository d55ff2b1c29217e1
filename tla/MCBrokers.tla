------------------------------ MODULE MCBrokers ------------------------------
(* The two brokers and what they live on, one at a time: the paper account, the       *)
(* adapter of the live broker, the quotes paper orders are priced at and history.  *)
EXTENDS PaperBroker, Zerodha, Prices, TLC

VARIABLE part

Mis == [symbol |-> "X", product |-> "MIS"]
Cnc == [symbol |-> "X", product |-> "CNC"]

Order(key, side, type, qty, price) ==
    [key |-> key, side |-> side, type |-> type, qty |-> qty, price |-> price]

MCKeys == {Mis, Cnc}

(* A market buy, a resting buy and a stop that sells.                          *)
MCRequests == {Order(Mis, "BUY", "MARKET", 2, 0), Order(Cnc, "BUY", "LIMIT", 2, 3),
               Order(Mis, "SELL", "SL", 2, 2)}

(* Marketable or not for the limits and the stop, and a thin quote.         *)
Quote(price, capacity) == [price |-> price, capacity |-> capacity]

MCQuotes == {Quote(2, 2), Quote(4, 2), Quote(2, 1)}

(* The history of two symbols: rows out of order, gaps of one and of two days,    *)
(* no splits, one, two and one without a factor; and six ordinary paths.       *)
Bar(d, close, volume) == [day |-> d, close |-> close, volume |-> volume]
MCSeries ==
    {<<Bar(2, Missing, 4), Bar(1, 8, 4), Bar(3, 12, Missing)>>,
     <<Bar(1, 8, 4), Bar(2, Missing, Missing), Bar(3, Missing, Missing), Bar(4, 16, 8)>>,
     <<Bar(1, Missing, 4), Bar(2, 8, 4), Bar(3, Missing, 4), Bar(4, 4, 8)>>}
Half(d) == [day |-> d, factor |-> <<1, 2>>]
MCSplits == {{}, {Half(2)}, {Half(3), Half(4), [day |-> 2, factor |-> <<0, 1>>]}}
MCPaths == [1..4 -> {10, 12, 14}]

(* The two callers of the paper account are two of the tasks of the adapter and    *)
(* the two that order at the quotes.                                         *)
Symm == Permutations(Callers)

BrokersInit ==
    /\ part \in {"paper", "live", "quotes", "history"}
    /\ Init /\ ZdInit /\ QtInit /\ HistoryInit
    /\ part # "live" => session.connected
    /\ part # "history" =>
         \A i \in Issues : held[i].events = {} /\ held[i].bars[1].day = 2
(* Quotes and history end where their bounds are spent.                      *)
BoundsSpent ==
    /\ \/ part = "quotes" /\ moment = LastMoment /\ made = MaxCalls
       \/ part = "history" /\ request.made = MaxAsks
    /\ UNCHANGED <<vars, zdVars, qtVars, hsVars>>
BrokersNext ==
    /\ UNCHANGED part
    /\ \/ part = "paper" /\ Next /\ UNCHANGED <<zdVars, qtVars, hsVars>>
       \/ part = "live" /\ ZdNext /\ UNCHANGED <<vars, qtVars, hsVars>>
       \/ part = "quotes" /\ QtNext /\ UNCHANGED <<vars, zdVars, hsVars>>
       \/ part = "history" /\ HistoryNext /\ UNCHANGED <<vars, zdVars, qtVars>>
       \/ BoundsSpent
BrokersSpec == BrokersInit /\ [][BrokersNext]_<<part, vars, zdVars, qtVars, hsVars>>

(* The series of the instance are computed right, without any interleaving.       *)
ASSUME MCSeriesAgree == SeriesAgree
=============================================================================
