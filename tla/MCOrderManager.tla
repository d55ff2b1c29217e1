--------------------------- MODULE MCOrderManager ---------------------------
EXTENDS OrderManager

CONSTANTS c1, c2, p1, p2

OneSymbol   == [c \in Cids |-> "INFY"]
OneStrategy == [c \in Cids |-> "momentum"]
OwnStrategy == [c \in Cids |-> c]

=============================================================================
