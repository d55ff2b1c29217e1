SPECIFICATION Spec
CONSTANTS
    c1 = c1
    c2 = c2
    p1 = p1
    p2 = p2
    NoCid = none
    Cids = {c1}
    Workers = {p1, p2}
    Qty = 2
    SymbolOf <- OneSymbol
    StrategyOf <- OneStrategy
    Ops = {"submit", "cancel", "monitor", "fill", "kill", "crash", "recover"}
    Faults = {"lost", "unread", "odd", "ioc", "late", "later_cancel"}
    Exclusive = FALSE
    MaxPosition = 3
INVARIANTS TypeOK DurableBeforeBroker
PROPERTIES ImplementsIntent
