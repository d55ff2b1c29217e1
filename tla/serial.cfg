SPECIFICATION Spec
CONSTANTS
    c1 = c1
    c2 = c2
    p1 = p1
    p2 = p2
    NoCid = none
    Cids = {c1, c2}
    Workers = {p1}
    Qty = 2
    SymbolOf <- OneSymbol
    StrategyOf <- OneStrategy
    Ops = {"submit", "cancel", "monitor", "crash", "recover"}
    Faults = {"lost", "unread", "odd", "ioc"}
    Exclusive = TRUE
    MaxPosition = 6
INVARIANTS LiveOrdersTracked TerminalIsTrue
PROPERTIES ImplementsOutcome UnknownLeftOnEvidence NoOrderBesideUnknown
