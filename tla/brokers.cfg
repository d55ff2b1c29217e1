SPECIFICATION BrokersSpec
CONSTANTS
    Callers = {c1, c2}
    Keys <- MCKeys
    Requests <- MCRequests
    Quotes <- MCQuotes
    InitialCash = 12
    Slip = 1
    BuyCost = 1
    SellCost = 1
    MaxOrders = 3
    Tasks = {c1, c2, c3}
    Rps = 1
    Second = 2
    Attempts = 2
    MaxClock = 2
    MaxTrades = 1
    Stocks = {s1, s2}
    Fed = {s1}
    Orderers = {c1, c2}
    Closes = {7}
    None = none
    DayLength = 5
    SessionEnd = 2
    MaxAge = 1
    Ttl = 2
    FirstMoment = 12
    LastMoment = 16
    MaxCalls = 2
    Missing = missing
    Issues = {i1, i2}
    Series <- MCSeries
    Splits <- MCSplits
    Paths <- MCPaths
    MaxFill = 1
    MaxConcurrent = 1
    MaxAsks = 2
SYMMETRY Symm
INVARIANTS BookCoherent DurableWhenHealthy AdapterHolds 
