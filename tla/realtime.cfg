SPECIFICATION Spec
CONSTANTS
    Clients = {c1, c2}
    Channels = {ticks, orders}
    Ticks = ticks
    Unlisted = unlisted
    Asked <- MCAsked
    MaxRequests = 4
    Calls = 1
    Universe = {s1, s2}
    Prices = {1, 2}
    Days = 2
    Minutes = 2
    MaxTicks = 3
    AutoTrade = TRUE
    SummaryDays = {1}
    Workers = {w1}
    MaxRetries = 2
    MaxFaults = 2
PROPERTIES HubServes  
CHECK_DEADLOCK FALSE
