SPECIFICATION FairSpec
CONSTANTS
    Sessions <- MCSessions
    Opening = 20
    MaxLoss = 2
    MaxDrawdown = 12
    StopGap = 3
    Crashes = 2
    Losses = {"book", "ledger"}
PROPERTIES NoOrderAfterBreach 
CHECK_DEADLOCK FALSE
