SPECIFICATION Spec
CONSTANTS
    LongTerm = longterm
    Swing = swing
    Intraday = intraday
    Measured = {swing, intraday}
    Capitals <- MCCapitals
    Outlooks <- MCOutlooks
    Preferences <- MCPreferences
    Targets <- MCTargets
    Symbols = {a, b}
    Lots = {0, 6000}
    Purses = {0, 14000}
    MaxMoves = 3
    Trained = {1, 2, 3}
    NoModel = 0
    Torn = 9
    PathOf <- MCPathOf
    MaxRegistered = 3
    MaxMishaps = 2
    Names <- MCNames
    Lanes = {1, 2}
    Stake = 100
    HaltAt = 40
    Slippage = 1
    DpCharge = 2
    MaxErrors = 0
    Wants <- MCWants
    Leaves <- MCLeaves
    SizeOf <- MCSizeOf
    Shares = {1, 2, 3}
    Studies = {1, 2}
    Unavailable = unavailable
    Unit = 1200
    MaxWeight = 500
    Quantile = 50
    MinValid = 2
    Participation = 5
    CostBps = 15
    Month = 1
    Year = 2
    Tickers <- MCTickers
    SectorOf <- MCSectorOf
    Slots = 4
    RootSlots = 2
    FewNames = 4
    Unscored = unscored
    Views <- MCViews
    Minutes = {600, 890, 915}
    MaxDays = 2
    MaxCycles = 2
INVARIANTS  ActiveModelSurvives  
 
CHECK_DEADLOCK FALSE
