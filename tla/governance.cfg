SPECIFICATION Spec
CONSTANTS
    Symbols = {"steady", "other"}
    Panels <- MCPanels
    MaxSessions = 8
    Revisions = 1
    ListedOn <- MCListedOn
    LiquidityWindow = 2
    MinObservations = 2
    MinVolume = 1
    DelistingGap = 1
    MinTrain = 3
    NFolds = 2
    Embargo = 1
    MinTest = 1
    Outcomes <- MCOutcomes
    Day = 2
    EvidenceAge = 2
    HeartbeatAge = 1
    ReconciliationAge = 2
    ReportAge = 1
    DataAge = 1
    ApprovalAge = 1
    Skew = 1
    HistoryDays = 1
    EpochDay = 0
    MaxClock = 6
    Failures = 1
    Measured <- MCMeasured
    Oddities <- MCOddities
INVARIANTS NothingPermitsUnproven ResearchIsHonest
PROPERTIES AuthorisedOnFacts
CHECK_DEADLOCK FALSE
