SPECIFICATION FairStartupSpec
CONSTANTS
    Callers = {p1}
    Entries = {e1}
    Stops = {}
    NoKey = none
    Opening = 3
    Faults = {"lost", "unread", "db", "probe"}
    Modes <- TwoModes
    MaxStarts = 1
INVARIANTS HaltIsReal
PROPERTIES ReadyMeansAgreed StartsAreDecided
