SPECIFICATION Spec
CONSTANTS
    Symbols = {A}
    NoSymbol = NoSymbol
    Lot = 2
    MaxEntries = 2
    MaxPositions = 2
    Days = 2
    MaxCrashes = 1
INVARIANTS StopsAreBacked OneEntryPerDay 
