SPECIFICATION Spec
CONSTANTS
    Callers = {p1, p2}
    Entries = {e1}
    Stops = {s1}
    NoKey = none
    Opening = 3
    Faults = {"lost", "unread", "db", "probe"}
    Modes <- AllModes
    MaxStarts = 1
SYMMETRY Symm
INVARIANTS OneOrderPerKey BooksAreTrue  
