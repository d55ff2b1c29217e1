SPECIFICATION PortfolioSpec
CONSTANTS
    A = A
    B = B
    Symbols = {A, B}
    SectorOf <- MCSector
    SleeveOrder <- MCSleeves
    Prices = {2, 3}
    Cash0 = 20
    Proposals <- MCProposals
    Limits <- MCLimits
    Cycles = 2
INVARIANTS CommittedWithinCash 
