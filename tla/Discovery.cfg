CONSTANTS
    c1 = c1  c2 = c2  w1 = w1  w2 = w2
    Cards = {c1, c2}
    CardSets <- MCCardSets
    NoCard = NoCard
    Workers = {w1, w2}
    PageSize = 2
    MaxDecks = 4
    MaxFaults = 1
SYMMETRY MCSymmetry
SPECIFICATION Spec
INVARIANTS TypeOK FullSweepCovers EveryHoleHasACause CaughtUpWithoutCause
