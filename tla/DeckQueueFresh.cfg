CONSTANTS
    d1 = d1  w1 = w1  w2 = w2
    Decks = {d1}
    Workers = {w1, w2}
    Rank <- MCOneRank
    BatchSize = 1
    Lease = 1
    PageSize = 1
    MaxVersion = 2
    MaxLate = 0
SYMMETRY MCSymmetry
SPECIFICATION Spec
INVARIANTS DoneIsFresh
