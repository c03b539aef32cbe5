CONSTANTS
    d1 = d1  d2 = d2  w1 = w1
    Decks = {d1, d2}
    Workers = {w1}
    Rank <- MCRank
    Born <- MCBorn
    Edited = {d1, d2}
    BatchSize = 1
    Lease = 0
    PageSize = 1
    MaxVersion = 2
    MaxLate = 0
SPECIFICATION LoopSpec
PROPERTIES LoopSettles FirstPageIsFetched
INVARIANT LoopTypeOK
