CONSTANTS
    d1 = d1  w1 = w1  w2 = w2
    Decks = {d1}
    Workers = {w1, w2}
    Rank <- MCOneRank
    BatchSize = 1
    Lease = 1
    PageSize = 1
    MaxVersion = 3
    MaxLate = 1
SYMMETRY MCSymmetry
SPECIFICATION Spec
INVARIANTS TypeOK ClaimedHasLease StaleOnlyIfOvertaken
PROPERTIES ImplementsLifecycle
