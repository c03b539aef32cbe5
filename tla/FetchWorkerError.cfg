CONSTANTS
    d1 = d1  d2 = d2  d3 = d3
    Decks = {d1, d2, d3}
    MaxFails = 3
    Backoffs = 2
SPECIFICATION FairSpec
INVARIANTS ErrorMeansHardFailures
CHECK_DEADLOCK FALSE
