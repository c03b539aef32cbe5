CONSTANTS
    t1 = t1  t2 = t2
    Threads = {t1, t2}
    Cost = 3
    Capacity = 6
    Window = 9
SPECIFICATION FairSpec
INVARIANTS TypeOK WindowBound
PROPERTIES RequestsGoOn
