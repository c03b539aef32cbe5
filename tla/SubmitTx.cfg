CONSTANTS
    a = a  b = b  c = c  s1 = s1  s2 = s2  p1 = p1
    d1 = d1  d2 = d2
    Decks = {d1, d2}
    Singletons = {d2}
    Cards = {a, b, c}
    Submits = {s1, s2}
    Posts = {p1}
    ListOf <- MCListOf
    StampOf <- MCStampOf
    NoTx = NoTx
    Old = Old
SPECIFICATION Spec
INVARIANTS TypeOK DoneListIsTheLast
PROPERTIES CommitsFollowLifecycle AnswerIsCommitted EveryRequestEnds
CHECK_DEADLOCK FALSE
