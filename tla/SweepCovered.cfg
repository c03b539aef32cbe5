CONSTANTS
    u1 = u1  u2 = u2  w1 = w1  w2 = w2
    Units = {u1, u2}
    LastFormat = 2
    FormatOf <- MCFormatOf
    NoUnit = NoUnit
    Workers = {w1, w2}
    Lease = 1
    MaxLate = 0
SYMMETRY MCSymmetry
SPECIFICATION Spec
INVARIANTS EverSweptIsCovered
