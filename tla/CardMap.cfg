CONSTANTS
    a = a  b = b  s1 = s1  s2 = s2
    Names = {a, b}
    FirstCard = a
    Printed <- MCPrinted
    Seeders = {s1, s2}
    MaxId = 3
    MaxChanges = 1
    MaxLoads = 2
SYMMETRY MCSymmetry
SPECIFICATION Spec
INVARIANTS TypeOK OneRowPerName MapIsOfTheTable ReloadCatchesUp LegalCardsHaveUnits
