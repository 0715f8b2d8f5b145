\* The Music Assistant field and one other, two values to tell an old one from
\* a new one, two saves at a time.
CONSTANTS
    Fields = {ma, tunnel}
    MAField = ma
    Values = {v1, v2}
    Saves = {r1, r2}
    Empty = Empty
    Absent = Absent
SPECIFICATION Spec
SYMMETRY MCSymmetry
INVARIANTS
    TypeOK
    SavedValuesStayInUse
    ClientFollowsSettings
CHECK_DEADLOCK FALSE
