SPECIFICATION Spec
CONSTANTS
    Proc = {p1, p2}
    Key = {k1}
    Text = {t1, t2}
    Absent = Absent
    Empty = Empty
    Garbled = Garbled
    Present = Present
    None = None
    MaxCalls = 2
    MaxCrashes = 1
SYMMETRY Symmetry
INVARIANTS
    TypeOK
    ReplayIsWhole
    TroubleNeedsOverlap
PROPERTY StoredStays
