SPECIFICATION Spec
CONSTANTS
    x = x
    y = y
    n = n
    m = m
    b = b
    v = v
    Var <- Fields
    MaxValue = 3
    Views <- Overlaid
    Fuel = 40
    Depth = 5
    None = None
    Opaque = Opaque
    MaxUnroll = 2
    MaxPaths = 30
    MaxRecords = 2
    Programs <- Ordinary
INVARIANTS
    TypeOK
    Regular
    NothingDropped
    ValuesAreReal
    WitnessTakesPath
    DeadUnlessWrapped
PROPERTY ExplorationEnds
CHECK_DEADLOCK FALSE
