SPECIFICATION Spec
CONSTANTS
    Variants = 2
    Text = {t1}
    None = None
    Torn = Torn
    Cases = 2
    Gate = TRUE
    MaxRepairs = 2
    MaxRuns = 2
INVARIANTS
    TypeOK
    NoEarlyDefeat
    RepairsAreNeeded
PROPERTY KeepsPromise
ACTION_CONSTRAINT FirstUnrepaired
CHECK_DEADLOCK FALSE
