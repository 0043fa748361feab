SPECIFICATION Spec
CONSTANTS
    Generators <- Small
    MaxRuns = 8
    SmallDraws = 3
    MaxAttempts = 2
    MaxTargets = 2
    Keys = 2
    None = None
INVARIANTS
    TypeOK
    CasesAreFiles
    ReportIsTrue
    LocallyMinimal
PROPERTIES
    Ends
CHECK_DEADLOCK FALSE
