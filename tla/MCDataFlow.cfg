SPECIFICATION Spec
CONSTANTS
    Programs <- MCPrograms
    MaxRounds = 3
    None = None
INVARIANTS
    TypeOK
    ResolveIsReachable
    DerivationCovered
    PassKeepsDerivation
CHECK_DEADLOCK FALSE
