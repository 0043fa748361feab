SPECIFICATION Spec
CONSTANTS
    Programs <- Five
    MaxTests = 3
INVARIANTS
    TypeOK
    TreeIsProgram
    AcceptsInOrder
CHECK_DEADLOCK FALSE
