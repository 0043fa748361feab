SPECIFICATION Spec
CONSTANTS
    Modules <- Square
    Top <- MCTop
    Grid <- MCGrid
    Unit = 100
    MaxSolutions = 2
    MaxRepairs = 8
    Trouble = 1
INVARIANTS
    CasesHitTheirBoundary
CHECK_DEADLOCK FALSE
