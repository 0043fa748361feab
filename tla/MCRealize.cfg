SPECIFICATION Spec
CONSTANTS
    Modules <- MCModules
    Top <- MCTop
    Grid <- MCGrid
    Unit = 100
    MaxSolutions = 2
    MaxRepairs = 8
    Trouble = 1
INVARIANTS
    TypeOK
    CasesHitTheirBoundary
    SearchesMissNothing
    ExemptionsAreProved
    ReportRestsOnRuns
CHECK_DEADLOCK FALSE
