SPECIFICATION Spec
CONSTANTS
    Candidate = {a, b}
    Tested = a
    None = None
    MaxRuns = 2
INVARIANT
    RowIsFresh
CHECK_DEADLOCK FALSE
