SPECIFICATION Spec
CONSTANTS
    N = 2
    Batches = 2
    Abends <- LastAbends
    Noise = Noise
    Killed = Killed
INVARIANTS
    TypeOK
    PassIsEquivalence
    NoFalseAlarm
PROPERTY Finishes
