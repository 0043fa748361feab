SPECIFICATION Spec
CONSTANTS
    N = 2
    Batches = 1
    Abends <- LastAbends
    Noise = Noise
    Killed = Killed
INVARIANT CrashNeverLeaks
