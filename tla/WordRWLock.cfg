SPECIFICATION AtomicSpec
CONSTANTS
    Readers = {r1, r2}
    Writers = {w1}
    MaxNumber = 3
    PerNumber = 2
    Mod = 4
INVARIANT WordMeansHolders
CHECK_DEADLOCK FALSE
