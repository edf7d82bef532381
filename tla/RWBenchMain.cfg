SPECIFICATION FairSpec
CONSTANTS
    Readers = {r1, r2}
    Writers = {w1, w2}
    MaxNumber = 3
    PerNumber = 2
    Mod = 5
INVARIANT NoLostWakeup
PROPERTIES WritersFirst ImplementsRWMutex MainEnds
