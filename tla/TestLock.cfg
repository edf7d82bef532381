SPECIFICATION FairSpec
CONSTANTS
    Threads = {t1, t2, t3}
    Loops = 2
    Mod = 4
INVARIANTS TypeOK MutualExclusion NoLostUpdate
PROPERTIES MainEnds ImplementsFifoMutex
