SPECIFICATION FairSpec
CONSTANTS
    Readers = {r1, r2}
    Writers = {w1, w2}
    Loops = 2
INVARIANTS WordCountsHolders NoTornCopy
PROPERTIES FrozenWhileRead ImplementsRWMutex AllThreadsEnd
