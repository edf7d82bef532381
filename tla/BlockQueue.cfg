SPECIFICATION FairSpec
CONSTANTS
    Producers = {p1, p2}
    Customers = {c1, c2, c3}
    Capacity = 2
    Mod = 2
INVARIANT NoLostWakeup
PROPERTY KeepsFlowing
