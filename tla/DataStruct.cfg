SPECIFICATION AnySpec
CONSTANTS
    Lists = {l1, l2}
    ListNodes = {1, 2, 3, 4}
    ListValues = {1, 2}
    Nodes = {1, 2, 3, 4, 5}
    Values = {1, 4, 8, 9}
    Capacity = 3
    Items = 5
    Threads = {t1, t2}
    NumBuckets = 3
    Reserves = {2, 12}
    MaxBuckets = 7
    Handles = {h1, h2, h3}
    Objects = {o1, o2}
    None = None
INVARIANTS EmptyIsHonest FoundAfterRehash LinksMirror FreedOnce
PROPERTIES ImplementsDeques ImplementsFifoQueue ImplementsRehashTable
