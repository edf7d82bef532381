SPECIFICATION Spec
CONSTANTS
    Threads = {t1, t2}
    Values = {1, 2, 9}
    NumBuckets = 7
INVARIANT SizeCounts
