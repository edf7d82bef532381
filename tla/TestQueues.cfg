SPECIFICATION FairSpec
CONSTANTS
    Producers = {p1, p2}
    Customers = {c1, c2}
    MaxLoop = 3
    Capacity = 3
    Rounds = 2
INVARIANTS EndsDrained ClockInOrder EndsUsable
PROPERTIES ImplementsFifoQueue MainEnds
