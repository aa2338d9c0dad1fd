SPECIFICATION FairSpec
CONSTANTS
    p1 = p1
    p2 = p2
    p3 = p3
    n1 = n1
    n2 = n2
    n3 = n3
    Threads = {p1, p2, p3}
    Nodes = {n1, n2}
    Stub = Stub
    Null = Null
    Queued = Queued
INVARIANTS
    SizeCounts
PROPERTIES
    NothingStranded
    ImplementsFifo
    PopReturns
