SPECIFICATION FairSpec
CONSTANTS
    c1 = c1
    c2 = c2
    w1 = w1
    w2 = w2
    Coros = {c1, c2}
    Cancellable = {c1}
    Workers = {w1, w2}
    MaxSession = 4
    None = None
INVARIANTS
    OneHandle
PROPERTIES
    WaiterResumes
CHECK_DEADLOCK FALSE
