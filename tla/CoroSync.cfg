SPECIFICATION OwnersUnlockSpec
CONSTANTS
    c1 = c1
    c2 = c2
    c3 = c3
    t1 = t1
    None = None
    Coros = {c1, c2, c3}
    Tokens = {t1}
    TokenOf <- OneToken
    Ops = {"lock", "cv", "sleep", "cancel", "nest", "stop"}
INVARIANTS
    ExactlyOneResumption
    MutualExclusion
    LockHasOwner
    CancelReachesWaiters
PROPERTIES
    WaiterServed
CHECK_DEADLOCK FALSE
