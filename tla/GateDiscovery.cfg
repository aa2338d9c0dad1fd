CONSTANTS
    g1 = g1
    g2 = g2
    s1 = s1
    None = None
    Gates <- MCGates
    Services <- MCServices
    MaxConn <- OneReconnects
    MaxLinks <- OneRelinks
    MaxFaults = 2
SPECIFICATION Spec
CHECK_DEADLOCK FALSE
INVARIANTS
    OneHome
    RegisteredAgree
    Converged
