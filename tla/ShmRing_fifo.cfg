SPECIFICATION Spec
CONSTANTS
    a = a
    b = b
    e = e
    Messages = {a, b, e}
    LenOf <- Lengths013
    Prefix = 2
    Size = 7
    CounterMod = 16
    BufSizes = {0, 1, 3}
    None = None
    Crashes = "outside commits"
INVARIANTS
    CountersAgree
PROPERTIES
    ImplementsFifo
