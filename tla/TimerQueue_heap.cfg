SPECIFICATION Spec
CONSTANTS
    n1 = n1
    n2 = n2
    n3 = n3
    n4 = n4
    n5 = n5
    n6 = n6
    Nodes <- MCNodes
    Points <- MCPoints
SYMMETRY NodeSymmetry
INVARIANTS
    NoOversleep
PROPERTY ImplementsTimerSet
