SPECIFICATION FairSpec
CONSTANTS
    top = top
    pair = pair
    leaf = leaf
    in1 = in1
    in2 = in2
    Nodes = {top, pair, leaf, in1, in2}
    Root = top
    Kids <- TwoLevels
    Outside = Outside
    None = None
INVARIANTS
    JoinsAll
    CancelReachesTree
    FirstSuccessWins
PROPERTIES
    DecidedEnds
CHECK_DEADLOCK FALSE
