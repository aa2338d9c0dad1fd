CONSTANTS
    Messages = 3
    Cost <- Costs
    Size = 2
    Prefix = 1
    MaxRestarts = 1
SPECIFICATION Spec
CHECK_DEADLOCK FALSE
INVARIANTS
    WaitersTracked
    SentInOrder
PROPERTIES
    Delivered
