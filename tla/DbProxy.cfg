CONSTANTS
    None = None
    MaxUser = 3
    Existing <- SomeExist
    Workers = {w1, w2}
    Budgets <- SomeBudgets
    Width = 3
    MaxReports = 0
SPECIFICATION Spec
CHECK_DEADLOCK FALSE
INVARIANTS
    ToldTheTruth
PROPERTIES
    UpdatesInOrder
    CallsAnswered
    WrittenBack
