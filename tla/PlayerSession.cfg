SPECIFICATION Spec
CONSTANTS
    MaxConns = 2
    Budgets <- MCBudgets
    None = None
INVARIANT RequestsInOrder
PROPERTIES LoginAnswered OfflineReported TurnComes
CHECK_DEADLOCK FALSE
