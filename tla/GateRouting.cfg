CONSTANTS
    Services <- Names
    Home <- HomeOf
    Login <- Names
    Configured <- Fixed
    Addresses = 2
    Budgets <- Runs
    None = None
SPECIFICATION Spec
INVARIANT RoutedInOrder
PROPERTIES Routed ViewFresh
CHECK_DEADLOCK FALSE
