CONSTANTS
    Exprs <- AllExprs
    MaxItems = 5
    MaxDepth = 2
SPECIFICATION Spec
INVARIANTS ReachesTodo BackInStep OperatorsKept
CHECK_DEADLOCK FALSE
