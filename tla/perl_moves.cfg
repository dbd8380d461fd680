CONSTANTS
    Exprs <- NoExprs
    MaxItems = 3
    MaxDepth = 1
SPECIFICATION Spec
INVARIANTS PostfixCovered
CHECK_DEADLOCK FALSE
