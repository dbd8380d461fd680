CONSTANTS
    Exprs <- AllExprs
    MaxItems = 6
    MaxDepth = 2
SPECIFICATION Spec
INVARIANTS PlainPorted ElseTold ReadsAsWritten
CHECK_DEADLOCK FALSE
