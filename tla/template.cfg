CONSTANTS
    Styles <- AllStyles
    Continued <- Further
    Texts <- Lines
    MaxItems = 8
    MaxDepth = 3
SPECIFICATION Spec
INVARIANTS InItsBlock LinesTrue
CHECK_DEADLOCK FALSE
