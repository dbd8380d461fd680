CONSTANTS
    Absent = Absent
    Blank = Blank
    Pointer = Pointer
    Missing = Missing
    Runs <- All
    Paths <- AllPaths
    Names <- WVs
    MaxNest = 3
SPECIFICATION Spec
INVARIANTS Accumulates WalksAgree ReadsBack
PROPERTIES ReadsStick
CHECK_DEADLOCK FALSE
