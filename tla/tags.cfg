CONSTANTS
    MaxObjs = 6
    CloneOfClone = FALSE
SPECIFICATION Spec
INVARIANTS TagsExact BottomUp
CHECK_DEADLOCK FALSE
