\* The bound MaxDepth = 3 gives an inner, a middle and an outer block.
CONSTANTS
    Keys = {k1, k2}
    Vals = {v1, v2}
    Missing = Missing
    MaxDepth = 3
SPECIFICATION Spec
INVARIANTS TypeOK JournalsNest
PROPERTY ImplementsSnapshots
