CONSTANTS
    Classes <- Four
    Vals <- Bits
    None = None
    Missing = Missing
    TopClass = "top"
    Default <- Zero
    ForcedAt <- LeafForced
    Settings <- Lost
    Ops <- Programs
    MaxOps <- Lens
    MaxDepth = 4
SPECIFICATION Spec
INVARIANTS FilesKept
CHECK_DEADLOCK FALSE
