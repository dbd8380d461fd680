SPECIFICATION Spec
CONSTANTS
    Flags <- BothFlags
    Designs <- AllDesigns
    None = None
    MaxRuns = 3
    MaxStops = 2
INVARIANTS Converges MakeSafe CleanComplete
CHECK_DEADLOCK FALSE
