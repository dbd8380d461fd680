CONSTANTS
    Names <- D
    Declarable <- D
    Vals <- Values
    None = None
    Malformed = Malformed
    Defaults <- Zero
    Forceds <- Seven
    Ranges <- Low
    Keywords <- Kws
    Setups <- AnySource
    ModuleNames <- Modules
    CfgKeys <- BothD
    CfgVal = 2
    Prios <- CfgPrios
    MaxCalls <- OneAndTwo
SPECIFICATION Spec
INVARIANTS LadderHolds ReportsTrue RangeHolds
PROPERTIES ForcedPinned
CHECK_DEADLOCK FALSE
