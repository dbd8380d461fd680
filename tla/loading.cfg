SPECIFICATION Spec
CONSTANTS
    Places <- AllPlaces
    Trees <- AllTrees
    Malformed <- NoTemplate
    Raising <- NoModule
    SrcPath <- Src
    IncPath <- Inc
    Exts <- TwoExts
    Safe <- SafeOf
    CommandLines <- AllCommands
    Lists <- AllLists
    Relative = Relative
    PyPath <- Py
    Includes <- AllIncludes
    Names <- AllNames
    Top = "top"
    Targets <- AllTargets
    MaxProcesses = 2
    MaxEdits = 1
INVARIANTS DependComplete InputsListed OrderFree PyKept
PROPERTIES ClassesStable
CHECK_DEADLOCK FALSE
