CONSTANTS
    Classes <- Four
    Vals <- Bits
    None = None
    Missing = Missing
    TopClass = "top"
    Default <- Zero
    ForcedAt <- LeafForced
    Settings <- All
    Ops <- Programs
    MaxOps <- Lens
    MaxDepth = 4
SPECIFICATION FairSpec
INVARIANTS ScopesClose KeysHonest NoTwins DedupSound FilesFaithful FilesKept Acyclic SynonymServed
PROPERTIES KeysStable ParamsSealed Terminates
CHECK_DEADLOCK FALSE
