SPECIFICATION Spec
CONSTANTS
    Blocks <- MCBlocks
    Parent <- MCParent
    Justify <- MCParent
    Height <- MCHeight
    EmptyBodies = {2}
    ByteBase = 2
    KeepDepth = 1
    MaxCrashes = 2
CHECK_DEADLOCK FALSE
INVARIANTS
    RestartIsPossible
    RecentIsServed
PROPERTIES
    IndexOnlyGrows
    GarbageIsCollected
