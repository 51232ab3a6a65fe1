SPECIFICATION FairSpec
CONSTANT Setups <- RewindSetups
CHECK_DEADLOCK FALSE
PROPERTIES
    RewindCompletes
