SPECIFICATION FairSpec
CONSTANT Setups <- MCSetups
CHECK_DEADLOCK FALSE
INVARIANTS
    VMStateIsLedger
    SpeculatedIsProposed
    NeverThrows
PROPERTIES
    ProposeReturns
    CommitsAreApplied
