SPECIFICATION Spec
CONSTANT Hashes <- MCHashes
INVARIANTS
    LedgerOrderIsIndexOrder
    SlotIsFresh
PROPERTIES
    AppendsAreAnswered
    ImplementsLog
