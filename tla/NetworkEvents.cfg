SPECIFICATION Spec
CONSTANTS
    Blocks <- MCBlocks
    Parent <- MCParent
    Justify <- MCJustify
    Self = "self"
    Peers = {"p1", "p2"}
    Messages <- MCMessages
    Own <- MCOwn
CHECK_DEADLOCK FALSE
INVARIANTS
    StoreIsClosed
    MessagesConserved
PROPERTIES
    MessagesReachCore
