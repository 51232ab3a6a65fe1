-------------------------- MODULE MCNetworkEvents --------------------------
(***************************************************************************)
(* An instance of NetworkEvents for TLC: a chain of three blocks of which  *)
(* the last names two blocks that can be missing, a block of the replica's *)
(* own beside it, and one message with each defect.                        *)
(***************************************************************************)
EXTENDS NetworkEvents

MCBlocks  == 1 .. 4
MCParent  == <<0, 1, 2, 1>>
MCJustify == <<0, 0, 1, 0>>
MCOwn     == {4}

Message(type, block, peer, defect) ==
    [type |-> type, block |-> block, peer |-> peer, defect |-> defect]

MCMessages == { Message("proposal", 3, "p1", "none"),
                Message("proposal", 2, "p1", "none"),
                Message("vote",     2, "p2", "none"),
                Message("proposal", 2, "p2", "body"),
                Message("proposal", 3, "p2", "certificate"),
                Message("vote",     2, "p1", "signature"),
                Message("vote",     3, "p2", "sender") }
=============================================================================
