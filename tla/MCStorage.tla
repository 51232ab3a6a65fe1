------------------------------ MODULE MCStorage ------------------------------
\* A chain long enough to commit, prune, and be asked to prune once more.
EXTENDS Storage

MCBlocks == 1 .. 6
MCParent == [b \in MCBlocks |-> b - 1]
MCHeight == [b \in MCBlocks \union {Genesis} |-> b]
=============================================================================
