----------------------------- MODULE MCVMBridge -----------------------------
(***************************************************************************)
(* Instances of VMBridge for TLC.  Ids of other leaders are kept apart     *)
(* from the small numbers CountingVM gives its own proposals.              *)
(***************************************************************************)
EXTENDS VMBridge

\* One leader, with more proposals than its buffer holds.
sole == [foreign |-> {}, waits |-> TRUE, bufferTarget |-> 3, maxForeign |-> 0, maxProposals |-> 9]

\* Leaders take turns, and the driver proposes ahead of its certificates.
handover == [foreign |-> {Empty, 50}, waits |-> FALSE, bufferTarget |-> 2,
             maxForeign |-> 2, maxProposals |-> 4]

\* The driver waits for its certificates and another leader conflicts.
conflict == [foreign |-> {Empty, 50}, waits |-> TRUE, bufferTarget |-> 3,
             maxForeign |-> 4, maxProposals |-> 4]

MCSetups      == {sole, handover}
RewindSetups  == {conflict}
=============================================================================
