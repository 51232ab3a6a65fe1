--------------------------- MODULE MCHotstuffCore ---------------------------
(***************************************************************************)
(* Instances of HotstuffCore for TLC.                                      *)
(***************************************************************************)
EXTENDS HotstuffCore, TLC

CONSTANTS r1, r2, r3

\* Two replicas, quorums of two.  r1 proposes up to two blocks ahead of its
\* highest certificate, so that a branch grows before it is certified, and has
\* blocks enough to commit two at once; r2 competes with two of its own.
PipelineIdsOf    == r1 :> 1 .. 5 @@ r2 :> 11 .. 12
PipelineMaxAhead == r1 :> 2 @@ r2 :> 1
=============================================================================
