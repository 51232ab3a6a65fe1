------------------------- MODULE MCHotstuffRecovery -------------------------
(***************************************************************************)
(* Instances of HotstuffRecovery for TLC.                                  *)
(***************************************************************************)
EXTENDS HotstuffRecovery, TLC

CONSTANTS r1, r2, r3

\* Two replicas, quorums of two: r1 proposes, restarts once at any moment and
\* builds on what its disk gave back, so that its own branches compete; r2 votes.
RestartIdsOf    == r1 :> 1 .. 6 @@ r2 :> {}
RestartMaxAhead == r1 :> 1 @@ r2 :> 0
RestartMax      == r1 :> 1 @@ r2 :> 0

\* Three replicas, quorums of two; r1 and r2 hear nothing of each other, and r3,
\* which hears both, restarts once.
SplitIdsOf    == r1 :> 1 .. 4 @@ r2 :> 11 .. 14 @@ r3 :> {}
SplitMaxAhead == r1 :> 1 @@ r2 :> 1 @@ r3 :> 0
SplitMax      == r1 :> 0 @@ r2 :> 0 @@ r3 :> 1
SplitLinks    == {<<r1, r1>>, <<r2, r2>>, <<r1, r3>>, <<r2, r3>>}
RestartLinks  == {r1, r2} \X {r1, r2}
=============================================================================
