---------------------- MODULE HotstuffRecovery_proofs ----------------------
(***************************************************************************)
(* Proofs about HotstuffRecovery, for every number of crashes at every     *)
(* moment, also between two files of one handler.                          *)
(*                                                                         *)
(* What a replica has executed is on its disk in every state, however many *)
(* replicas restart.  That executed blocks are final needs voters that     *)
(* have not forgotten what they voted for: as long as fewer replicas have  *)
(* restarted than any two quorums share, one that has not is in every      *)
(* overlap, and the argument of the core goes through for those alone.     *)
(***************************************************************************)
EXTENDS HotstuffRecovery, HotstuffCore_proofs

-----------------------------------------------------------------------------
\* Two quorums share 2 * nmajority - n replicas or more; if fewer than that are
\* outside T, one of those shared is in T.
LEMMA OverlapMeets ==
  ASSUME NEW T \in SUBSET Replicas, Cardinality(Replicas \ T) < QuorumOverlap
  PROVE  QuorumsMeetIn(T)
<1> SUFFICES ASSUME NEW A \in SUBSET Replicas, NEW B \in SUBSET Replicas,
                    IsQuorum(A), IsQuorum(B), A \cap B \cap T = {}
             PROVE  FALSE
  BY DEF QuorumsMeetIn
<1> DEFINE out == Replicas \ T
<1>1. /\ IsFiniteSet(Replicas) /\ IsFiniteSet(A) /\ IsFiniteSet(B) /\ IsFiniteSet(out)
      /\ IsFiniteSet(A \cap B) /\ IsFiniteSet(A \cup B)
  BY ReplicasAssumption, FS_Subset
<1>2. /\ Cardinality(Replicas) \in Nat /\ Cardinality(A) \in Nat /\ Cardinality(B) \in Nat
      /\ Cardinality(out) \in Nat /\ Cardinality(A \cap B) \in Nat
      /\ Cardinality(A \cup B) \in Nat
  BY <1>1, FS_CardinalityType
<1>3. Cardinality(A \cup B) = Cardinality(A) + Cardinality(B) - Cardinality(A \cap B)
  BY <1>1, FS_Union
<1>4. Cardinality(A \cup B) <= Cardinality(Replicas)
  BY <1>1, FS_Subset
<1>5. Cardinality(A \cap B) <= Cardinality(out)
  <2>1. A \cap B \in SUBSET out
    OBVIOUS
  <2> QED BY <1>1, <2>1, FS_Subset
<1>6. Cardinality(out) < 2 * nmajority - Cardinality(Replicas)
  BY DEF QuorumOverlap
<1>7. Cardinality(A) >= nmajority /\ Cardinality(B) >= nmajority
  BY DEF IsQuorum
<1>8. nmajority \in Int
  BY <1>2 DEF nmajority
<1> HIDE DEF out
<1> QED BY <1>2, <1>3, <1>4, <1>5, <1>6, <1>7, <1>8

\* While few replicas have restarted, any two quorums share a steady one.
LEMMA SteadyMeets ==
  ASSUME FewRestarts
  PROVE  QuorumsMeetIn(Steady)
<1>1. Steady \in SUBSET Replicas /\ Replicas \ Steady = Restarted
  BY DEF Steady, Restarted
<1> QED BY <1>1, OverlapMeets DEF FewRestarts

\* The same of the state after a step.
LEMMA SteadyMeetsNext ==
  ASSUME FewRestarts'
  PROVE  QuorumsMeetIn(Steady')
<1>1. Steady' \in SUBSET Replicas /\ Replicas \ Steady' = Restarted'
  BY DEF Steady, Restarted
<1>2. Cardinality(Restarted') < QuorumOverlap
  BY DEF FewRestarts, QuorumOverlap, nmajority
<1> QED BY <1>1, <1>2, OverlapMeets

\* Replicas only ever join those that have restarted.
LEMMA FewRestartsBefore ==
  ASSUME Restarted \subseteq Restarted', FewRestarts'
  PROVE  FewRestarts
<1>1. IsFiniteSet(Restarted') /\ Restarted \in SUBSET (Restarted')
  BY ReplicasAssumption, FS_Subset DEF Restarted
<1>2. /\ Cardinality(Restarted) <= Cardinality(Restarted') /\ IsFiniteSet(Restarted)
  BY <1>1, FS_Subset
<1>3. Cardinality(Restarted) \in Nat /\ Cardinality(Restarted') \in Nat
  BY <1>1, <1>2, FS_CardinalityType
<1>4. Cardinality(Replicas) \in Nat
  BY ReplicasAssumption, FS_CardinalityType
<1>5. QuorumOverlap \in Int
  BY <1>4 DEF QuorumOverlap, nmajority
<1>6. Cardinality(Restarted') < QuorumOverlap
  BY DEF FewRestarts, QuorumOverlap, nmajority
<1> QED BY <1>2, <1>3, <1>5, <1>6 DEF FewRestarts

-----------------------------------------------------------------------------
(***************************************************************************)
(* A handler that runs to its end.                                         *)
(***************************************************************************)

\* It is a step of the core.
LEMMA RunIsCoreStep ==
  ASSUME RunNext
  PROVE  Next
BY DEF RunNext, Next

\* It leaves on disk what it has executed and written.
LEMMA RunKeepsDisk ==
  ASSUME BaseInv, DiskInv, RunNext
  PROVE  DiskInv'
<1>1. Next /\ BaseInv'
  BY RunIsCoreStep, StepBase
<1>2. /\ files' = [r \in Replicas |-> files[r] \union written'[r]]
      /\ index' = [r \in Replicas |-> index[r] \union decided'[r]]
      /\ index_qc' = [r \in Replicas |->
                        IF decided'[r] = decided[r] THEN index_qc[r] ELSE b_exec'[r]]
      /\ UNCHANGED <<restarts, failed>>
  BY DEF RunNext, save, save_blocks, add_decided_blocks, set_qc_on_top_block
<1>3. /\ decided \in [Replicas -> SUBSET Blocks] /\ decided' \in [Replicas -> SUBSET Blocks]
      /\ b_exec \in [Replicas -> Blocks] /\ b_exec' \in [Replicas -> Blocks]
      /\ written' \in [Replicas -> SUBSET Blocks]
  BY <1>1 DEF BaseInv, TypeOK
<1>4. \A r \in Replicas : /\ decided[r] = anc[b_exec[r]] /\ decided'[r] = anc'[b_exec'[r]]
                          /\ b_exec[r] \in minted /\ b_exec'[r] \in minted'
  BY <1>1 DEF BaseInv, PointerInv
<1>5. \A r \in Replicas : b_exec[r] \in anc'[b_exec'[r]]
  BY <1>1, StepExtends
<1>6. \A b \in minted : anc'[b] = anc[b]
  BY <1>1, StepKeepsBlocks
<1>7. \A r \in Replicas : decided[r] \subseteq decided'[r]
  BY <1>1, <1>4, <1>5, <1>6 DEF BaseInv, TreeInv
<1>8. index' = decided'
  BY <1>2, <1>3, <1>7 DEF DiskInv
<1>9. ASSUME NEW r \in Replicas, decided'[r] = decided[r]
      PROVE  b_exec'[r] = b_exec[r]
  <2>1. b_exec'[r] \in anc[b_exec[r]] /\ anc'[b_exec[r]] = anc[b_exec[r]]
    BY <1>1, <1>4, <1>6, <1>9 DEF BaseInv, TreeInv
  <2>2. b_exec[r] \in minted' /\ b_exec'[r] \in anc'[b_exec[r]]
    BY <1>1, <1>4, <1>5, <2>1 DEF BaseInv, TreeInv
  <2>3. /\ b_exec'[r] # b_exec[r] => height'[b_exec'[r]] < height'[b_exec[r]]
        /\ b_exec'[r] # b_exec[r] => height'[b_exec[r]] < height'[b_exec'[r]]
    BY <1>1, <1>4, <1>5, <2>2 DEF BaseInv, TreeInv
  <2>4. height'[b_exec'[r]] \in Int /\ height'[b_exec[r]] \in Int
    BY <1>1, <1>4, <2>2, HeightAssumption DEF BaseInv, TypeOK
  <2> QED BY <2>3, <2>4
<1>10. index_qc' = b_exec'
  BY <1>2, <1>3, <1>9 DEF DiskInv
<1>11. files' \in [Replicas -> SUBSET Blocks] /\ \A r \in Replicas : written'[r] \subseteq files'[r]
  BY <1>2, <1>3 DEF DiskInv
<1> QED BY <1>2, <1>8, <1>10, <1>11 DEF DiskInv

\* A handler that runs to its end preserves the invariant.
LEMMA RunPreserves ==
  ASSUME RecoveryInv, RunNext
  PROVE  RecoveryInv'
<1>1. Next /\ BaseInv' /\ DiskInv'
  BY RunIsCoreStep, StepBase, RunKeepsDisk DEF RecoveryInv
<1>2. UNCHANGED <<restarts, failed>>
  BY DEF RunNext
<1>3. Steady' = Steady /\ FewRestarts' = FewRestarts
  BY <1>2 DEF Steady, FewRestarts, Restarted, QuorumOverlap, nmajority
<1>4. ASSUME FewRestarts'
      PROVE  SafeInv(Steady)' /\ failed' = {}
  <2>1. SafeInv(Steady) /\ failed = {}
    BY <1>3, <1>4 DEF RecoveryInv
  <2>2. PICK T : T = Steady
    OBVIOUS
  <2>3. SafeInv(T)
    BY <2>1, <2>2
  <2>4. SafeInv(T)'
    BY <1>1, <2>3, StepSafe DEF RecoveryInv
  <2>5. SafeInv(Steady)'
    BY <1>3, <2>2, <2>4
  <2> QED BY <1>2, <2>1, <2>5
<1> QED BY <1>1, <1>4 DEF RecoveryInv

-----------------------------------------------------------------------------
(***************************************************************************)
(* A crash and the restart after it.  Both kinds of crash only add votes   *)
(* of r for a proposed block, and files.                                   *)
(***************************************************************************)
OnlyVotesOf(r) ==
    /\ votes \subseteq votes'
    /\ \A m \in votes' \ votes :
         m \in Replicas \X Blocks \X Replicas /\ m[1] = r /\ m[2] \in minted \ {Genesis}

\* Both crashes are of this form.
LEMMA CrashForm ==
  ASSUME BaseInv, DiskInv,
         \/ \E r \in Replicas : Restart(r)
         \/ \E r \in Replicas, h \in 0 .. MaxHeight : \E m \in proposals :
              CrashInHandler(r, m[1], m[2], h)
  PROVE  \E r \in Replicas :
           /\ may_restart(r) /\ init_from_disk(r) /\ OnlyVotesOf(r)
           /\ files' \in [Replicas -> SUBSET Blocks]
           /\ \A s \in Replicas : files[s] \subseteq files'[s]
<1>1. ASSUME NEW r \in Replicas, Restart(r)
      PROVE  /\ may_restart(r) /\ init_from_disk(r) /\ OnlyVotesOf(r)
             /\ files' \in [Replicas -> SUBSET Blocks]
             /\ \A s \in Replicas : files[s] \subseteq files'[s]
  <2>1. may_restart(r) /\ init_from_disk(r) /\ UNCHANGED <<files, votes>>
    BY <1>1 DEF Restart
  <2> QED BY <2>1 DEF OnlyVotesOf, DiskInv
<1>2. ASSUME NEW r \in Replicas, NEW h \in 0 .. MaxHeight, NEW m \in proposals,
             CrashInHandler(r, m[1], m[2], h)
      PROVE  /\ may_restart(r) /\ init_from_disk(r) /\ OnlyVotesOf(r)
             /\ files' \in [Replicas -> SUBSET Blocks]
             /\ \A s \in Replicas : files[s] \subseteq files'[s]
  <2> DEFINE n == m[1]
             p == m[2]
             part == interrupted_write(r, new_lock(r, n), h)
  <2>1. n \in minted \ {Genesis} /\ n \in Blocks /\ p \in Replicas
    BY DEF BaseInv, TypeOK, PointerInv
  <2>2. /\ may_restart(r) /\ init_from_disk(r)
        /\ votes' = votes \/ votes' = votes \union {<<r, n, p>>}
        /\ files' = files \/ files' = [files EXCEPT ![r] = @ \union part]
    BY <1>2 DEF CrashInHandler
  <2>3. part \subseteq Blocks
    <3>1. new_lock(r, n) \in minted
      BY <2>1, JustifyChain DEF new_lock, BaseInv, PointerInv
    <3>2. \A a \in write_to_disk(r, new_lock(r, n)) : a \in minted
      BY <3>1, WriteToDisk
    <3> QED BY <3>2 DEF interrupted_write, BaseInv, TypeOK
  <2> HIDE DEF n, p, part
  <2>4. OnlyVotesOf(r)
    BY <2>1, <2>2 DEF OnlyVotesOf
  <2> QED BY <2>2, <2>3, <2>4 DEF DiskInv
<1> QED BY <1>1, <1>2

\* A replica that finds its files restarts at b_exec, with b_exec's chain decided
\* and on disk; one that does not stays as it was.
LEMMA ReloadEffect ==
  ASSUME BaseInv, DiskInv, NEW r \in Replicas, init_from_disk(r)
  PROVE  /\ UNCHANGED <<minted, parent, justify, height, anc, proposals, breached>>
         /\ UNCHANGED <<index, index_qc, b_exec, decided>>
         /\ restarts' = [restarts EXCEPT ![r] = @ + 1]
         /\ \/ /\ failed' = failed /\ decided[r] \subseteq files[r]
               /\ hqc' = [hqc EXCEPT ![r] = b_exec[r]]
               /\ b_leaf' = [b_leaf EXCEPT ![r] = b_exec[r]]
               /\ b_lock' = [b_lock EXCEPT ![r] = b_exec[r]]
               /\ vheight' = [vheight EXCEPT ![r] = height[b_exec[r]]]
               /\ written' = [written EXCEPT ![r] = anc[b_exec[r]]]
               /\ self_qc' = [self_qc EXCEPT ![r] = [b \in Blocks |-> {}]]
            \/ /\ failed' = failed \union {r} /\ ~(decided[r] \subseteq files[r])
               /\ UNCHANGED <<hqc, b_leaf, b_lock, vheight, written, self_qc>>
<1>1. /\ index = decided /\ index_qc = b_exec
      /\ b_exec \in [Replicas -> Blocks] /\ decided \in [Replicas -> SUBSET Blocks]
      /\ decided[r] = anc[b_exec[r]] /\ b_exec[r] \in anc[b_exec[r]]
  BY DEF DiskInv, BaseInv, TypeOK, PointerInv, TreeInv
<1>2. /\ UNCHANGED <<minted, parent, justify, height, anc, proposals, index, index_qc>>
      /\ restarts' = [restarts EXCEPT ![r] = @ + 1]
  BY DEF init_from_disk, blockVars
<1>3. load_decided_blocks_ok(r) <=> decided[r] \subseteq files[r]
  BY <1>1 DEF load_decided_blocks_ok
<1>4. find_block_by_hash_ok(r)
  BY <1>1 DEF find_block_by_hash_ok
<1>5. height[b_exec[r]] % VHeightModulus = height[b_exec[r]]
  <2>1. height[b_exec[r]] \in 0 .. MaxHeight
    BY <1>1 DEF BaseInv, TypeOK
  <2> QED BY <2>1, HeightAssumption
<1>6. CASE load_decided_blocks_ok(r)
  <2>1. /\ reload_state_from_index(r)
        /\ decided' = [decided EXCEPT ![r] = decided[r]]
        /\ written' = [written EXCEPT ![r] = anc[b_exec[r]]]
        /\ self_qc' = [self_qc EXCEPT ![r] = [b \in Blocks |-> {}]]
        /\ UNCHANGED <<breached, failed>>
    BY <1>1, <1>4, <1>6 DEF init_from_disk
  <2>2. /\ hqc' = [hqc EXCEPT ![r] = b_exec[r]]
        /\ b_leaf' = [b_leaf EXCEPT ![r] = b_exec[r]]
        /\ b_lock' = [b_lock EXCEPT ![r] = b_exec[r]]
        /\ b_exec' = [b_exec EXCEPT ![r] = b_exec[r]]
        /\ vheight' = [vheight EXCEPT ![r] = height[b_exec[r]]]
    BY <1>1, <1>5, <2>1 DEF reload_state_from_index
  <2>3. b_exec' = b_exec /\ decided' = decided
    BY <1>1, <2>1, <2>2
  <2> QED BY <1>2, <1>3, <1>6, <2>1, <2>2, <2>3
<1>7. CASE ~load_decided_blocks_ok(r)
  <2>1. failed' = failed \union {r} /\ UNCHANGED <<chainVars, execVars, vheight, self_qc>>
    BY <1>7 DEF init_from_disk
  <2> QED BY <1>2, <1>3, <1>7, <2>1 DEF chainVars, execVars
<1> QED BY <1>6, <1>7

\* A restart keeps the base of the core's invariant.
LEMMA ReloadBase ==
  ASSUME BaseInv, DiskInv, NEW r \in Replicas, init_from_disk(r), OnlyVotesOf(r)
  PROVE  BaseInv'
<1>1. /\ UNCHANGED <<minted, parent, justify, height, anc, proposals, breached>>
      /\ UNCHANGED <<b_exec, decided>>
  BY ReloadEffect
<1>2. \A b : Certified(b) => Certified(b)'
  BY CertifiedMonotone DEF OnlyVotesOf
<1>3. \A b : Voters(b) \subseteq Voters(b)'
  BY DEF OnlyVotesOf, Voters, Voted
<1>4. /\ votes' \subseteq Replicas \X Blocks \X Replicas
      /\ \A m \in votes' : m[2] \in minted \ {Genesis}
  BY DEF OnlyVotesOf, BaseInv, TypeOK, PointerInv
<1>5. /\ b_exec[r] \in minted /\ b_exec[r] \in Blocks /\ b_exec[r] \in anc[b_exec[r]]
      /\ anc[b_exec[r]] \subseteq minted /\ anc[b_exec[r]] \subseteq Blocks
      /\ \A a \in anc[b_exec[r]] : anc[a] \subseteq anc[b_exec[r]]
      /\ height[b_exec[r]] \in 0 .. MaxHeight /\ Certified(b_exec[r])
  BY ExecCertified DEF BaseInv, TypeOK, PointerInv, TreeInv
<1>6. /\ hqc' \in [Replicas -> Blocks] /\ b_leaf' \in [Replicas -> Blocks]
      /\ b_lock' \in [Replicas -> Blocks] /\ vheight' \in [Replicas -> 0 .. MaxHeight]
      /\ written' \in [Replicas -> SUBSET Blocks]
      /\ self_qc' \in [Replicas -> [Blocks -> SUBSET Replicas]]
  <2>1. [b \in Blocks |-> {}] \in [Blocks -> SUBSET Replicas]
    OBVIOUS
  <2>2. \/ self_qc' = [self_qc EXCEPT ![r] = [b \in Blocks |-> {}]]
        \/ self_qc' = self_qc
    BY ReloadEffect
  <2>3. self_qc' \in [Replicas -> [Blocks -> SUBSET Replicas]]
    BY <2>1, <2>2 DEF BaseInv, TypeOK
  <2>4. \/ /\ hqc' = [hqc EXCEPT ![r] = b_exec[r]]
           /\ b_leaf' = [b_leaf EXCEPT ![r] = b_exec[r]]
           /\ b_lock' = [b_lock EXCEPT ![r] = b_exec[r]]
           /\ vheight' = [vheight EXCEPT ![r] = height[b_exec[r]]]
           /\ written' = [written EXCEPT ![r] = anc[b_exec[r]]]
        \/ UNCHANGED <<hqc, b_leaf, b_lock, vheight, written>>
    BY ReloadEffect
  <2>5. /\ hqc' \in [Replicas -> Blocks] /\ b_leaf' \in [Replicas -> Blocks]
        /\ b_lock' \in [Replicas -> Blocks] /\ vheight' \in [Replicas -> 0 .. MaxHeight]
        /\ written' \in [Replicas -> SUBSET Blocks]
    BY <1>5, <2>4 DEF BaseInv, TypeOK
  <2> QED BY <2>3, <2>5
<1>7. \A s \in Replicas :
        \/ /\ hqc'[s] = hqc[s] /\ b_leaf'[s] = b_leaf[s] /\ b_lock'[s] = b_lock[s]
           /\ written'[s] = written[s] /\ self_qc'[s] = self_qc[s]
        \/ /\ s = r /\ hqc'[s] = b_exec[r] /\ b_leaf'[s] = b_exec[r] /\ b_lock'[s] = b_exec[r]
           /\ written'[s] = anc[b_exec[r]] /\ \A b \in Blocks : self_qc'[s][b] = {}
  BY ReloadEffect DEF BaseInv, TypeOK
<1>8. TypeOK'
  BY <1>1, <1>4, <1>6 DEF BaseInv, TypeOK
<1>9. TreeInv'
  BY <1>1 DEF BaseInv, TreeInv
<1>10. PointerInv'
  <2>1. \A s \in Replicas : /\ {hqc'[s], b_leaf'[s], b_lock'[s], b_exec[s]} \subseteq minted
                            /\ hqc'[s] \in anc[b_leaf'[s]]
                            /\ decided[s] = anc[b_exec[s]]
    BY <1>5, <1>7 DEF BaseInv, PointerInv
  <2>2. \A s \in Replicas : \A b \in Blocks : self_qc'[s][b] \subseteq Voters(b)'
    BY <1>3, <1>7 DEF BaseInv, PointerInv
  <2> QED BY <1>1, <1>4, <2>1, <2>2 DEF BaseInv, PointerInv
<1>11. CertifiedByQuorum'
  BY <1>1, <1>2, <1>5, <1>7 DEF BaseInv, CertifiedByQuorum
<1>12. HeadInv'
  BY <1>1, <1>2 DEF BaseInv, HeadInv, ThreeChain
<1>13. WrittenInv'
  BY <1>1, <1>5, <1>7 DEF BaseInv, WrittenInv
<1> QED BY <1>8, <1>9, <1>10, <1>11, <1>12, <1>13 DEF BaseInv

\* The index stays what the replica has executed.
LEMMA ReloadDisk ==
  ASSUME BaseInv, DiskInv, NEW r \in Replicas, init_from_disk(r),
         files' \in [Replicas -> SUBSET Blocks],
         \A s \in Replicas : files[s] \subseteq files'[s]
  PROVE  DiskInv' /\ Restarted' = Restarted \union {r}
<1>1. /\ UNCHANGED <<index, index_qc, b_exec, decided>>
      /\ restarts' = [restarts EXCEPT ![r] = @ + 1]
      /\ failed' = failed \/ failed' = failed \union {r}
  BY ReloadEffect
<1>2. \A s \in Replicas : \/ written'[s] = written[s]
                          \/ written'[s] = decided[s] /\ decided[s] \subseteq files[s]
  <2>1. /\ written \in [Replicas -> SUBSET Blocks] /\ decided[r] = anc[b_exec[r]]
    BY DEF BaseInv, TypeOK, PointerInv
  <2>2. \/ written' = [written EXCEPT ![r] = anc[b_exec[r]]] /\ decided[r] \subseteq files[r]
        \/ written' = written
    BY ReloadEffect
  <2> QED BY <2>1, <2>2
<1>3. restarts' \in [Replicas -> Nat]
  BY <1>1 DEF DiskInv
<1>4. Restarted' = Restarted \union {r}
  BY <1>1 DEF DiskInv, Restarted
<1> QED BY <1>1, <1>2, <1>3, <1>4 DEF DiskInv

\* The replicas other than r keep their promises, and those are all that is left
\* of the steady ones.
LEMMA ReloadSafe ==
  ASSUME NEW T, NEW S, BaseInv, DiskInv, SafeInv(T), QuorumsMeetIn(S),
         NEW r \in Replicas, init_from_disk(r), OnlyVotesOf(r), S = T \ {r}
  PROVE  SafeInv(S)' /\ failed' = failed
<1>1. /\ UNCHANGED <<minted, parent, justify, height, anc, proposals, breached>>
      /\ UNCHANGED <<b_exec, decided>>
  BY ReloadEffect
<1>2. decided[r] \subseteq files[r]
  BY DEF DiskInv, BaseInv, SafeInv, PointerInv, TreeInv, ExecInv, WrittenInv
<1>3. /\ failed' = failed
      /\ b_lock' = [b_lock EXCEPT ![r] = b_exec[r]]
      /\ vheight' = [vheight EXCEPT ![r] = height[b_exec[r]]]
  BY <1>2, ReloadEffect
<1>4. /\ S \subseteq Replicas \ {r} /\ S \subseteq T /\ b_lock'[r] = b_exec[r]
      /\ \A v \in Replicas \ {r} : b_lock'[v] = b_lock[v] /\ vheight'[v] = vheight[v]
  BY <1>3 DEF QuorumsMeetIn, BaseInv, TypeOK
<1>5. \A b : Certified(b) => Certified(b)'
  BY CertifiedMonotone DEF OnlyVotesOf
<1>6. \A v \in S, b \in minted : Voted(v, b)' = Voted(v, b)
  <2>1. ASSUME NEW v \in S, NEW b, NEW p, <<v, b, p>> \in votes'
        PROVE  <<v, b, p>> \in votes
    <3>1. <<v, b, p>>[1] = v /\ v # r
      BY <1>4
    <3> QED BY <2>1, <3>1 DEF OnlyVotesOf
  <2> QED BY <2>1 DEF OnlyVotesOf, Voted
<1>7. QuorumsMeetIn(S)' /\ NoSafetyBreach'
  BY <1>1 DEF SafeInv, QuorumsMeetIn, NoSafetyBreach
<1>8. OneVoteOf(S)'
  BY <1>1, <1>4, <1>6 DEF SafeInv, OneVoteOf
<1>9. VoteInv(S)'
  <2> SUFFICES ASSUME NEW v \in S, NEW a \in minted, Voted(v, a)'
               PROVE  /\ height[a] <= vheight'[v]
                      /\ height[justify[justify[a]]] <= height[b_lock'[v]]
                      /\ \A c \in minted :
                           Voted(v, c)' /\ height[a] < height[c] =>
                             \E d \in anc[c] \ {c} :
                                 Certified(d)' /\ height[justify[justify[a]]] <= height[d]
    BY <1>1 DEF VoteInv
  <2>1. v \in T /\ Voted(v, a) /\ b_lock'[v] = b_lock[v] /\ vheight'[v] = vheight[v]
    BY <1>4, <1>6
  <2>2. height[a] <= vheight'[v] /\ height[justify[justify[a]]] <= height[b_lock'[v]]
    BY <2>1 DEF SafeInv, VoteInv
  <2>3. ASSUME NEW c \in minted, Voted(v, c)', height[a] < height[c]
        PROVE  \E d \in anc[c] \ {c} :
                 Certified(d)' /\ height[justify[justify[a]]] <= height[d]
    <3>1. PICK d \in anc[c] \ {c} : Certified(d) /\ height[justify[justify[a]]] <= height[d]
      BY <1>6, <2>1, <2>3 DEF SafeInv, VoteInv
    <3> QED BY <1>5, <3>1
  <2> QED BY <2>2, <2>3
<1>10. ExecInv(S)'
  <2>1. b_exec[r] \in anc[b_exec[r]]
    BY DEF BaseInv, PointerInv, TreeInv
  <2> QED BY <1>1, <1>4, <2>1 DEF SafeInv, ExecInv
<1> QED BY <1>3, <1>7, <1>8, <1>9, <1>10 DEF SafeInv

\* A crash and restart preserves the invariant.
LEMMA CrashPreserves ==
  ASSUME RecoveryInv,
         \/ \E r \in Replicas : Restart(r)
         \/ \E r \in Replicas, h \in 0 .. MaxHeight : \E m \in proposals :
              CrashInHandler(r, m[1], m[2], h)
  PROVE  RecoveryInv'
<1>1. BaseInv /\ DiskInv
  BY DEF RecoveryInv
<1>2. PICK r \in Replicas : /\ init_from_disk(r) /\ OnlyVotesOf(r)
                            /\ files' \in [Replicas -> SUBSET Blocks]
                            /\ \A s \in Replicas : files[s] \subseteq files'[s]
  BY <1>1, CrashForm
<1>3. BaseInv'
  BY <1>1, <1>2, ReloadBase
<1>4. DiskInv' /\ Restarted' = Restarted \union {r}
  BY <1>1, <1>2, ReloadDisk
<1>5. ASSUME FewRestarts'
      PROVE  SafeInv(Steady)' /\ failed' = {}
  <2>1. FewRestarts
    BY <1>4, <1>5, FewRestartsBefore
  <2>2. SafeInv(Steady) /\ failed = {}
    BY <2>1 DEF RecoveryInv
  <2>3. PICK T, S : T = Steady /\ S = Steady'
    OBVIOUS
  <2>4. S = T \ {r}
    BY <1>4, <2>3 DEF Steady
  <2>5. SafeInv(T) /\ QuorumsMeetIn(S)
    BY <1>5, <2>2, <2>3, SteadyMeetsNext
  <2>6. SafeInv(S)' /\ failed' = failed
    BY <1>1, <1>2, <2>4, <2>5, ReloadSafe
  <2>7. SafeInv(Steady)'
    BY <2>3, <2>6
  <2> QED BY <2>2, <2>6, <2>7
<1> QED BY <1>3, <1>4, <1>5 DEF RecoveryInv

-----------------------------------------------------------------------------
(***************************************************************************)
(* The invariant and what follows from it.                                 *)
(***************************************************************************)

\* Nothing has restarted at first.
LEMMA RecoveryInitEstablishes == RecoveryInit => RecoveryInv
<1> SUFFICES ASSUME RecoveryInit PROVE RecoveryInv
  OBVIOUS
<1>1. BaseInv /\ SafeInv(Replicas)
  BY InitEstablishes DEF RecoveryInit, IInv
<1>2. DiskInv
  <2>1. Genesis \in Blocks
    BY DEF Blocks
  <2> QED BY <2>1 DEF RecoveryInit, Init, DiskInv
<1>3. Steady = Replicas
  BY DEF RecoveryInit, Steady, Restarted
<1>4. failed = {}
  BY DEF RecoveryInit
<1> QED BY <1>1, <1>2, <1>3, <1>4 DEF RecoveryInv

\* A step that changes nothing.
LEMMA RecoveryStutter ==
  ASSUME RecoveryInv, UNCHANGED recoveryVars
  PROVE  RecoveryInv'
<1>1. /\ UNCHANGED <<blockVars, chainVars, execVars, vheight, self_qc, proposals, votes>>
      /\ UNCHANGED <<files, index, index_qc, restarts, failed>>
  BY DEF recoveryVars, vars, diskVars
<1>2. TypeOK'
  BY <1>1 DEF RecoveryInv, BaseInv, TypeOK, blockVars, chainVars, execVars
<1>3. PointerInv'
  BY <1>1 DEF RecoveryInv, BaseInv, PointerInv, Voters, Voted, blockVars, chainVars, execVars
<1>4. \A r \in Replicas : Certified(hqc'[r])
  BY <1>1 DEF RecoveryInv, BaseInv, CertifiedByQuorum, chainVars
<1>5. BaseInv'
  BY <1>1, <1>2, <1>3, <1>4, QuietBase DEF RecoveryInv
<1>6. DiskInv'
  BY <1>1 DEF RecoveryInv, DiskInv, execVars
<1>7. Steady' = Steady /\ FewRestarts' = FewRestarts
  BY <1>1 DEF Steady, FewRestarts, Restarted, QuorumOverlap, nmajority
<1>8. ASSUME FewRestarts'
      PROVE  SafeInv(Steady)' /\ failed' = {}
  <2>1. SafeInv(Steady) /\ failed = {}
    BY <1>7, <1>8 DEF RecoveryInv
  <2>2. PICK T : T = Steady
    OBVIOUS
  <2>3. SafeInv(T)
    BY <2>1, <2>2
  <2>4. SafeInv(T)'
    BY <1>1, <2>3, QuietSafe
  <2>5. SafeInv(Steady)'
    BY <1>7, <2>2, <2>4
  <2> QED BY <1>1, <2>1, <2>5
<1> QED BY <1>5, <1>6, <1>8 DEF RecoveryInv

\* The invariant holds in every reachable state, whenever replicas crash.
THEOREM RecoveryInvariant == RecoverySpec => []RecoveryInv
<1>1. RecoveryInv /\ [RecoveryNext]_recoveryVars => RecoveryInv'
  <2> SUFFICES ASSUME RecoveryInv, [RecoveryNext]_recoveryVars PROVE RecoveryInv'
    OBVIOUS
  <2>1. CASE RunNext
    BY <2>1, RunPreserves
  <2>2. CASE \/ \E r \in Replicas : Restart(r)
             \/ \E r \in Replicas, h \in 0 .. MaxHeight : \E m \in proposals :
                  CrashInHandler(r, m[1], m[2], h)
    BY <2>2, CrashPreserves
  <2>3. CASE UNCHANGED recoveryVars
    BY <2>3, RecoveryStutter
  <2> QED BY <2>1, <2>2, <2>3 DEF RecoveryNext
<1> QED BY <1>1, RecoveryInitEstablishes, PTL DEF RecoverySpec

\* init_from_disk never throws while fewer replicas have restarted than any two
\* quorums share: every block of the index has its file, whenever the crash came.
THEOREM RestartsSucceed == RecoverySpec => []RestartSucceeds
<1>1. RecoveryInv => RestartSucceeds
  BY DEF RecoveryInv, RestartSucceeds
<1> QED BY <1>1, RecoveryInvariant, PTL

\* Executed blocks stay final, replicas agree and "safety breached" is not thrown
\* while fewer replicas have restarted than any two quorums share.
THEOREM FewRestartsSafe == RecoverySpec => []FewRestartsAreSafe
<1>1. RecoveryInv => FewRestartsAreSafe
  <2> SUFFICES ASSUME RecoveryInv, FewRestarts
               PROVE  DecidedIsFinal /\ Agreement /\ NoSafetyBreach
    BY DEF FewRestartsAreSafe
  <2>1. BaseInv /\ SafeInv(Steady)
    BY DEF RecoveryInv
  <2>2. PICK T : T = Steady
    OBVIOUS
  <2>3. SafeInv(T)
    BY <2>1, <2>2
  <2>4. DecidedIsFinal
    BY <2>1, <2>3, ExecIsFinal DEF DecidedIsFinal
  <2>5. Agreement
    BY <2>1, <2>3, ExecutedAgree
  <2>6. NoSafetyBreach
    BY <2>1 DEF SafeInv
  <2> QED BY <2>4, <2>5, <2>6
<1> QED BY <1>1, RecoveryInvariant, PTL

\* A restart brings back exactly what had been executed, however many replicas
\* have restarted and however often.
THEOREM RestartsKeepExecuted == RecoverySpec => RestartKeepsExecuted
<1> DEFINE A == \A r \in Replicas :
                  restarts'[r] # restarts[r] /\ failed' = failed =>
                     b_exec'[r] = b_exec[r] /\ decided'[r] = decided[r]
<1>1. RecoveryInv /\ [RecoveryNext]_recoveryVars => [A]_recoveryVars
  <2> SUFFICES ASSUME RecoveryInv, RecoveryNext PROVE A
    OBVIOUS
  <2>1. CASE RunNext
    BY <2>1 DEF RunNext
  <2>2. CASE \/ \E r \in Replicas : Restart(r)
             \/ \E r \in Replicas, h \in 0 .. MaxHeight : \E m \in proposals :
                  CrashInHandler(r, m[1], m[2], h)
    <3>1. PICK r \in Replicas : init_from_disk(r)
      BY <2>2, CrashForm DEF RecoveryInv
    <3>2. UNCHANGED <<b_exec, decided>>
      BY <3>1, ReloadEffect DEF RecoveryInv
    <3> QED BY <3>2
  <2> QED BY <2>1, <2>2 DEF RecoveryNext
<1> QED BY <1>1, RecoveryInvariant, PTL DEF RecoverySpec, RestartKeepsExecuted
=============================================================================
