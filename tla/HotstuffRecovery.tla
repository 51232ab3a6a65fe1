-------------------------- MODULE HotstuffRecovery --------------------------
(***************************************************************************)
(* Crashes and restarts of the replicas of HotstuffCore.                   *)
(*                                                                         *)
(* Two things survive a crash: the block files, which write_to_disk makes  *)
(* one by one from the locked block down, and the LMDB index of decided    *)
(* blocks with the certificate of the topmost, which one transaction at    *)
(* the end of update replaces.  init_from_disk rebuilds the core from      *)
(* them.  What a replica has voted for and what it is locked on is in      *)
(* neither.                                                                *)
(*                                                                         *)
(* The genesis block of HotstuffCore stands here for the block on top of   *)
(* an index that all replicas have started from: with an empty index       *)
(* init_from_disk throws, and nothing tells the genesis block from a       *)
(* reloaded top block (b_exec, b_lock, hqc and b_leaf all point to it,     *)
(* vheight is its height and it is decided and on disk).                   *)
(***************************************************************************)
EXTENDS HotstuffCore

CONSTANTS
    Links,        \* bound: <<p, r>> when proposals and fetched blocks of p
                  \* reach r
    MaxRestarts   \* bound: MaxRestarts[r] is how often r crashes and restarts

ASSUME LinksAssumption == Links \subseteq Replicas \X Replicas
ASSUME RestartsAssumption == MaxRestarts \in [Replicas -> Nat]

VARIABLES
    files,      \* files[r]: the blocks whose file is on r's disk
    index,      \* index[r]: the blocks in r's decided-block index
    index_qc,   \* index_qc[r]: the block certified by the index's "qc" record
    restarts,   \* restarts[r]: how often r has restarted
    failed      \* replicas whose init_from_disk threw

diskVars == <<files, index, index_qc>>
recoveryVars == <<vars, diskVars, restarts, failed>>

-----------------------------------------------------------------------------
RecoveryInit ==
    /\ Init
    /\ files    = [r \in Replicas |-> {Genesis}]
    /\ index    = [r \in Replicas |-> {Genesis}]
    /\ index_qc = [r \in Replicas |-> Genesis]
    /\ restarts = [r \in Replicas |-> 0]
    /\ failed   = {}

(***************************************************************************)
(* What a handler that runs to its end leaves on disk: the files of the    *)
(* blocks it wrote and, if it committed, one transaction with the newly    *)
(* decided blocks and the certificate of the committed block.              *)
(***************************************************************************)
save_blocks(r) == files[r] \union written'[r]
add_decided_blocks(r) == index[r] \union decided'[r]

\* Variant: the certificate recorded is that of the block committed before.
set_qc_on_top_block_Previous(r) ==
    IF decided'[r] = decided[r] THEN index_qc[r] ELSE b_exec[r]

set_qc_on_top_block(r) ==
    IF decided'[r] = decided[r] THEN index_qc[r] ELSE b_exec'[r]

save ==
    /\ files'    = [r \in Replicas |-> save_blocks(r)]
    /\ index'    = [r \in Replicas |-> add_decided_blocks(r)]
    /\ index_qc' = [r \in Replicas |-> set_qc_on_top_block(r)]

RunNext ==
    /\ \/ \E r \in Replicas \ failed, n \in Blocks : do_propose(r, n)
       \/ \E r \in Replicas \ failed, b \in Blocks : do_propose_same_header(r, b)
       \/ \E r \in Replicas \ failed : \E m \in proposals :
             <<m[2], r>> \in Links /\ on_receive_proposal(r, m[1], m[2])
       \/ \E m \in votes : m[3] \notin failed /\ on_receive_vote(m[3], m[1], m[2])
    /\ save
    /\ UNCHANGED <<restarts, failed>>

(***************************************************************************)
(* reload_decided_blocks and reload_state_from_index.  load_decided_block  *)
(* throws if the file of an indexed block is missing, find_block_by_hash   *)
(* if the certified block is not among the loaded ones.                    *)
(***************************************************************************)
load_decided_blocks_ok(r) == index[r] \subseteq files[r]
find_block_by_hash_ok(r)  == index_qc[r] \in index[r]

reload_state_from_index(r) ==
    LET top == index_qc[r] IN
    /\ hqc'     = [hqc     EXCEPT ![r] = top]
    /\ b_leaf'  = [b_leaf  EXCEPT ![r] = top]
    /\ b_lock'  = [b_lock  EXCEPT ![r] = top]
    /\ b_exec'  = [b_exec  EXCEPT ![r] = top]
    /\ vheight' = [vheight EXCEPT ![r] = height[top] % VHeightModulus]

init_from_disk(r) ==
    /\ IF load_decided_blocks_ok(r) /\ find_block_by_hash_ok(r)
         THEN /\ reload_state_from_index(r)
              /\ decided' = [decided EXCEPT ![r] = index[r]]
              /\ written' = [written EXCEPT ![r] = index[r]]
              /\ self_qc' = [self_qc EXCEPT ![r] = [b \in Blocks |-> {}]]
              /\ UNCHANGED <<breached, failed>>
         ELSE /\ failed' = failed \union {r}
              /\ UNCHANGED <<chainVars, execVars, vheight, self_qc>>
    /\ restarts' = [restarts EXCEPT ![r] = @ + 1]
    /\ UNCHANGED <<blockVars, proposals, index, index_qc>>

may_restart(r) == r \notin failed \union breached /\ restarts[r] < MaxRestarts[r]

\* A crash between two handlers.
Restart(r) ==
    /\ may_restart(r)
    /\ init_from_disk(r)
    /\ UNCHANGED <<files, votes>>

\* The files write_to_disk(b) makes when the crash stops it above height h: it
\* writes a block before the block's parent.
interrupted_write(r, b, h) ==
    {a \in write_to_disk(r, b) \ written[r] : height[a] > h}

\* A crash inside on_receive_proposal: after the vote has gone out, during the
\* writing of files or after it, and before the transaction commits.
CrashInHandler(r, n, p, h) ==
    /\ may_restart(r)
    /\ <<n, p>> \in proposals /\ <<p, r>> \in Links
    /\ opinion(r, n) \/ reaches_lock(r, n)
    /\ votes' = IF opinion(r, n) THEN votes \union {<<r, n, p>>} ELSE votes
    /\ files' = IF reaches_lock(r, n)
                  THEN [files EXCEPT ![r] = @ \union interrupted_write(r, new_lock(r, n), h)]
                  ELSE files
    /\ init_from_disk(r)

RecoveryNext ==
    \/ RunNext
    \/ \E r \in Replicas : Restart(r)
    \/ \E r \in Replicas, h \in 0 .. MaxHeight : \E m \in proposals :
          CrashInHandler(r, m[1], m[2], h)

RecoverySpec == RecoveryInit /\ [][RecoveryNext]_recoveryVars

-----------------------------------------------------------------------------
Restarted == {r \in Replicas : restarts[r] > 0}

\* Any two quorums share at least this many replicas.
QuorumOverlap == 2 * nmajority - Cardinality(Replicas)

FewRestarts == Cardinality(Restarted) < QuorumOverlap

\* Whenever a replica crashes, even between the file of a block and the file of
\* its parent, init_from_disk finds the file of every block in the index and
\* the block of the recorded certificate, as long as too few replicas have
\* restarted to make a quorum vote against itself: update commits blocks whose
\* files it has not written when the lock is on another branch.
RestartSucceeds == FewRestarts => failed = {}

\* A replica restarts with exactly what it had executed before: a restart takes
\* back no executed block and brings none, so the state machine neither loses
\* nor repeats a command (set_qc_on_top_block against reload_state_from_index).
RestartKeepsExecuted ==
    [][\A r \in Replicas :
         restarts'[r] # restarts[r] /\ failed' = failed =>
            b_exec'[r] = b_exec[r] /\ decided'[r] = decided[r]]_recoveryVars

\* A restarted replica may vote again for what it has voted for, or against it:
\* reload_state_from_index sets vheight and b_lock back to b_exec.  As long as
\* fewer replicas have restarted than any two quorums share, executed blocks
\* stay final and "safety breached" is not thrown.
FewRestartsAreSafe ==
    FewRestarts => DecidedIsFinal /\ Agreement /\ NoSafetyBreach

-----------------------------------------------------------------------------
(***************************************************************************)
(* The inductive invariant.  BaseInv and DiskInv hold however often the    *)
(* replicas restart; the rest of the core's invariant holds for the        *)
(* replicas that never have, as long as they are in the overlap of any two *)
(* quorums.                                                                *)
(***************************************************************************)
Steady == Replicas \ Restarted

\* The index is the chain of b_exec with b_exec on top, and what the core takes
\* for written is on disk.
DiskInv ==
    /\ files    \in [Replicas -> SUBSET Blocks]
    /\ index    = decided
    /\ index_qc = b_exec
    /\ restarts \in [Replicas -> Nat]
    /\ failed   \subseteq Replicas
    /\ \A r \in Replicas : written[r] \subseteq files[r]

RecoveryInv ==
    /\ BaseInv
    /\ DiskInv
    /\ FewRestarts => SafeInv(Steady) /\ failed = {}
=============================================================================
