---------------------------- MODULE HotstuffCore ----------------------------
(***************************************************************************)
(* The consensus core of the replicated ledger: class HotstuffCore and the *)
(* parts of HotstuffAppBase that feed it (do_propose, do_vote), for a set  *)
(* of replicas that all run this code and exchange proposals and votes.    *)
(*                                                                         *)
(* What is abstracted:                                                     *)
(*  - A block is named by a number that stands for the hash of its header; *)
(*    IdsOf keeps the names of different minters apart, so that two runs   *)
(*    that differ only in who minted first reach the same state.  The      *)
(*    header holds the parent's hash, the certificate and the body's hash, *)
(*    so parent and justify are functions of the name.  The proposer is    *)
(*    not hashed: two replicas can mint and propose the same block.        *)
(*  - A certificate is the block it certifies.  That a certificate which   *)
(*    passed verify() is backed by a quorum of votes that really were cast *)
(*    is not assumed but shown (CertifiedByQuorum).                        *)
(*  - The network may delay, reorder and duplicate: a message stays in its *)
(*    set for ever, and a handler may take it once, often or never.  A     *)
(*    replica that has stopped is one that takes nothing any more.         *)
(*  - A block is handed to the core only after the block store has all its *)
(*    ancestors, so following parent and justify pointers always succeeds. *)
(*  - Handlers are atomic: one event-queue thread runs them all, and       *)
(*    do_propose, on another thread, shares with them only hqc and b_leaf, *)
(*    which both sides touch in one critical section of proposal_mutex.    *)
(***************************************************************************)
EXTENDS Integers, FiniteSets

CONSTANTS
    Replicas,        \* the replica ids of the ReplicaConfig
    IdsOf,           \* bound: IdsOf[r] names the blocks r mints; r makes no
                     \* more proposals than that
    MaxAhead,        \* bound: how far b_leaf[r] may run ahead of hqc[r]
    MaxHeight,       \* bound: no block is minted above this height
    VHeightModulus   \* 2^32: vheight is a uint32_t, block heights are uint64_t

ASSUME ReplicasAssumption == IsFiniteSet(Replicas) /\ Replicas # {}
ASSUME IdsAssumption ==
    /\ IdsOf \in [Replicas -> SUBSET (Nat \ {0})]
    /\ \A r, q \in Replicas : r # q => IdsOf[r] \intersect IdsOf[q] = {}
ASSUME AheadAssumption == MaxAhead \in [Replicas -> Nat]

\* Heights stay below the width of vheight: what happens when they do not is
\* discussed in the README.
ASSUME HeightAssumption ==
    MaxHeight \in Nat /\ VHeightModulus \in Nat /\ MaxHeight < VHeightModulus

(***************************************************************************)
(* ReplicaConfig::finish_init: nfaulty = n / 3, nmajority = n - nfaulty.   *)
(***************************************************************************)
nmajority == Cardinality(Replicas) - (Cardinality(Replicas) \div 3)

IsQuorum(Q) == Cardinality(Q) >= nmajority

Genesis == 0
Blocks  == {Genesis} \union UNION {IdsOf[r] : r \in Replicas}

VARIABLES
    minted,     \* the blocks that exist
    parent,     \* parent[b]: the block b's header names as parent
    justify,    \* justify[b]: the block certified by the certificate in b
    height,     \* height[b]: length of the parent chain below b
    anc,        \* anc[b]: b and every block its parent pointers lead to
    hqc,        \* hqc[r]: block of the highest certificate r knows
    b_leaf,     \* b_leaf[r]: the block r will build on
    b_lock,     \* b_lock[r]: the locked block
    b_exec,     \* b_exec[r]: last executed block
    vheight,    \* vheight[r]: height of the block last voted for
    decided,    \* decided[r]: blocks whose decided flag is set at r
    self_qc,    \* self_qc[r][b]: signers of the certificate r assembles for b
    written,    \* written[r]: blocks whose written_to_disk flag is set at r
    breached,   \* breached: replicas that died of "safety breached"
    proposals,  \* <<b, p>>: p broadcast a proposal of b
    votes       \* <<v, b, p>>: v sent p a vote for b

blockVars == <<minted, parent, justify, height, anc>>
chainVars == <<hqc, b_leaf>>
execVars  == <<b_lock, b_exec, decided, written, breached>>
vars == <<blockVars, chainVars, execVars, vheight, self_qc, proposals, votes>>

-----------------------------------------------------------------------------
(***************************************************************************)
(* The genesis block, which every replica constructs decided and written.  *)
(***************************************************************************)
Init ==
    /\ minted    = {Genesis}
    /\ parent    = [b \in Blocks |-> Genesis]
    /\ justify   = [b \in Blocks |-> Genesis]
    /\ height    = [b \in Blocks |-> 0]
    /\ anc       = [b \in Blocks |-> {Genesis}]
    /\ hqc       = [r \in Replicas |-> Genesis]
    /\ b_leaf    = [r \in Replicas |-> Genesis]
    /\ b_lock    = [r \in Replicas |-> Genesis]
    /\ b_exec    = [r \in Replicas |-> Genesis]
    /\ vheight   = [r \in Replicas |-> 0]
    /\ decided   = [r \in Replicas |-> {Genesis}]
    /\ self_qc   = [r \in Replicas |-> [b \in Blocks |-> {}]]
    /\ written   = [r \in Replicas |-> {Genesis}]
    /\ breached  = {}
    /\ proposals = {}
    /\ votes     = {}

-----------------------------------------------------------------------------
(***************************************************************************)
(* Proposing.  A new block extends b_leaf, which may lie several           *)
(* uncertified blocks above hqc, and carries the certificate of hqc.       *)
(***************************************************************************)
mint_block(n, p, j) ==
    /\ minted'  = minted \union {n}
    /\ parent'  = [parent  EXCEPT ![n] = p]
    /\ justify' = [justify EXCEPT ![n] = j]
    /\ height'  = [height  EXCEPT ![n] = height[p] + 1]
    /\ anc'     = [anc     EXCEPT ![n] = anc[p] \union {n}]

broadcast_proposal(r, b) ==
    /\ b_leaf' = [b_leaf EXCEPT ![r] = b]
    /\ proposals' = proposals \union {<<b, r>>}

\* The bounds on proposing; nothing in the code limits it.
may_propose(r) ==
    /\ Cardinality({b \in minted : <<b, r>> \in proposals}) < Cardinality(IdsOf[r])
    /\ height[b_leaf[r]] < MaxHeight
    /\ height[b_leaf[r]] < height[hqc[r]] + MaxAhead[r]

\* A new header gets the next name r has not used.
fresh(r, n) ==
    /\ n \in IdsOf[r] \ minted
    /\ \A m \in IdsOf[r] \ minted : n <= m

do_propose(r, n) ==
    /\ r \notin breached
    /\ may_propose(r)
    /\ fresh(r, n)
    /\ mint_block(n, b_leaf[r], hqc[r])
    /\ broadcast_proposal(r, n)
    /\ UNCHANGED <<hqc, execVars, vheight, self_qc, votes>>

\* Another replica has already minted a block with the very same header.
do_propose_same_header(r, b) ==
    /\ r \notin breached
    /\ may_propose(r)
    /\ b \in minted \ {Genesis}
    /\ parent[b] = b_leaf[r] /\ justify[b] = hqc[r]
    /\ broadcast_proposal(r, b)
    /\ UNCHANGED <<blockVars, hqc, execVars, vheight, self_qc, votes>>

-----------------------------------------------------------------------------
(***************************************************************************)
(* Learning of a certificate for block q.                                  *)
(***************************************************************************)
\* Variant: b_leaf stays where earlier proposals have moved it.
update_hqc_KeepsLeaf(r, q) ==
    IF height[q] > height[hqc[r]]
      THEN hqc' = [hqc EXCEPT ![r] = q] /\ UNCHANGED b_leaf
      ELSE UNCHANGED chainVars

update_hqc(r, q) ==
    IF height[q] > height[hqc[r]]
      THEN /\ hqc'    = [hqc    EXCEPT ![r] = q]
           /\ b_leaf' = [b_leaf EXCEPT ![r] = q]
      ELSE UNCHANGED chainVars

(***************************************************************************)
(* How far update(nblk) gets: with blk2, blk1, blk the blocks reached by   *)
(* one, two and three justify pointers, it returns at the first of them    *)
(* that is already decided, and it commits blk only when the three are     *)
(* parent and child.                                                       *)
(***************************************************************************)
blk2(n) == justify[n]
blk1(n) == justify[justify[n]]
blk(n)  == justify[justify[justify[n]]]

reaches_hqc(r, n)    == blk2(n) \notin decided[r]
reaches_lock(r, n)   == reaches_hqc(r, n) /\ blk1(n) \notin decided[r]
reaches_commit(r, n) == /\ reaches_lock(r, n)
                        /\ blk(n) \notin decided[r]
                        /\ parent[blk2(n)] = blk1(n)
                        /\ parent[blk1(n)] = blk(n)

\* The lock only ever moves to a higher block.
new_lock(r, n) ==
    IF height[blk1(n)] > height[b_lock[r]] THEN blk1(n) ELSE b_lock[r]

\* Variant: the parents are not written.
write_to_disk_BlockOnly(r, b) == written[r] \union {b}

\* Writing b writes its ancestors too, down to the first one already written.
write_to_disk(r, b) ==
    written[r] \union
        {a \in anc[b] : \A c \in anc[b] : a \in anc[c] => c \notin written[r]}

\* The blocks above b_exec on the parent chain of b, which the commit executes.
commit_queue(r, b) == {a \in anc[b] : height[a] > height[b_exec[r]]}

\* The commit walk stops at the height of b_exec and has to find b_exec there.
walk_meets_exec(r, b) == b_exec[r] \in anc[b]

commit(r, b) ==
    IF walk_meets_exec(r, b)
      THEN /\ decided' = [decided EXCEPT ![r] = @ \union commit_queue(r, b)]
           /\ b_exec'  = [b_exec EXCEPT ![r] = b]
           /\ UNCHANGED breached
      ELSE /\ breached' = breached \union {r}
           /\ UNCHANGED <<decided, b_exec>>

\* Variant: a single certificate commits.
update_OneCertificate(r, n) ==
    /\ IF reaches_hqc(r, n)
         THEN update_hqc(r, blk2(n)) /\ commit(r, blk2(n))
         ELSE UNCHANGED <<chainVars, decided, b_exec, breached>>
    /\ IF reaches_lock(r, n)
         THEN /\ b_lock'  = [b_lock EXCEPT ![r] = new_lock(r, n)]
              /\ written' = [written EXCEPT ![r] = write_to_disk(r, new_lock(r, n))]
         ELSE UNCHANGED <<b_lock, written>>

update(r, n) ==
    /\ IF reaches_hqc(r, n) THEN update_hqc(r, blk2(n)) ELSE UNCHANGED chainVars
    /\ IF reaches_lock(r, n)
         THEN /\ b_lock'  = [b_lock EXCEPT ![r] = new_lock(r, n)]
              /\ written' = [written EXCEPT ![r] = write_to_disk(r, new_lock(r, n))]
         ELSE UNCHANGED <<b_lock, written>>
    /\ IF reaches_commit(r, n)
         THEN commit(r, blk(n))
         ELSE UNCHANGED <<decided, b_exec, breached>>

(***************************************************************************)
(* Voting.  The walk down bnew's parents compares pointers, and the block  *)
(* object of a proposal is never the locked object itself: a lock on this  *)
(* block was reached through a child's pointer to another copy of it.      *)
(***************************************************************************)
extends_lock(r, n) == b_lock[r] \in anc[n] \ {n}

\* Variant: a second vote at the height of the last one.
opinion_SameHeight(r, n) ==
    /\ height[n] >= vheight[r]
    /\ \/ height[justify[n]] > height[b_lock[r]]
       \/ extends_lock(r, n)

opinion(r, n) ==
    /\ height[n] > vheight[r]
    /\ \/ height[justify[n]] > height[b_lock[r]]
       \/ extends_lock(r, n)

do_vote(r, n, p) ==
    /\ vheight' = [vheight EXCEPT ![r] = height[n] % VHeightModulus]
    /\ votes'   = votes \union {<<r, n, p>>}

on_receive_proposal(r, n, p) ==
    /\ r \notin breached
    /\ <<n, p>> \in proposals
    /\ IF opinion(r, n) THEN do_vote(r, n, p) ELSE UNCHANGED <<vheight, votes>>
    /\ update(r, n)
    /\ UNCHANGED <<blockVars, self_qc, proposals>>

(***************************************************************************)
(* Collecting votes.  Only the vote that completes the quorum makes a      *)
(* certificate known.                                                      *)
(***************************************************************************)
\* Variant: the first vote is taken for the quorum.
on_receive_vote_FirstVote(r, v, b) ==
    /\ r \notin breached
    /\ <<v, b, r>> \in votes
    /\ self_qc' = [self_qc EXCEPT ![r][b] = @ \union {v}]
    /\ IF self_qc[r][b] = {} THEN update_hqc(r, b) ELSE UNCHANGED chainVars
    /\ UNCHANGED <<blockVars, execVars, vheight, proposals, votes>>

on_receive_vote(r, v, b) ==
    /\ r \notin breached
    /\ <<v, b, r>> \in votes
    /\ self_qc' = [self_qc EXCEPT ![r][b] = @ \union {v}]
    /\ IF IsQuorum(self_qc[r][b] \union {v}) /\ ~IsQuorum(self_qc[r][b])
         THEN update_hqc(r, b)
         ELSE UNCHANGED chainVars
    /\ UNCHANGED <<blockVars, execVars, vheight, proposals, votes>>

Next ==
    \/ \E r \in Replicas, n \in Blocks : do_propose(r, n)
    \/ \E r \in Replicas, b \in Blocks : do_propose_same_header(r, b)
    \/ \E r \in Replicas : \E m \in proposals : on_receive_proposal(r, m[1], m[2])
    \/ \E m \in votes : on_receive_vote(m[3], m[1], m[2])

Spec == Init /\ [][Next]_vars

-----------------------------------------------------------------------------
(***************************************************************************)
(* Correctness.                                                            *)
(***************************************************************************)

\* Every variable has its type; heights and vheight stay within their bound.
TypeOK ==
    /\ minted    \subseteq Blocks
    /\ parent    \in [Blocks -> Blocks]
    /\ justify   \in [Blocks -> Blocks]
    /\ height    \in [Blocks -> 0 .. MaxHeight]
    /\ anc       \in [Blocks -> SUBSET Blocks]
    /\ hqc       \in [Replicas -> Blocks]
    /\ b_leaf    \in [Replicas -> Blocks]
    /\ b_lock    \in [Replicas -> Blocks]
    /\ b_exec    \in [Replicas -> Blocks]
    /\ vheight   \in [Replicas -> 0 .. MaxHeight]
    /\ decided   \in [Replicas -> SUBSET Blocks]
    /\ self_qc   \in [Replicas -> [Blocks -> SUBSET Replicas]]
    /\ written   \in [Replicas -> SUBSET Blocks]
    /\ breached  \subseteq Replicas
    /\ proposals \subseteq Blocks \X Replicas
    /\ votes     \subseteq Replicas \X Blocks \X Replicas

Voted(v, b) == \E p \in Replicas : <<v, b, p>> \in votes
Voters(b) == {v \in Replicas : Voted(v, b)}
Certified(b) == b = Genesis \/ IsQuorum(Voters(b))

OneVoteOf(T) ==
    \A v \in T : \A a, b \in minted :
        Voted(v, a) /\ Voted(v, b) /\ height[a] = height[b] => a = b

\* A replica never votes for two blocks of one height, however proposals are
\* reordered, duplicated or raced by other proposers (vheight in
\* on_receive_proposal).
OneVotePerHeight == OneVoteOf(Replicas)

\* Every certificate that gets into the core, assembled by on_receive_vote or
\* taken from a proposal by update, is backed by a quorum of cast votes; so is
\* every certificate a minted block carries.
CertifiedByQuorum ==
    /\ \A r \in Replicas : Certified(hqc[r]) /\ Certified(b_lock[r])
    /\ \A b \in minted : Certified(justify[b])

\* do_propose pairs b_leaf with hqc, which update_hqc and earlier proposals move
\* at different times: still the certificate a block carries is always for one
\* of its proper ancestors.
JustifyIsAncestor ==
    \A b \in minted \ {Genesis} : justify[b] \in anc[parent[b]]

\* A block some replica has executed is final: no block of at least its height
\* that does not descend from it is ever certified (the voting rule of
\* on_receive_proposal against the three-chain rule of update).
DecidedIsFinal ==
    \A r \in Replicas, b \in minted :
        Certified(b) /\ height[b] >= height[b_exec[r]] => b_exec[r] \in anc[b]

\* Two replicas never execute conflicting blocks: of any two last executed
\* blocks one descends from the other.
Agreement ==
    \A r, q \in Replicas : b_exec[r] \in anc[b_exec[q]] \/ b_exec[q] \in anc[b_exec[r]]

\* The "safety breached" exception at the end of update's commit walk is never
\* thrown.
NoSafetyBreach == breached = {}

\* What is executed is on disk first: a decided block and all blocks below it
\* have been written when update opens the commit transaction, although update
\* writes the chain of b_lock, which need not be the one being committed.
DecidedOnDisk == \A r \in Replicas : decided[r] \subseteq written[r]

\* Except before the first commit, the lock is strictly above the last executed
\* block and on its branch ("b_lock.height is always higher than the highest
\* committed block's height", which the garbage collector relies on).
LockAboveExec ==
    \A r \in Replicas :
        b_exec[r] # Genesis => /\ height[b_lock[r]] > height[b_exec[r]]
                               /\ b_exec[r] \in anc[b_lock[r]]

\* Executing extends: b_exec moves only to a descendant, the executed blocks are
\* exactly b_exec's chain, and neither the lock nor the highest certificate ever
\* moves down, whatever update is called with.
CommitsExtend ==
    [][\A r \in Replicas :
         /\ b_exec[r] \in anc'[b_exec'[r]]
         /\ decided'[r] = anc'[b_exec'[r]]
         /\ height'[b_lock'[r]] >= height[b_lock[r]]
         /\ height'[hqc'[r]] >= height[hqc[r]]]_vars

-----------------------------------------------------------------------------
(***************************************************************************)
(* The replicas implement one ledger.  Its entries are the blocks on the   *)
(* chain of the highest executed block, in order of height, and a replica  *)
(* has executed as many of them as its b_exec is high.                     *)
(***************************************************************************)
HighestExec ==
    CHOOSE b \in {b_exec[r] : r \in Replicas} :
        \A q \in Replicas : height[b_exec[q]] <= height[b]

AncestorAt(b, i) == CHOOSE a \in anc[b] : height[a] = i
ChainOf(b) == [i \in 1 .. height[b] |-> AncestorAt(b, i)]

Ledger == INSTANCE ReplicatedLedger WITH
    Entries  <- Blocks,
    ledger   <- ChainOf(HighestExec),
    executed <- [r \in Replicas |-> height[b_exec[r]]]

\* The replicas together behave as one append-only ledger that each executes
\* from the start, in order: update's commit loop on every replica implements
\* ReplicatedLedger.
RefinesLedger == Ledger!LedgerSpec

-----------------------------------------------------------------------------
(***************************************************************************)
(* The inductive invariant behind the safety properties.  Its base holds   *)
(* whatever the replicas vote for.  The rest is about a set T of replicas  *)
(* that have kept vheight and b_lock, large enough for any two quorums to  *)
(* share one of them: all replicas here, those that have never restarted   *)
(* in HotstuffRecovery.                                                    *)
(***************************************************************************)

\* The blocks are a tree with the genesis block at its root: an ancestor set is
\* a chain, ordered by height.
TreeInv ==
    /\ Genesis \in minted
    /\ anc[Genesis] = {Genesis} /\ height[Genesis] = 0 /\ justify[Genesis] = Genesis
    /\ \A b \in minted : b \in anc[b] /\ Genesis \in anc[b] /\ anc[b] \subseteq minted
    /\ \A b \in minted \ {Genesis} :
         /\ parent[b] \in minted
         /\ anc[b] = anc[parent[b]] \union {b}
         /\ height[b] = height[parent[b]] + 1
         /\ justify[b] \in anc[parent[b]]
    /\ \A b \in minted : \A a \in anc[b] :
         anc[a] \subseteq anc[b] /\ (a # b => height[a] < height[b])
    /\ \A b \in minted : \A a, c \in anc[b] : height[a] <= height[c] => a \in anc[c]

\* Replicas and messages speak of minted blocks only; what is decided is the
\* chain of b_exec; the certificate being assembled counts cast votes.
PointerInv ==
    /\ \A r \in Replicas :
         /\ {hqc[r], b_leaf[r], b_lock[r], b_exec[r]} \subseteq minted
         /\ hqc[r] \in anc[b_leaf[r]]
         /\ decided[r] = anc[b_exec[r]]
         /\ \A b \in Blocks : self_qc[r][b] \subseteq Voters(b)
    /\ \A m \in proposals : m[1] \in minted \ {Genesis}
    /\ \A m \in votes : m[2] \in minted \ {Genesis}

\* x1 and x2 are the blocks that, with x2 certified, commit x.
ThreeChain(x, x1, x2) ==
    /\ {x1, x2} \subseteq minted \ {Genesis}
    /\ parent[x1] = x /\ justify[x1] = x
    /\ parent[x2] = x1 /\ justify[x2] = x1
    /\ Certified(x2)

\* The executed block heads a certified three-chain.
HeadInv ==
    \A r \in Replicas :
        b_exec[r] # Genesis => \E x1, x2 \in minted : ThreeChain(b_exec[r], x1, x2)

\* The locked chain is on disk, and what is on disk has its ancestors there.
WrittenInv ==
    \A r \in Replicas :
        /\ anc[b_lock[r]] \subseteq written[r]
        /\ \A a \in written[r] : a \in minted /\ anc[a] \subseteq written[r]

BaseInv ==
    TypeOK /\ TreeInv /\ PointerInv /\ CertifiedByQuorum /\ HeadInv /\ WrittenInv

\* Any two quorums have a member in common that belongs to T.
QuorumsMeetIn(T) ==
    /\ T \subseteq Replicas
    /\ \A A, B \in SUBSET Replicas : IsQuorum(A) /\ IsQuorum(B) => A \intersect B \intersect T # {}

\* Having voted for a, v is locked at least at the second block below a's
\* certificates; so whatever higher block c it votes for later has a certified
\* proper ancestor at least that high.
VoteInv(T) ==
    \A v \in T : \A a \in minted :
        Voted(v, a) =>
            /\ height[a] <= vheight[v]
            /\ height[justify[justify[a]]] <= height[b_lock[v]]
            /\ \A c \in minted :
                 Voted(v, c) /\ height[a] < height[c] =>
                   \E d \in anc[c] \ {c} :
                       Certified(d) /\ height[justify[justify[a]]] <= height[d]

\* The executed block lies on the locked chain; the lock is above it, unless a
\* restart has set it back.
ExecInv(T) ==
    \A r \in Replicas :
        /\ b_exec[r] \in anc[b_lock[r]]
        /\ b_exec[r] # Genesis /\ r \in T => height[b_lock[r]] > height[b_exec[r]]

SafeInv(T) ==
    QuorumsMeetIn(T) /\ OneVoteOf(T) /\ VoteInv(T) /\ ExecInv(T) /\ NoSafetyBreach

IInv == BaseInv /\ SafeInv(Replicas)
=============================================================================
