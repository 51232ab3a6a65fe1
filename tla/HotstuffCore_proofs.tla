------------------------ MODULE HotstuffCore_proofs ------------------------
(***************************************************************************)
(* Proofs about HotstuffCore, for every set of replicas and every bound.   *)
(*                                                                         *)
(* The argument in short: two quorums share a voter; a voter never votes   *)
(* twice at one height and, once it has voted for the third block of a     *)
(* three-chain, is locked at least at the chain's first block; so the      *)
(* lowest certified block that misses the chain's first block would need a *)
(* lower one.  That makes the head of a certified three-chain final, and   *)
(* everything update does with such a head is safe.                        *)
(***************************************************************************)
EXTENDS HotstuffCore, FiniteSetTheorems, SequenceTheorems, WellFoundedInduction, TLAPS

-----------------------------------------------------------------------------
(***************************************************************************)
(* Numbers and quorums.                                                    *)
(***************************************************************************)

\* A nonempty set of naturals has a least element.
LEMMA LeastNat ==
  ASSUME NEW T \in SUBSET Nat, T # {}
  PROVE  \E x \in T : \A y \in T : x <= y
<1> DEFINE Less == {ss \in Nat \X Nat : ss[1] < ss[2]}
<1>1. IsWellFoundedOn(Less, Nat)
  BY NatLessThanWellFounded, Zenon DEF OpToRel
<1>2. PICK x \in T : \A y \in T : ~(<<y, x>> \in Less)
  <2> HIDE DEF Less
  <2> QED BY <1>1, WFMin
<1>3. \A y \in T : ~(y < x)
  BY <1>2
<1> QED BY <1>3

\* Two quorums of ReplicaConfig (n - n/3 replicas each) share a replica.
LEMMA QuorumsIntersect ==
  ASSUME NEW A \in SUBSET Replicas, NEW B \in SUBSET Replicas,
         IsQuorum(A), IsQuorum(B)
  PROVE  A \cap B # {}
<1>1. Cardinality(Replicas) \in Nat \ {0}
  BY ReplicasAssumption, FS_CardinalityType, FS_EmptySet
<1>2. /\ IsFiniteSet(A) /\ Cardinality(A) \in Nat
      /\ IsFiniteSet(B) /\ Cardinality(B) \in Nat
  BY ReplicasAssumption, FS_Subset, FS_CardinalityType
<1>3. \A N \in Nat \ {0} : N \div 3 \in Nat /\ 2 * (N \div 3) < N
  OBVIOUS
<1>4. Cardinality(A) + Cardinality(B) > Cardinality(Replicas)
  <2> DEFINE third == Cardinality(Replicas) \div 3
  <2>1. third \in Nat /\ 2 * third < Cardinality(Replicas)
    BY <1>1, <1>3
  <2>2. /\ Cardinality(A) >= Cardinality(Replicas) - third
        /\ Cardinality(B) >= Cardinality(Replicas) - third
    BY DEF IsQuorum, nmajority
  <2> HIDE DEF third
  <2> QED BY <1>1, <1>2, <2>1, <2>2
<1> QED BY <1>4, ReplicasAssumption, FS_MajoritiesIntersect

\* A set of replicas that includes a quorum is one.
LEMMA QuorumSuperset ==
  ASSUME NEW B \in SUBSET Replicas, NEW A \in SUBSET B, IsQuorum(A)
  PROVE  IsQuorum(B)
<1>1. IsFiniteSet(B) /\ IsFiniteSet(A) /\ Cardinality(A) <= Cardinality(B)
  BY ReplicasAssumption, FS_Subset
<1>2. Cardinality(A) \in Nat /\ Cardinality(B) \in Nat /\ nmajority \in Int
  BY <1>1, ReplicasAssumption, FS_CardinalityType DEF nmajority
<1> QED BY <1>1, <1>2 DEF IsQuorum

\* More votes never undo a certificate.
LEMMA CertifiedMonotone ==
  ASSUME votes \subseteq votes', NEW b, Certified(b)
  PROVE  Certified(b)'
<1>1. Voters(b) \in SUBSET (Voters(b)') /\ Voters(b)' \in SUBSET Replicas
  BY DEF Voters, Voted
<1> QED BY <1>1, QuorumSuperset DEF Certified

\* All replicas together are large enough a set for quorums to meet in.
LEMMA AllQuorumsMeet == QuorumsMeetIn(Replicas)
<1> SUFFICES ASSUME NEW A \in SUBSET Replicas, NEW B \in SUBSET Replicas,
                    IsQuorum(A), IsQuorum(B)
             PROVE  A \cap B \cap Replicas # {}
  BY DEF QuorumsMeetIn
<1> QED BY QuorumsIntersect

\* Two certified blocks have a voter in T in common.
LEMMA CommonVoter ==
  ASSUME NEW T, QuorumsMeetIn(T),
         NEW a \in minted \ {Genesis}, NEW b \in minted \ {Genesis},
         Certified(a), Certified(b)
  PROVE  \E v \in T : v \in Replicas /\ Voted(v, a) /\ Voted(v, b)
<1>1. /\ Voters(a) \in SUBSET Replicas /\ Voters(b) \in SUBSET Replicas
      /\ IsQuorum(Voters(a)) /\ IsQuorum(Voters(b))
  BY DEF Certified, Voters
<1>2. PICK v \in T : v \in Voters(a) /\ v \in Voters(b)
  BY <1>1 DEF QuorumsMeetIn
<1> QED BY <1>2 DEF Voters

\* Justify pointers stay among the minted blocks.
LEMMA JustifyMinted ==
  ASSUME BaseInv, NEW b \in minted
  PROVE  justify[b] \in minted
BY DEF BaseInv, TreeInv

\* An executed block is certified: by the certificate in the block above it.
LEMMA ExecCertified ==
  ASSUME BaseInv, NEW r \in Replicas
  PROVE  Certified(b_exec[r])
<1>1. CASE b_exec[r] = Genesis
  BY <1>1 DEF Certified
<1>2. CASE b_exec[r] # Genesis
  BY <1>2 DEF BaseInv, HeadInv, ThreeChain, CertifiedByQuorum
<1> QED BY <1>1, <1>2

-----------------------------------------------------------------------------
(***************************************************************************)
(* The head of a certified three-chain is final.                           *)
(***************************************************************************)
LEMMA Finality ==
  ASSUME NEW T, BaseInv, SafeInv(T),
         NEW x \in minted, NEW x1 \in minted, NEW x2 \in minted,
         ThreeChain(x, x1, x2),
         NEW c \in minted, Certified(c), height[c] >= height[x]
  PROVE  x \in anc[c]
<1> DEFINE Bad == {e \in minted : Certified(e) /\ height[e] >= height[x] /\ x \notin anc[e]}
<1> SUFFICES ASSUME Bad # {} PROVE FALSE
  OBVIOUS
<1>1. \A e \in minted : e \in Blocks /\ height[e] \in Nat
  BY HeightAssumption DEF BaseInv, TypeOK
<1>2. PICK e \in Bad : \A f \in Bad : height[e] <= height[f]
  <2>1. {height[f] : f \in Bad} \in SUBSET Nat /\ {height[f] : f \in Bad} # {}
    BY <1>1
  <2>2. PICK h \in {height[f] : f \in Bad} : \A k \in {height[f] : f \in Bad} : h <= k
    BY <2>1, LeastNat
  <2> QED BY <2>2
<1>3. /\ height[x1] = height[x] + 1 /\ height[x2] = height[x] + 2
      /\ x \in anc[x1] /\ x \in anc[x2] /\ x \in anc[x]
  BY <1>1 DEF BaseInv, TreeInv, ThreeChain
<1>4. Certified(x) /\ Certified(x1) /\ Certified(x2)
  BY DEF BaseInv, CertifiedByQuorum, ThreeChain
<1>5. x # Genesis /\ e # Genesis
  BY <1>1 DEF BaseInv, TreeInv
<1>6. x1 # Genesis /\ x2 # Genesis
  BY DEF ThreeChain
<1>7. \A y \in {x, x1, x2} : height[e] # height[y]
  <2> SUFFICES ASSUME NEW y \in {x, x1, x2}, height[e] = height[y] PROVE FALSE
    OBVIOUS
  <2>1. PICK v \in T : Voted(v, y) /\ Voted(v, e)
    BY <1>4, <1>5, <1>6, CommonVoter DEF SafeInv
  <2>2. e = y
    BY <2>1 DEF SafeInv, OneVoteOf
  <2> QED BY <2>2, <1>3
<1>8. height[e] > height[x2]
  BY <1>1, <1>3, <1>7
<1>9. PICK v \in T : Voted(v, x2) /\ Voted(v, e)
  BY <1>4, <1>5, <1>6, CommonVoter DEF SafeInv
<1>10. PICK d \in anc[e] \ {e} : Certified(d) /\ height[justify[justify[x2]]] <= height[d]
  BY <1>8, <1>9 DEF SafeInv, VoteInv
<1>11. d \in minted /\ height[d] < height[e] /\ height[x] <= height[d] /\ anc[d] \subseteq anc[e]
  BY <1>10 DEF BaseInv, TreeInv, ThreeChain
<1>12. d \notin Bad
  BY <1>1, <1>2, <1>11
<1> QED BY <1>1, <1>10, <1>11, <1>12

-----------------------------------------------------------------------------
(***************************************************************************)
(* The invariant holds initially.                                          *)
(***************************************************************************)
LEMMA InitEstablishes == Init => IInv
<1> SUFFICES ASSUME Init PROVE IInv
  OBVIOUS
<1>1. Genesis \in Blocks
  BY DEF Blocks
<1>2. TypeOK
  BY <1>1, HeightAssumption DEF Init, TypeOK
<1>3. TreeInv
  BY <1>1 DEF Init, TreeInv
<1>4. PointerInv
  BY <1>1 DEF Init, PointerInv
<1>5. CertifiedByQuorum
  BY <1>1 DEF Init, CertifiedByQuorum, Certified
<1>6. HeadInv /\ WrittenInv
  BY <1>1 DEF Init, HeadInv, WrittenInv
<1>7. OneVoteOf(Replicas) /\ VoteInv(Replicas)
  BY DEF Init, OneVoteOf, VoteInv, Voted
<1>8. ExecInv(Replicas) /\ NoSafetyBreach
  BY <1>1 DEF Init, ExecInv, NoSafetyBreach
<1> QED BY <1>2, <1>3, <1>4, <1>5, <1>6, <1>7, <1>8, AllQuorumsMeet DEF IInv, BaseInv, SafeInv

(***************************************************************************)
(* Proposing a new block.                                                  *)
(***************************************************************************)
\* What do_propose(r, n) changes: n is new, built on b_leaf[r] with the certificate
\* of hqc[r], and every earlier block, vote and certificate stays as it was.
LEMMA ProposeEffect ==
  ASSUME BaseInv, NEW r \in Replicas, NEW n \in Blocks, do_propose(r, n)
  PROVE  /\ n \notin minted /\ minted' = minted \union {n} /\ n # Genesis
         /\ b_leaf[r] \in minted /\ hqc[r] \in anc[b_leaf[r]] /\ Certified(hqc[r])
         /\ n # b_leaf[r] /\ height[b_leaf[r]] \in Nat /\ height[b_leaf[r]] < MaxHeight
         /\ parent'[n] = b_leaf[r] /\ justify'[n] = hqc[r]
         /\ height'[n] = height[b_leaf[r]] + 1 /\ anc'[n] = anc[b_leaf[r]] \union {n}
         /\ \A b \in minted : /\ parent'[b] = parent[b] /\ justify'[b] = justify[b]
                              /\ height'[b] = height[b] /\ anc'[b] = anc[b]
         /\ votes' = votes
         /\ UNCHANGED <<hqc, b_lock, b_exec, vheight, decided, self_qc, written, breached>>
         /\ b_leaf' = [b_leaf EXCEPT ![r] = n]
         /\ proposals' = proposals \union {<<n, r>>}
         /\ \A b : Certified(b)' = Certified(b)
         /\ \A v, b : Voted(v, b)' = Voted(v, b)
         /\ \A v, b : Voted(v, b) => b \in minted
         /\ minted \subseteq Blocks /\ b_leaf[r] \in Blocks /\ hqc[r] \in Blocks
<1> DEFINE leaf == b_leaf[r]
           cert == hqc[r]
<1>1. /\ n \notin minted /\ minted' = minted \union {n} /\ n # Genesis
      /\ leaf \in minted /\ cert \in anc[leaf] /\ Certified(cert) /\ n # leaf
      /\ height[leaf] \in Nat /\ height[leaf] < MaxHeight
  <2>1. n \notin minted /\ minted' = minted \union {n}
    BY DEF do_propose, fresh, mint_block
  <2>2. leaf \in minted /\ cert \in anc[leaf] /\ Certified(cert)
    BY DEF BaseInv, PointerInv, CertifiedByQuorum
  <2>3. Genesis \in minted
    BY DEF BaseInv, TreeInv
  <2>4. height[leaf] \in Nat /\ height[leaf] < MaxHeight
    BY <2>2, HeightAssumption DEF BaseInv, TypeOK, do_propose, may_propose
  <2> QED BY <2>1, <2>2, <2>3, <2>4
<1>2. /\ parent'[n] = leaf /\ justify'[n] = cert
      /\ height'[n] = height[leaf] + 1 /\ anc'[n] = anc[leaf] \union {n}
  BY DEF do_propose, mint_block, BaseInv, TypeOK
<1>3. \A b \in minted : /\ parent'[b] = parent[b] /\ justify'[b] = justify[b]
                        /\ height'[b] = height[b] /\ anc'[b] = anc[b]
  BY <1>1 DEF do_propose, mint_block, BaseInv, TypeOK
<1>4. /\ votes' = votes
      /\ UNCHANGED <<hqc, b_lock, b_exec, vheight, decided, self_qc, written, breached>>
      /\ b_leaf' = [b_leaf EXCEPT ![r] = n]
      /\ proposals' = proposals \union {<<n, r>>}
  BY DEF do_propose, execVars, broadcast_proposal
<1>5. \A b : Certified(b)' = Certified(b)
  BY <1>4 DEF Certified, Voters, Voted
<1>6. \A v, b : Voted(v, b)' = Voted(v, b)
  BY <1>4 DEF Voted
<1>7. \A v, b : Voted(v, b) => b \in minted
  BY DEF Voted, BaseInv, PointerInv
<1>8. minted \subseteq Blocks /\ leaf \in Blocks /\ cert \in Blocks
  BY <1>1 DEF BaseInv, TypeOK
<1> QED BY <1>1, <1>2, <1>3, <1>4, <1>5, <1>6, <1>7, <1>8

\* A new block keeps the blocks a tree and every pointer in it.
LEMMA ProposeBase ==
  ASSUME BaseInv, NEW r \in Replicas, NEW n \in Blocks, do_propose(r, n)
  PROVE  BaseInv'
<1> DEFINE leaf == b_leaf[r]
           cert == hqc[r]
<1>1. /\ n \notin minted /\ minted' = minted \union {n} /\ n # Genesis
      /\ leaf \in minted /\ cert \in anc[leaf] /\ Certified(cert) /\ n # leaf
      /\ height[leaf] \in Nat /\ height[leaf] < MaxHeight
  BY ProposeEffect
<1>2. /\ parent'[n] = leaf /\ justify'[n] = cert
      /\ height'[n] = height[leaf] + 1 /\ anc'[n] = anc[leaf] \union {n}
  BY ProposeEffect
<1>3. \A b \in minted : /\ parent'[b] = parent[b] /\ justify'[b] = justify[b]
                        /\ height'[b] = height[b] /\ anc'[b] = anc[b]
  BY ProposeEffect
<1>4. /\ votes' = votes
      /\ UNCHANGED <<hqc, b_lock, b_exec, vheight, decided, self_qc, written, breached>>
      /\ b_leaf' = [b_leaf EXCEPT ![r] = n]
      /\ proposals' = proposals \union {<<n, r>>}
  BY ProposeEffect
<1>5. \A b : Certified(b)' = Certified(b)
  BY ProposeEffect
<1>6. \A v, b : Voted(v, b)' = Voted(v, b)
  BY ProposeEffect
<1>7. \A v, b : Voted(v, b) => b \in minted
  BY ProposeEffect
<1>8. minted \subseteq Blocks /\ leaf \in Blocks /\ cert \in Blocks
  BY ProposeEffect
<1>9. TypeOK'
  <2>1. height' \in [Blocks -> 0 .. MaxHeight]
    BY <1>1, HeightAssumption DEF do_propose, mint_block, BaseInv, TypeOK
  <2>2. /\ parent' \in [Blocks -> Blocks] /\ justify' \in [Blocks -> Blocks]
        /\ anc' \in [Blocks -> SUBSET Blocks]
    BY <1>8 DEF do_propose, mint_block, BaseInv, TypeOK
  <2>3. b_leaf' \in [Replicas -> Blocks] /\ proposals' \subseteq Blocks \X Replicas
    BY <1>4 DEF BaseInv, TypeOK
  <2> QED BY <1>1, <1>4, <1>8, <2>1, <2>2, <2>3 DEF BaseInv, TypeOK
<1>10. TreeInv'
  <2>1. /\ Genesis \in minted'
        /\ (anc[Genesis] = {Genesis} /\ height[Genesis] = 0 /\ justify[Genesis] = Genesis)'
    BY <1>1, <1>3 DEF BaseInv, TreeInv
  <2>2. \A b \in minted' : b \in anc'[b] /\ Genesis \in anc'[b] /\ anc'[b] \subseteq minted'
    BY <1>1, <1>2, <1>3 DEF BaseInv, TreeInv
  <2>3. \A b \in minted' \ {Genesis} :
          /\ parent'[b] \in minted'
          /\ anc'[b] = anc'[parent'[b]] \union {b}
          /\ height'[b] = height'[parent'[b]] + 1
          /\ justify'[b] \in anc'[parent'[b]]
    BY <1>1, <1>2, <1>3 DEF BaseInv, TreeInv
  <2>4. \A b \in minted' : \A a \in anc'[b] :
          anc'[a] \subseteq anc'[b] /\ (a # b => height'[a] < height'[b])
    <3> SUFFICES ASSUME NEW b \in minted', NEW a \in anc'[b]
                 PROVE  anc'[a] \subseteq anc'[b] /\ (a # b => height'[a] < height'[b])
      OBVIOUS
    <3>1. CASE b \in minted
      BY <3>1, <1>3 DEF BaseInv, TreeInv
    <3>2. CASE b = n /\ a = n
      BY <3>2
    <3>3. CASE b = n /\ a \in anc[leaf]
      <4>1. a \in minted /\ anc[a] \subseteq anc[leaf] /\ (a # leaf => height[a] < height[leaf])
        BY <1>1, <3>3 DEF BaseInv, TreeInv
      <4>2. height[a] \in Nat
        BY <4>1, HeightAssumption DEF BaseInv, TypeOK
      <4>3. height[a] < height[leaf] + 1
        BY <4>1, <4>2, <1>1
      <4> QED BY <1>1, <1>2, <1>3, <3>3, <4>1, <4>3
    <3> QED BY <1>1, <1>2, <3>1, <3>2, <3>3
  <2>5. \A b \in minted' : \A a, c \in anc'[b] : height'[a] <= height'[c] => a \in anc'[c]
    <3> SUFFICES ASSUME NEW b \in minted', NEW a \in anc'[b], NEW c \in anc'[b],
                        height'[a] <= height'[c]
                 PROVE  a \in anc'[c]
      OBVIOUS
    <3>1. CASE b \in minted
      BY <3>1, <1>3 DEF BaseInv, TreeInv
    <3>2. CASE b = n /\ c = n
      BY <3>2
    <3>3. CASE b = n /\ c \in anc[leaf] /\ a \in anc[leaf]
      BY <3>3, <1>1, <1>3 DEF BaseInv, TreeInv
    <3>4. CASE b = n /\ c \in anc[leaf] /\ a = n
      <4>1. c \in minted /\ (c # leaf => height[c] < height[leaf])
        BY <1>1, <3>4 DEF BaseInv, TreeInv
      <4>2. height[c] \in Nat
        BY <4>1, HeightAssumption DEF BaseInv, TypeOK
      <4> QED BY <4>1, <4>2, <1>1, <1>2, <1>3, <3>4
    <3> QED BY <1>1, <1>2, <3>1, <3>2, <3>3, <3>4
  <2> QED BY <2>1, <2>2, <2>3, <2>4, <2>5 DEF TreeInv
<1>11. PointerInv'
  <2>1. \A q \in Replicas :
          /\ {hqc'[q], b_leaf'[q], b_lock'[q], b_exec'[q]} \subseteq minted'
          /\ hqc'[q] \in anc'[b_leaf'[q]]
          /\ decided'[q] = anc'[b_exec'[q]]
    BY <1>1, <1>2, <1>3, <1>4 DEF BaseInv, TypeOK, PointerInv
  <2>2. \A q \in Replicas : \A b \in Blocks : self_qc'[q][b] \subseteq Voters(b)'
    BY <1>4 DEF BaseInv, PointerInv, Voters, Voted
  <2>3. (\A m \in proposals : m[1] \in minted \ {Genesis})'
    BY <1>1, <1>4 DEF BaseInv, PointerInv
  <2>4. (\A m \in votes : m[2] \in minted \ {Genesis})'
    BY <1>1, <1>4 DEF BaseInv, PointerInv
  <2> QED BY <2>1, <2>2, <2>3, <2>4 DEF PointerInv
<1>12. CertifiedByQuorum'
  BY <1>1, <1>2, <1>3, <1>4, <1>5 DEF BaseInv, CertifiedByQuorum
<1>13. HeadInv'
  <2> SUFFICES ASSUME NEW q \in Replicas, b_exec'[q] # Genesis
               PROVE  \E x1, x2 \in minted' : ThreeChain(b_exec[q], x1, x2)'
    BY DEF HeadInv
  <2>1. b_exec[q] \in minted /\ b_exec[q] # Genesis
    BY <1>4 DEF BaseInv, PointerInv
  <2>2. PICK x1, x2 \in minted : ThreeChain(b_exec[q], x1, x2)
    BY <2>1 DEF BaseInv, HeadInv
  <2>3. ThreeChain(b_exec[q], x1, x2)'
    BY <1>1, <1>3, <1>4, <1>5, <2>2 DEF ThreeChain
  <2> QED BY <1>1, <2>3
<1>14. WrittenInv'
  <2>1. \A q \in Replicas : b_lock[q] \in minted
    BY DEF BaseInv, PointerInv
  <2> QED BY <1>1, <1>3, <1>4, <2>1 DEF BaseInv, WrittenInv
<1> QED BY <1>9, <1>10, <1>11, <1>12, <1>13, <1>14 DEF BaseInv

\* A new block has no votes yet.
LEMMA ProposeSafe ==
  ASSUME NEW T, BaseInv, SafeInv(T), NEW r \in Replicas, NEW n \in Blocks, do_propose(r, n)
  PROVE  SafeInv(T)'
<1> DEFINE leaf == b_leaf[r]
           cert == hqc[r]
<1>1. /\ n \notin minted /\ minted' = minted \union {n} /\ n # Genesis
      /\ leaf \in minted /\ cert \in anc[leaf] /\ Certified(cert) /\ n # leaf
      /\ height[leaf] \in Nat /\ height[leaf] < MaxHeight
  BY ProposeEffect
<1>2. /\ parent'[n] = leaf /\ justify'[n] = cert
      /\ height'[n] = height[leaf] + 1 /\ anc'[n] = anc[leaf] \union {n}
  BY ProposeEffect
<1>3. \A b \in minted : /\ parent'[b] = parent[b] /\ justify'[b] = justify[b]
                        /\ height'[b] = height[b] /\ anc'[b] = anc[b]
  BY ProposeEffect
<1>4. /\ votes' = votes
      /\ UNCHANGED <<hqc, b_lock, b_exec, vheight, decided, self_qc, written, breached>>
      /\ b_leaf' = [b_leaf EXCEPT ![r] = n]
      /\ proposals' = proposals \union {<<n, r>>}
  BY ProposeEffect
<1>5. \A b : Certified(b)' = Certified(b)
  BY ProposeEffect
<1>6. \A v, b : Voted(v, b)' = Voted(v, b)
  BY ProposeEffect
<1>7. \A v, b : Voted(v, b) => b \in minted
  BY ProposeEffect
<1>8. QuorumsMeetIn(T)' /\ T \subseteq Replicas
  BY DEF SafeInv, QuorumsMeetIn
<1>9. OneVoteOf(T)'
  BY <1>1, <1>3, <1>6, <1>7 DEF SafeInv, OneVoteOf
<1>10. VoteInv(T)'
  <2> SUFFICES ASSUME NEW v \in T, NEW a \in minted', Voted(v, a)'
               PROVE  /\ height'[a] <= vheight'[v]
                      /\ height'[justify'[justify'[a]]] <= height'[b_lock'[v]]
                      /\ \A c \in minted' :
                           Voted(v, c)' /\ height'[a] < height'[c] =>
                             \E d \in anc'[c] \ {c} :
                                 Certified(d)' /\ height'[justify'[justify'[a]]] <= height'[d]
    BY DEF VoteInv
  <2>1. a \in minted /\ Voted(v, a) /\ b_lock[v] \in minted
    BY <1>6, <1>7, <1>8 DEF BaseInv, PointerInv
  <2>2. justify[a] \in minted /\ justify[justify[a]] \in minted
    BY <2>1, JustifyMinted
  <2>3. height'[justify'[justify'[a]]] = height[justify[justify[a]]]
    BY <1>3, <2>1, <2>2
  <2>4. ASSUME NEW c \in minted', Voted(v, c)', height'[a] < height'[c]
        PROVE  \E d \in anc'[c] \ {c} :
                 Certified(d)' /\ height'[justify'[justify'[a]]] <= height'[d]
    <3>1. c \in minted /\ Voted(v, c) /\ height[a] < height[c]
      BY <1>3, <1>6, <1>7, <2>1, <2>4
    <3>2. PICK d \in anc[c] \ {c} : Certified(d) /\ height[justify[justify[a]]] <= height[d]
      BY <2>1, <3>1 DEF SafeInv, VoteInv
    <3>3. d \in minted
      BY <3>1, <3>2 DEF BaseInv, TreeInv
    <3> QED BY <1>3, <1>5, <2>3, <3>1, <3>2, <3>3
  <2> QED BY <1>3, <1>4, <2>1, <2>3, <2>4 DEF SafeInv, VoteInv
<1>11. ExecInv(T)'
  <2>1. \A q \in Replicas : b_lock[q] \in minted /\ b_exec[q] \in minted
    BY DEF BaseInv, PointerInv
  <2> QED BY <1>3, <1>4, <2>1 DEF SafeInv, ExecInv
<1>12. NoSafetyBreach'
  BY <1>4 DEF SafeInv, NoSafetyBreach
<1> QED BY <1>8, <1>9, <1>10, <1>11, <1>12 DEF SafeInv

(***************************************************************************)
(* Steps that touch only hqc, b_leaf, self_qc and the proposals.           *)
(***************************************************************************)
LEMMA QuietBase ==
  ASSUME BaseInv, UNCHANGED <<blockVars, execVars, votes>>,
         TypeOK', PointerInv', \A r \in Replicas : Certified(hqc'[r])
  PROVE  BaseInv'
<1>1. \A b : Certified(b)' = Certified(b)
  BY DEF Certified, Voters, Voted
<1>2. TreeInv' /\ WrittenInv'
  BY DEF BaseInv, TreeInv, WrittenInv, blockVars, execVars
<1>3. CertifiedByQuorum'
  BY <1>1 DEF BaseInv, CertifiedByQuorum, blockVars, execVars
<1>4. HeadInv'
  BY <1>1 DEF BaseInv, HeadInv, ThreeChain, blockVars, execVars
<1> QED BY <1>2, <1>3, <1>4 DEF BaseInv

\* Such a step does not touch what the voters of T have promised either.
LEMMA QuietSafe ==
  ASSUME NEW T, SafeInv(T), UNCHANGED <<blockVars, execVars, vheight, votes>>
  PROVE  SafeInv(T)'
<1>1. \A b : Certified(b)' = Certified(b)
  BY DEF Certified, Voters, Voted
<1>2. \A v, b : Voted(v, b)' = Voted(v, b)
  BY DEF Voted
<1>3. QuorumsMeetIn(T)' /\ NoSafetyBreach'
  BY DEF SafeInv, QuorumsMeetIn, NoSafetyBreach, execVars
<1>4. OneVoteOf(T)'
  BY <1>2 DEF SafeInv, OneVoteOf, blockVars
<1>5. VoteInv(T)'
  BY <1>1, <1>2 DEF SafeInv, VoteInv, blockVars, execVars
<1>6. ExecInv(T)'
  BY DEF SafeInv, ExecInv, blockVars, execVars
<1> QED BY <1>3, <1>4, <1>5, <1>6 DEF SafeInv

\* A proposal whose header equals that of an existing block adds no block: only
\* b_leaf of the proposer and the proposals sent change, and BaseInv is kept.
LEMMA SameHeaderBase ==
  ASSUME BaseInv, NEW r \in Replicas, NEW b \in Blocks, do_propose_same_header(r, b)
  PROVE  BaseInv'
<1>1. /\ UNCHANGED <<blockVars, hqc, execVars, vheight, self_qc, votes>>
      /\ b_leaf' = [b_leaf EXCEPT ![r] = b] /\ proposals' = proposals \union {<<b, r>>}
      /\ b \in minted \ {Genesis} /\ parent[b] = b_leaf[r]
  BY DEF do_propose_same_header, broadcast_proposal
<1>2. hqc[r] \in anc[b]
  BY <1>1 DEF BaseInv, TreeInv, PointerInv
<1>3. TypeOK'
  BY <1>1 DEF BaseInv, TypeOK, blockVars, execVars
<1>4. PointerInv'
  <2>1. \A c : Voters(c)' = Voters(c)
    BY <1>1 DEF Voters, Voted
  <2>2. \A q \in Replicas : b_leaf'[q] \in minted /\ hqc[q] \in anc[b_leaf'[q]]
    BY <1>1, <1>2 DEF BaseInv, TypeOK, PointerInv
  <2>3. \A m \in proposals' : m[1] \in minted \ {Genesis}
    BY <1>1 DEF BaseInv, PointerInv
  <2> QED BY <1>1, <2>1, <2>2, <2>3 DEF BaseInv, PointerInv, blockVars, execVars
<1>5. \A q \in Replicas : Certified(hqc'[q])
  BY <1>1 DEF BaseInv, CertifiedByQuorum
<1> QED BY <1>1, <1>3, <1>4, <1>5, QuietBase

\* update_hqc keeps hqc certified and below b_leaf when its argument is.
LEMMA UpdateHqc ==
  ASSUME BaseInv, NEW r \in Replicas, NEW q \in minted, Certified(q), update_hqc(r, q)
  PROVE  /\ hqc' \in [Replicas -> Blocks] /\ b_leaf' \in [Replicas -> Blocks]
         /\ \A s \in Replicas : /\ Certified(hqc'[s])
                                /\ hqc'[s] \in minted /\ b_leaf'[s] \in minted
                                /\ hqc'[s] \in anc[b_leaf'[s]]
                                /\ height[hqc'[s]] >= height[hqc[s]]
<1>1. /\ q \in anc[q] /\ q \in Blocks
      /\ \A b \in minted : height[b] \in Int
  BY HeightAssumption DEF BaseInv, TypeOK, TreeInv
<1>2. \A s \in Replicas : /\ Certified(hqc[s]) /\ hqc[s] \in minted /\ b_leaf[s] \in minted
                          /\ hqc[s] \in anc[b_leaf[s]]
  BY DEF BaseInv, PointerInv, CertifiedByQuorum
<1>3. hqc \in [Replicas -> Blocks] /\ b_leaf \in [Replicas -> Blocks]
  BY DEF BaseInv, TypeOK
<1>4. CASE UNCHANGED chainVars
  BY <1>1, <1>2, <1>3, <1>4 DEF chainVars
<1>5. CASE /\ height[q] > height[hqc[r]]
           /\ hqc' = [hqc EXCEPT ![r] = q] /\ b_leaf' = [b_leaf EXCEPT ![r] = q]
  <2>1. hqc' \in [Replicas -> Blocks] /\ b_leaf' \in [Replicas -> Blocks]
    BY <1>1, <1>3, <1>5
  <2>2. hqc'[r] = q /\ b_leaf'[r] = q
    BY <1>3, <1>5
  <2>3. \A s \in Replicas \ {r} : hqc'[s] = hqc[s] /\ b_leaf'[s] = b_leaf[s]
    BY <1>3, <1>5
  <2> QED BY <1>1, <1>2, <1>5, <2>1, <2>2, <2>3
<1> QED BY <1>4, <1>5 DEF update_hqc

\* A vote that completes a quorum raises hqc and moves b_leaf; the vote itself was
\* recorded when it was cast, so BaseInv is kept.
LEMMA ReceiveVoteBase ==
  ASSUME BaseInv, NEW m \in votes, on_receive_vote(m[3], m[1], m[2])
  PROVE  BaseInv'
<1> DEFINE r == m[3]
           v == m[1]
           b == m[2]
<1>1. /\ r \in Replicas /\ v \in Replicas /\ b \in minted /\ b \in Blocks
      /\ m = <<v, b, r>>
  BY DEF BaseInv, TypeOK, PointerInv
<1>2. /\ UNCHANGED <<blockVars, execVars, vheight, proposals, votes>>
      /\ self_qc' = [self_qc EXCEPT ![r][b] = @ \union {v}]
  BY DEF on_receive_vote
<1>3. self_qc[r][b] \union {v} \subseteq Voters(b)
  BY <1>1 DEF BaseInv, PointerInv, Voters, Voted
<1>4. /\ hqc' \in [Replicas -> Blocks] /\ b_leaf' \in [Replicas -> Blocks]
      /\ \A s \in Replicas : /\ Certified(hqc'[s])
                             /\ hqc'[s] \in minted /\ b_leaf'[s] \in minted
                             /\ hqc'[s] \in anc[b_leaf'[s]]
  <2>1. CASE IsQuorum(self_qc[r][b] \union {v}) /\ ~IsQuorum(self_qc[r][b])
    <3>1. IsQuorum(Voters(b))
      BY <1>3, <2>1, QuorumSuperset DEF Voters
    <3>2. Certified(b)
      BY <3>1 DEF Certified
    <3>3. update_hqc(r, b)
      BY <2>1 DEF on_receive_vote
    <3> HIDE DEF r, b
    <3> QED BY <1>1, <3>2, <3>3, UpdateHqc
  <2>2. CASE ~(IsQuorum(self_qc[r][b] \union {v}) /\ ~IsQuorum(self_qc[r][b]))
    <3>1. UNCHANGED chainVars
      BY <2>2 DEF on_receive_vote
    <3> QED BY <3>1 DEF chainVars, BaseInv, TypeOK, PointerInv, CertifiedByQuorum
  <2> QED BY <2>1, <2>2
<1> HIDE DEF r, v, b
<1>5. self_qc' \in [Replicas -> [Blocks -> SUBSET Replicas]]
  BY <1>1, <1>2 DEF BaseInv, TypeOK
<1>6. TypeOK'
  BY <1>2, <1>4, <1>5 DEF BaseInv, TypeOK, blockVars, execVars
<1>7. \A s \in Replicas : \A c \in Blocks : self_qc'[s][c] \subseteq Voters(c)
  BY <1>1, <1>2, <1>3 DEF BaseInv, TypeOK, PointerInv
<1>8. PointerInv'
  <2>1. \A c : Voters(c)' = Voters(c)
    BY <1>2 DEF Voters, Voted
  <2> QED BY <1>2, <1>4, <1>7, <2>1 DEF BaseInv, PointerInv, blockVars, execVars
<1> QED BY <1>2, <1>4, <1>6, <1>8, QuietBase

(***************************************************************************)
(* What update does with a minted block.                                   *)
(***************************************************************************)
LEMMA JustifyChain ==
  ASSUME BaseInv, NEW n \in minted
  PROVE  /\ {blk2(n), blk1(n), blk(n)} \subseteq minted
         /\ Certified(blk2(n)) /\ Certified(blk1(n)) /\ Certified(blk(n))
         /\ height[blk1(n)] <= height[blk2(n)]
<1>1. {blk2(n), blk1(n), blk(n)} \subseteq minted
  BY JustifyMinted DEF blk2, blk1, blk
<1>2. Certified(blk2(n)) /\ Certified(blk1(n)) /\ Certified(blk(n))
  BY <1>1 DEF BaseInv, CertifiedByQuorum, blk2, blk1, blk
<1>3. blk1(n) \in anc[blk2(n)]
  BY <1>1 DEF BaseInv, TreeInv, blk1, blk2
<1>4. height[blk1(n)] \in Int /\ height[blk2(n)] \in Int
  BY <1>1, HeightAssumption DEF BaseInv, TypeOK
<1>5. height[blk1(n)] <= height[blk2(n)]
  BY <1>1, <1>3, <1>4 DEF BaseInv, TreeInv
<1> QED BY <1>1, <1>2, <1>5

\* A certified block at least as high as an executed one descends from it.
LEMMA ExecIsFinal ==
  ASSUME NEW T, BaseInv, SafeInv(T), NEW r \in Replicas, NEW c \in minted, Certified(c),
         height[c] >= height[b_exec[r]]
  PROVE  b_exec[r] \in anc[c]
<1>1. CASE b_exec[r] = Genesis
  BY <1>1 DEF BaseInv, TreeInv
<1>2. CASE b_exec[r] # Genesis
  <2>1. PICK x1, x2 \in minted : ThreeChain(b_exec[r], x1, x2)
    BY <1>2 DEF BaseInv, HeadInv
  <2>2. b_exec[r] \in minted
    BY DEF BaseInv, PointerInv
  <2> QED BY <2>1, <2>2, Finality
<1> QED BY <1>1, <1>2

\* Writing a block leaves its whole chain written, and what is written closed
\* under ancestors.
LEMMA WriteToDisk ==
  ASSUME BaseInv, NEW r \in Replicas, NEW l \in minted
  PROVE  /\ anc[l] \subseteq write_to_disk(r, l)
         /\ written[r] \subseteq write_to_disk(r, l)
         /\ \A a \in write_to_disk(r, l) : a \in minted /\ anc[a] \subseteq write_to_disk(r, l)
<1>1. \A a \in written[r] : a \in minted /\ anc[a] \subseteq written[r]
  BY DEF BaseInv, WrittenInv
<1>2. anc[l] \subseteq write_to_disk(r, l)
  BY <1>1 DEF write_to_disk
<1>3. \A a \in write_to_disk(r, l) : a \in written[r] \/ a \in anc[l]
  BY DEF write_to_disk
<1>4. written[r] \subseteq write_to_disk(r, l)
  BY DEF write_to_disk
<1>5. \A a \in anc[l] : a \in minted /\ anc[a] \subseteq anc[l]
  BY DEF BaseInv, TreeInv
<1> QED BY <1>1, <1>2, <1>3, <1>4, <1>5

\* What update commits is the head of a certified three-chain.
LEMMA CommitsThreeChain ==
  ASSUME BaseInv, NEW r \in Replicas, NEW n \in minted, reaches_commit(r, n)
  PROVE  ThreeChain(blk(n), blk1(n), blk2(n))
<1>1. /\ blk(n) \in minted /\ blk1(n) \in minted /\ blk2(n) \in minted
      /\ Certified(blk2(n))
  BY JustifyChain
<1>2. Genesis \in decided[r]
  BY DEF BaseInv, TreeInv, PointerInv
<1>3. blk1(n) # Genesis /\ blk2(n) # Genesis
  BY <1>2 DEF reaches_commit, reaches_lock, reaches_hqc
<1> QED BY <1>1, <1>3 DEF ThreeChain, reaches_commit, blk, blk1, blk2

\* update() moves the lock only upwards, to a block that is certified and on disk
\* with all it extends.
LEMMA UpdateLock ==
  ASSUME BaseInv, NEW r \in Replicas, NEW n \in minted, update(r, n)
  PROVE  /\ b_lock' \in [Replicas -> Blocks] /\ written' \in [Replicas -> SUBSET Blocks]
         /\ \A s \in Replicas \ {r} : b_lock'[s] = b_lock[s] /\ written'[s] = written[s]
         /\ b_lock'[r] \in minted /\ Certified(b_lock'[r])
         /\ height[b_lock[r]] <= height[b_lock'[r]]
         /\ reaches_lock(r, n) => height[blk1(n)] <= height[b_lock'[r]]
         /\ ~reaches_lock(r, n) => b_lock'[r] = b_lock[r]
         /\ written[r] \subseteq written'[r]
         /\ anc[b_lock'[r]] \subseteq written'[r]
         /\ \A a \in written'[r] : a \in minted /\ anc[a] \subseteq written'[r]
<1>1. /\ b_lock \in [Replicas -> Blocks] /\ written \in [Replicas -> SUBSET Blocks]
      /\ minted \subseteq Blocks /\ \A b \in minted : height[b] \in Int
  BY HeightAssumption DEF BaseInv, TypeOK
<1>2. /\ b_lock[r] \in minted /\ Certified(b_lock[r])
      /\ anc[b_lock[r]] \subseteq written[r]
      /\ \A a \in written[r] : a \in minted /\ anc[a] \subseteq written[r]
  BY DEF BaseInv, PointerInv, CertifiedByQuorum, WrittenInv
<1>3. blk1(n) \in minted /\ Certified(blk1(n))
  BY JustifyChain
<1>4. CASE reaches_lock(r, n)
  <2>1. /\ b_lock' = [b_lock EXCEPT ![r] = new_lock(r, n)]
        /\ written' = [written EXCEPT ![r] = write_to_disk(r, new_lock(r, n))]
    BY <1>4 DEF update
  <2>2. /\ new_lock(r, n) \in minted /\ Certified(new_lock(r, n))
        /\ height[b_lock[r]] <= height[new_lock(r, n)]
        /\ height[blk1(n)] <= height[new_lock(r, n)]
    BY <1>1, <1>2, <1>3 DEF new_lock
  <2> DEFINE w == write_to_disk(r, new_lock(r, n))
  <2>3. /\ anc[new_lock(r, n)] \subseteq w /\ written[r] \subseteq w
        /\ \A a \in w : a \in minted /\ anc[a] \subseteq w
    BY <2>2, WriteToDisk
  <2> HIDE DEF w
  <2>4. b_lock'[r] = new_lock(r, n) /\ written'[r] = w
    BY <1>1, <2>1 DEF w
  <2>5. \A s \in Replicas \ {r} : b_lock'[s] = b_lock[s] /\ written'[s] = written[s]
    BY <1>1, <2>1
  <2>6. b_lock' \in [Replicas -> Blocks] /\ written' \in [Replicas -> SUBSET Blocks]
    BY <1>1, <2>1, <2>2, <2>3 DEF w
  <2> QED BY <1>4, <2>2, <2>3, <2>4, <2>5, <2>6
<1>5. CASE ~reaches_lock(r, n)
  <2>1. UNCHANGED <<b_lock, written>>
    BY <1>5 DEF update
  <2> QED BY <1>1, <1>2, <1>5, <2>1
<1> QED BY <1>4, <1>5

\* update() commits only the head of a certified three-chain that extends what has
\* been executed, and then has executed exactly the head's chain; otherwise what
\* has been executed stays.
LEMMA UpdateExec ==
  ASSUME BaseInv, NEW r \in Replicas, NEW n \in minted, update(r, n)
  PROVE  /\ breached' \subseteq Replicas
         /\ b_exec' \in [Replicas -> Blocks] /\ decided' \in [Replicas -> SUBSET Blocks]
         /\ \A s \in Replicas \ {r} : b_exec'[s] = b_exec[s] /\ decided'[s] = decided[s]
         /\ b_exec'[r] \in minted /\ decided'[r] = anc[b_exec'[r]]
         /\ b_exec[r] \in anc[b_exec'[r]]
         /\ b_exec'[r] # Genesis => \E x1, x2 \in minted : ThreeChain(b_exec'[r], x1, x2)
         /\ b_exec'[r] = b_exec[r] \/ (reaches_commit(r, n) /\ b_exec'[r] = blk(n))
         /\ breached' = breached \/ (reaches_commit(r, n) /\ ~walk_meets_exec(r, blk(n)))
<1>1. /\ b_exec \in [Replicas -> Blocks] /\ decided \in [Replicas -> SUBSET Blocks]
      /\ minted \subseteq Blocks /\ \A b \in minted : height[b] \in Int
      /\ breached \subseteq Replicas
  BY HeightAssumption DEF BaseInv, TypeOK
<1>2. /\ b_exec[r] \in minted /\ decided[r] = anc[b_exec[r]] /\ b_exec[r] \in anc[b_exec[r]]
      /\ b_exec[r] # Genesis => \E x1, x2 \in minted : ThreeChain(b_exec[r], x1, x2)
  BY DEF BaseInv, PointerInv, HeadInv, TreeInv
<1>3. CASE ~reaches_commit(r, n)
  <2>1. UNCHANGED <<decided, b_exec, breached>>
    BY <1>3 DEF update
  <2> QED BY <1>1, <1>2, <2>1
<1>4. CASE reaches_commit(r, n) /\ ~walk_meets_exec(r, blk(n))
  <2>1. UNCHANGED <<decided, b_exec>> /\ breached' = breached \union {r}
    BY <1>4 DEF update, commit
  <2> QED BY <1>1, <1>2, <1>4, <2>1
<1>5. CASE reaches_commit(r, n) /\ walk_meets_exec(r, blk(n))
  <2> DEFINE x == blk(n)
  <2>1. x \in minted /\ blk1(n) \in minted /\ blk2(n) \in minted
    BY JustifyChain
  <2>2. ThreeChain(x, blk1(n), blk2(n))
    BY <1>5, CommitsThreeChain
  <2>3. b_exec[r] \in anc[x]
    BY <1>5 DEF walk_meets_exec
  <2>4. /\ decided' = [decided EXCEPT ![r] = @ \union commit_queue(r, x)]
        /\ b_exec'  = [b_exec EXCEPT ![r] = x]
        /\ UNCHANGED breached
    BY <1>5 DEF update, commit
  <2>5. decided[r] \union commit_queue(r, x) = anc[x]
    <3>1. \A a \in anc[x] : a \in minted /\ height[a] \in Int
      BY <1>1, <2>1 DEF BaseInv, TreeInv
    <3>2. anc[b_exec[r]] \subseteq anc[x]
      BY <2>1, <2>3 DEF BaseInv, TreeInv
    <3>3. \A a \in anc[x] : ~(height[a] > height[b_exec[r]]) => a \in anc[b_exec[r]]
      BY <1>1, <1>2, <2>1, <2>3, <3>1 DEF BaseInv, TreeInv
    <3> QED BY <1>2, <3>2, <3>3 DEF commit_queue
  <2>6. x = blk(n)
    OBVIOUS
  <2> HIDE DEF x
  <2>7. anc[x] \subseteq Blocks
    BY <1>1, <2>1 DEF BaseInv, TreeInv
  <2>8. b_exec' \in [Replicas -> Blocks] /\ decided' \in [Replicas -> SUBSET Blocks]
    BY <1>1, <2>1, <2>4, <2>5, <2>7
  <2>9. b_exec'[r] = x /\ decided'[r] = anc[x]
    BY <1>1, <2>4, <2>5
  <2>10. \A s \in Replicas \ {r} : b_exec'[s] = b_exec[s] /\ decided'[s] = decided[s]
    BY <1>1, <2>4
  <2> QED BY <1>1, <1>5, <2>1, <2>2, <2>3, <2>4, <2>6, <2>8, <2>9, <2>10
<1> QED BY <1>3, <1>4, <1>5

\* While the voters of T keep their promises, update() leaves the lock at or above
\* blk1 on the branch of what is executed, and by Finality the commit walk meets
\* b_exec.
LEMMA UpdateSafe ==
  ASSUME NEW T, BaseInv, SafeInv(T), NEW r \in Replicas, NEW n \in minted, update(r, n)
  PROVE  /\ breached' = breached
         /\ height[blk1(n)] <= height[b_lock'[r]]
         /\ b_exec'[r] \in anc[b_lock'[r]]
         /\ b_exec'[r] # Genesis /\ r \in T => height[b_lock'[r]] > height[b_exec'[r]]
<1>1. minted \subseteq Blocks /\ \A b \in minted : height[b] \in Int
  BY HeightAssumption DEF BaseInv, TypeOK
<1>2. /\ b_exec[r] \in minted /\ decided[r] = anc[b_exec[r]] /\ b_lock[r] \in minted
      /\ b_exec[r] \in anc[b_lock[r]]
      /\ b_exec[r] # Genesis /\ r \in T => height[b_lock[r]] > height[b_exec[r]]
  BY DEF BaseInv, SafeInv, PointerInv, ExecInv
<1>3. height[b_exec[r]] <= height[b_lock[r]]
  BY <1>1, <1>2 DEF BaseInv, TreeInv
<1>4. /\ b_lock'[r] \in minted /\ Certified(b_lock'[r])
      /\ height[b_lock[r]] <= height[b_lock'[r]]
      /\ reaches_lock(r, n) => height[blk1(n)] <= height[b_lock'[r]]
      /\ ~reaches_lock(r, n) => b_lock'[r] = b_lock[r]
  BY UpdateLock
<1>5. /\ blk(n) \in minted /\ blk1(n) \in minted /\ blk2(n) \in minted
      /\ Certified(blk(n)) /\ height[blk1(n)] <= height[blk2(n)]
  BY JustifyChain
<1>6. height[blk1(n)] <= height[b_lock'[r]]
  <2>1. CASE reaches_lock(r, n)
    BY <1>4, <2>1
  <2>2. CASE ~reaches_lock(r, n)
    <3>1. blk2(n) \in anc[b_exec[r]] \/ blk1(n) \in anc[b_exec[r]]
      BY <1>2, <2>2 DEF reaches_lock, reaches_hqc
    <3>2. \A a \in anc[b_exec[r]] : a \in minted /\ height[a] <= height[b_exec[r]]
      BY <1>1, <1>2 DEF BaseInv, TreeInv
    <3>3. height[blk1(n)] <= height[b_exec[r]]
      BY <1>1, <1>2, <1>5, <3>1, <3>2
    <3> QED BY <1>1, <1>2, <1>3, <1>4, <1>5, <2>2, <3>3
  <2> QED BY <2>1, <2>2
<1>7. b_exec[r] \in anc[b_lock'[r]]
  <2>1. height[b_lock'[r]] >= height[b_exec[r]]
    BY <1>1, <1>2, <1>3, <1>4
  <2> QED BY <1>4, <2>1, ExecIsFinal
<1>8. CASE ~reaches_commit(r, n)
  <2>1. breached' = breached /\ b_exec' = b_exec
    BY <1>8 DEF update
  <2> QED BY <1>1, <1>2, <1>4, <1>6, <1>7, <2>1
<1>9. CASE reaches_commit(r, n)
  <2> DEFINE x == blk(n)
  <2>1. ThreeChain(x, blk1(n), blk2(n))
    BY <1>9, CommitsThreeChain
  <2>2. height[blk1(n)] = height[x] + 1
    BY <2>1 DEF BaseInv, TreeInv, ThreeChain
  <2>3. height[b_lock'[r]] > height[x]
    BY <1>1, <1>4, <1>5, <1>6, <2>2
  <2>4. x \in anc[b_lock'[r]]
    <3>1. height[b_lock'[r]] >= height[x]
      BY <1>1, <1>4, <1>5, <2>3
    <3> QED BY <1>4, <1>5, <2>1, <3>1, Finality
  <2>5. x \notin anc[b_exec[r]]
    BY <1>2, <1>9 DEF reaches_commit
  <2>6. ~(height[b_exec[r]] >= height[x])
    BY <1>2, <1>5, <2>1, <2>5, ExecCertified, Finality
  <2>7. b_exec[r] \in anc[x]
    <3>1. height[x] >= height[b_exec[r]]
      BY <1>1, <1>2, <1>5, <2>6
    <3> QED BY <1>5, <3>1, ExecIsFinal
  <2>8. breached' = breached /\ b_exec' = [b_exec EXCEPT ![r] = x]
    BY <1>9, <2>7 DEF update, commit, walk_meets_exec
  <2>9. b_exec'[r] = x
    BY <2>8 DEF BaseInv, TypeOK
  <2> QED BY <1>6, <2>3, <2>4, <2>8, <2>9
<1> QED BY <1>8, <1>9

(***************************************************************************)
(* Receiving a proposal: the vote, then update.                            *)
(***************************************************************************)
\* What the vote part of on_receive_proposal(r, n, p) changes: at most r's vheight,
\* which moves up to n's height, and the votes, by one for n.
LEMMA VoteEffect ==
  ASSUME BaseInv, NEW r \in Replicas, NEW n \in minted, NEW p \in Replicas,
         (opinion(r, n) /\ do_vote(r, n, p)) \/ UNCHANGED <<vheight, votes>>
  PROVE  /\ votes \subseteq votes'
         /\ \A b : Certified(b) => Certified(b)'
         /\ votes' \subseteq votes \union {<<r, n, p>>}
         /\ vheight' \in [Replicas -> 0 .. MaxHeight]
         /\ \A s \in Replicas : vheight[s] \in Nat /\ vheight'[s] \in Nat /\ vheight[s] <= vheight'[s]
         /\ \A v \in Replicas, b \in Blocks :
              Voted(v, b)' => \/ Voted(v, b)
                              \/ /\ v = r /\ b = n /\ opinion(r, n)
                                 /\ vheight'[r] = height[n] /\ vheight[r] < height[n]
<1>1. height[n] \in 0 .. MaxHeight /\ height[n] \in Nat
  BY HeightAssumption DEF BaseInv, TypeOK
<1>2. /\ vheight \in [Replicas -> 0 .. MaxHeight]
      /\ \A s \in Replicas : vheight[s] \in Nat
  BY HeightAssumption DEF BaseInv, TypeOK
<1>3. CASE UNCHANGED <<vheight, votes>>
  <2>1. \A v, b : Voted(v, b)' = Voted(v, b)
    BY <1>3 DEF Voted
  <2>2. \A b : Certified(b)' = Certified(b)
    BY <1>3 DEF Certified, Voters, Voted
  <2> QED BY <1>2, <1>3, <2>1, <2>2
<1>4. CASE opinion(r, n) /\ do_vote(r, n, p)
  <2>1. height[n] % VHeightModulus = height[n]
    BY <1>1, HeightAssumption
  <2>2. /\ vheight' = [vheight EXCEPT ![r] = height[n]]
        /\ votes' = votes \union {<<r, n, p>>}
        /\ vheight[r] < height[n]
    BY <1>1, <1>2, <1>4, <2>1 DEF do_vote, opinion
  <2>3. \A b : Certified(b) => Certified(b)'
    BY <2>2, CertifiedMonotone
  <2>4. /\ vheight' \in [Replicas -> 0 .. MaxHeight]
        /\ vheight'[r] = height[n]
        /\ \A s \in Replicas \ {r} : vheight'[s] = vheight[s]
    BY <1>1, <1>2, <2>2
  <2>5. \A s \in Replicas : vheight'[s] \in Nat /\ vheight[s] <= vheight'[s]
    BY <1>1, <1>2, <2>2, <2>4
  <2>6. \A v, b : Voted(v, b)' => Voted(v, b) \/ (v = r /\ b = n)
    BY <2>2 DEF Voted
  <2> QED BY <1>2, <1>4, <2>2, <2>3, <2>4, <2>5, <2>6
<1> QED BY <1>3, <1>4

\* Voting for a proposal and updating with it keeps the base of the invariant,
\* whatever has been voted for before.
LEMMA ReceiveProposalBase ==
  ASSUME BaseInv, NEW r \in Replicas, NEW m \in proposals, on_receive_proposal(r, m[1], m[2])
  PROVE  BaseInv'
<1> DEFINE n == m[1]
           p == m[2]
<1>1. n \in minted \ {Genesis} /\ n \in Blocks /\ p \in Replicas
  BY DEF BaseInv, TypeOK, PointerInv
<1>2. /\ update(r, n)
      /\ UNCHANGED <<minted, parent, justify, height, anc, self_qc, proposals>>
  BY DEF on_receive_proposal, blockVars
<1>3. \/ opinion(r, n) /\ do_vote(r, n, p)
      \/ UNCHANGED <<vheight, votes>>
  BY DEF on_receive_proposal
<1> HIDE DEF n, p
<1>4. minted \subseteq Blocks /\ \A b \in minted : height[b] \in 0 .. MaxHeight /\ height[b] \in Nat
  BY HeightAssumption DEF BaseInv, TypeOK
<1>5. /\ votes \subseteq votes'
      /\ \A b : Certified(b) => Certified(b)'
      /\ votes' \subseteq votes \union {<<r, n, p>>}
      /\ vheight' \in [Replicas -> 0 .. MaxHeight]
  BY <1>1, <1>3, VoteEffect
<1>6. /\ hqc' \in [Replicas -> Blocks] /\ b_leaf' \in [Replicas -> Blocks]
       /\ \A s \in Replicas : /\ Certified(hqc'[s])
                              /\ hqc'[s] \in minted /\ b_leaf'[s] \in minted
                              /\ hqc'[s] \in anc[b_leaf'[s]]
  <2>1. CASE reaches_hqc(r, n)
    <3>1. update_hqc(r, blk2(n))
      BY <1>2, <2>1 DEF update
    <3>2. blk2(n) \in minted /\ Certified(blk2(n))
      BY <1>1, JustifyChain
    <3> QED BY <3>1, <3>2, UpdateHqc
  <2>2. CASE ~reaches_hqc(r, n)
    <3>1. UNCHANGED chainVars
      BY <1>2, <2>2 DEF update
    <3> QED BY <3>1 DEF chainVars, BaseInv, TypeOK, PointerInv, CertifiedByQuorum
  <2> QED BY <2>1, <2>2
<1>7. /\ b_lock' \in [Replicas -> Blocks] /\ written' \in [Replicas -> SUBSET Blocks]
      /\ \A s \in Replicas \ {r} : b_lock'[s] = b_lock[s] /\ written'[s] = written[s]
      /\ b_lock'[r] \in minted /\ Certified(b_lock'[r])
      /\ anc[b_lock'[r]] \subseteq written'[r]
      /\ \A a \in written'[r] : a \in minted /\ anc[a] \subseteq written'[r]
  BY <1>1, <1>2, UpdateLock
<1>8. /\ breached' \subseteq Replicas
      /\ b_exec' \in [Replicas -> Blocks] /\ decided' \in [Replicas -> SUBSET Blocks]
      /\ \A s \in Replicas \ {r} : b_exec'[s] = b_exec[s] /\ decided'[s] = decided[s]
      /\ b_exec'[r] \in minted /\ decided'[r] = anc[b_exec'[r]]
      /\ b_exec'[r] # Genesis => \E x1, x2 \in minted : ThreeChain(b_exec'[r], x1, x2)
  BY <1>1, <1>2, UpdateExec
<1>9. TypeOK'
  <2>1. votes' \subseteq Replicas \X Blocks \X Replicas
    BY <1>1, <1>5 DEF BaseInv, TypeOK
  <2> QED BY <1>2, <1>5, <1>6, <1>7, <1>8, <2>1 DEF BaseInv, TypeOK
<1>10. TreeInv'
  BY <1>2 DEF BaseInv, TreeInv
<1>11. PointerInv'
  <2>1. \A s \in Replicas : /\ b_lock'[s] \in minted /\ b_exec'[s] \in minted
                            /\ decided'[s] = anc[b_exec'[s]]
    BY <1>7, <1>8 DEF BaseInv, PointerInv
  <2>2. \A s \in Replicas : \A b \in Blocks : self_qc[s][b] \subseteq Voters(b)'
    BY <1>5 DEF BaseInv, PointerInv, Voters, Voted
  <2>3. \A k \in votes' : k[2] \in minted \ {Genesis}
    BY <1>1, <1>5 DEF BaseInv, PointerInv
  <2> QED BY <1>2, <1>6, <2>1, <2>2, <2>3 DEF BaseInv, PointerInv
<1>12. CertifiedByQuorum'
  BY <1>2, <1>5, <1>6, <1>7 DEF BaseInv, CertifiedByQuorum
<1>13. HeadInv'
  <2> SUFFICES ASSUME NEW s \in Replicas, b_exec'[s] # Genesis
               PROVE  \E x1, x2 \in minted : ThreeChain(b_exec[s], x1, x2)'
    BY <1>2 DEF HeadInv
  <2>1. \E x1, x2 \in minted : ThreeChain(b_exec'[s], x1, x2)
    BY <1>8 DEF BaseInv, HeadInv
  <2>2. \A x1, x2 \in minted : ThreeChain(b_exec'[s], x1, x2) => ThreeChain(b_exec[s], x1, x2)'
    BY <1>2, <1>5 DEF ThreeChain
  <2> QED BY <2>1, <2>2
<1>14. WrittenInv'
  BY <1>2, <1>7 DEF BaseInv, WrittenInv
<1> QED BY <1>9, <1>10, <1>11, <1>12, <1>13, <1>14 DEF BaseInv

\* The voting rule and the lock keep the promises of the voters of T, and what is
\* executed stays on the locked branch.
LEMMA ReceiveProposalSafe ==
  ASSUME NEW T, BaseInv, SafeInv(T),
         NEW r \in Replicas, NEW m \in proposals, on_receive_proposal(r, m[1], m[2])
  PROVE  SafeInv(T)'
<1> DEFINE n == m[1]
           p == m[2]
<1>1. n \in minted \ {Genesis} /\ n \in Blocks /\ p \in Replicas
  BY DEF BaseInv, TypeOK, PointerInv
<1>2. /\ update(r, n)
      /\ UNCHANGED <<minted, parent, justify, height, anc, self_qc, proposals>>
  BY DEF on_receive_proposal, blockVars
<1>3. \/ opinion(r, n) /\ do_vote(r, n, p)
      \/ UNCHANGED <<vheight, votes>>
  BY DEF on_receive_proposal
<1> HIDE DEF n, p
<1>4. minted \subseteq Blocks /\ \A b \in minted : height[b] \in 0 .. MaxHeight /\ height[b] \in Nat
  BY HeightAssumption DEF BaseInv, TypeOK
<1>5. QuorumsMeetIn(T)' /\ T \subseteq Replicas
  BY DEF SafeInv, QuorumsMeetIn
<1>6. \A b : Certified(b) => Certified(b)'
  BY <1>1, <1>3, VoteEffect
<1>7. /\ vheight' \in [Replicas -> 0 .. MaxHeight]
      /\ \A s \in Replicas : vheight[s] \in Nat /\ vheight'[s] \in Nat /\ vheight[s] <= vheight'[s]
  BY <1>1, <1>3, VoteEffect
<1>8. \A q \in Replicas, b \in Blocks :
        Voted(q, b)' => \/ Voted(q, b)
                        \/ /\ q = r /\ b = n /\ opinion(r, n)
                           /\ vheight'[r] = height[n] /\ vheight[r] < height[n]
  BY <1>1, <1>3, VoteEffect
<1>9. /\ b_lock' \in [Replicas -> Blocks]
      /\ \A s \in Replicas \ {r} : b_lock'[s] = b_lock[s]
      /\ b_lock'[r] \in minted
      /\ height[b_lock[r]] <= height[b_lock'[r]]
  BY <1>1, <1>2, UpdateLock
<1>10. /\ breached' = breached
       /\ height[blk1(n)] <= height[b_lock'[r]]
       /\ b_exec'[r] \in anc[b_lock'[r]]
       /\ b_exec'[r] # Genesis /\ r \in T => height[b_lock'[r]] > height[b_exec'[r]]
  BY <1>1, <1>2, UpdateSafe
<1>11. \A s \in Replicas \ {r} : b_exec'[s] = b_exec[s]
  BY <1>1, <1>2, UpdateExec
<1>12. \A v \in T, a \in minted : Voted(v, a) => height[a] <= vheight[v]
  BY DEF SafeInv, VoteInv
<1>13. OneVoteOf(T)'
  <2> SUFFICES ASSUME NEW v \in T, NEW a \in minted, NEW b \in minted,
                      Voted(v, a)', Voted(v, b)', height[a] = height[b]
               PROVE  a = b
    BY <1>2 DEF OneVoteOf
  <2>1. CASE Voted(v, a) /\ Voted(v, b)
    BY <2>1 DEF SafeInv, OneVoteOf
  <2>2. CASE a = n /\ b = n
    BY <2>2
  <2>3. CASE /\ v = r /\ opinion(r, n)
             /\ vheight[r] < height[n]
             /\ (a = n /\ Voted(v, b)) \/ (b = n /\ Voted(v, a))
    BY <1>4, <1>5, <1>7, <1>12, <2>3
  <2> QED BY <1>4, <1>5, <1>8, <2>1, <2>2, <2>3
<1>14. \A a \in minted : justify[justify[a]] \in minted
  BY JustifyMinted
<1>15. \A s \in Replicas : /\ b_lock[s] \in minted /\ b_lock'[s] \in minted
                           /\ height[b_lock[s]] <= height[b_lock'[s]]
  <2>1. \A s \in Replicas : b_lock[s] \in minted /\ height[b_lock[s]] <= height[b_lock[s]]
    BY <1>4 DEF BaseInv, PointerInv
  <2> QED BY <1>9, <2>1
<1>16. VoteInv(T)'
  <2> SUFFICES ASSUME NEW v \in T, NEW a \in minted, Voted(v, a)'
               PROVE  /\ height[a] <= vheight'[v]
                      /\ height[justify[justify[a]]] <= height[b_lock'[v]]
                      /\ \A c \in minted :
                           Voted(v, c)' /\ height[a] < height[c] =>
                             \E d \in anc[c] \ {c} :
                                 Certified(d)' /\ height[justify[justify[a]]] <= height[d]
    BY <1>2 DEF VoteInv
  <2>1. CASE Voted(v, a)
    <3>1. height[a] <= vheight[v] /\ height[justify[justify[a]]] <= height[b_lock[v]]
      BY <2>1 DEF SafeInv, VoteInv
    <3>2. height[a] <= vheight'[v] /\ height[justify[justify[a]]] <= height[b_lock'[v]]
      BY <1>4, <1>5, <1>7, <1>14, <1>15, <3>1
    <3>3. ASSUME NEW c \in minted, Voted(v, c)', height[a] < height[c]
          PROVE  \E d \in anc[c] \ {c} :
                    Certified(d)' /\ height[justify[justify[a]]] <= height[d]
      <4>1. CASE Voted(v, c)
        <5>1. PICK d \in anc[c] \ {c} : Certified(d) /\ height[justify[justify[a]]] <= height[d]
          BY <2>1, <3>3, <4>1 DEF SafeInv, VoteInv
        <5> QED BY <1>6, <5>1
      <4>2. CASE v = r /\ c = n /\ opinion(r, n)
        <5>1. CASE height[justify[n]] > height[b_lock[r]]
          <6>1. justify[n] \in anc[n] \ {n} /\ justify[n] \in minted /\ Certified(justify[n])
            <7>1. parent[n] \in minted /\ justify[n] \in anc[parent[n]] /\ anc[n] = anc[parent[n]] \union {n}
              BY <1>1 DEF BaseInv, TreeInv
            <7>2. height[n] = height[parent[n]] + 1
              BY <1>1 DEF BaseInv, TreeInv
            <7>3. n \notin anc[parent[n]]
              BY <1>1, <1>4, <7>1, <7>2 DEF BaseInv, TreeInv
            <7>4. Certified(justify[n])
              BY <1>1 DEF BaseInv, CertifiedByQuorum
            <7> QED BY <1>1, <7>1, <7>3, <7>4, JustifyMinted
          <6>2. height[justify[justify[a]]] <= height[justify[n]]
            BY <1>4, <1>14, <1>15, <3>1, <4>2, <5>1, <6>1
          <6> QED BY <1>6, <4>2, <6>1, <6>2
        <5>2. CASE b_lock[r] \in anc[n] \ {n}
          <6>1. Certified(b_lock[r])
            BY DEF BaseInv, CertifiedByQuorum
          <6> QED BY <1>6, <3>1, <4>2, <5>2, <6>1
        <5> QED BY <4>2, <5>1, <5>2 DEF opinion, extends_lock
      <4> QED BY <1>4, <1>5, <1>8, <3>3, <4>1, <4>2
    <3> QED BY <3>2, <3>3
  <2>2. CASE /\ ~Voted(v, a) /\ v = r /\ a = n
           /\ vheight'[r] = height[n] /\ vheight[r] < height[n]
    <3>1. height[a] <= vheight'[v] /\ vheight[r] < height[n]
      BY <1>1, <1>4, <2>2
    <3>2. height[justify[justify[a]]] <= height[b_lock'[v]]
      BY <1>10, <2>2 DEF blk1
    <3>3. ASSUME NEW c \in minted, Voted(v, c)', height[a] < height[c]
          PROVE  FALSE
      <4>1. CASE Voted(v, c)
        BY <1>1, <1>4, <1>7, <1>12, <2>2, <3>1, <3>3, <4>1
      <4>2. CASE c = n
        BY <1>1, <1>4, <2>2, <3>3, <4>2
      <4> QED BY <1>4, <1>5, <1>8, <3>3, <4>1, <4>2
    <3> QED BY <3>1, <3>2, <3>3
  <2> QED BY <1>4, <1>5, <1>8, <2>1, <2>2
<1>17. ExecInv(T)'
  BY <1>2, <1>9, <1>10, <1>11 DEF SafeInv, ExecInv
<1>18. NoSafetyBreach'
  BY <1>10 DEF SafeInv, NoSafetyBreach
<1> QED BY <1>5, <1>13, <1>16, <1>17, <1>18 DEF SafeInv

-----------------------------------------------------------------------------
(***************************************************************************)
(* The invariant and what follows from it.                                 *)
(***************************************************************************)

\* A step that changes nothing.
LEMMA StutterPreserves ==
  ASSUME IInv, UNCHANGED vars
  PROVE  IInv'
<1>1. /\ UNCHANGED <<blockVars, chainVars, execVars, vheight, self_qc, proposals, votes>>
  BY DEF vars
<1>2. TypeOK'
  BY <1>1 DEF IInv, BaseInv, TypeOK, blockVars, chainVars, execVars
<1>3. PointerInv'
  BY <1>1 DEF IInv, BaseInv, PointerInv, Voters, Voted, blockVars, chainVars, execVars
<1>4. \A r \in Replicas : Certified(hqc'[r])
  BY <1>1 DEF IInv, BaseInv, CertifiedByQuorum, chainVars
<1> QED BY <1>1, <1>2, <1>3, <1>4, QuietBase, QuietSafe DEF IInv

\* Every step of every replica preserves the base of the invariant.
LEMMA StepBase ==
  ASSUME BaseInv, Next
  PROVE  BaseInv'
<1>1. CASE \E r \in Replicas, n \in Blocks : do_propose(r, n)
  BY <1>1, ProposeBase
<1>2. CASE \E r \in Replicas, b \in Blocks : do_propose_same_header(r, b)
  BY <1>2, SameHeaderBase
<1>3. CASE \E r \in Replicas : \E m \in proposals : on_receive_proposal(r, m[1], m[2])
  BY <1>3, ReceiveProposalBase
<1>4. CASE \E m \in votes : on_receive_vote(m[3], m[1], m[2])
  BY <1>4, ReceiveVoteBase
<1> QED BY <1>1, <1>2, <1>3, <1>4 DEF Next

\* Every step preserves the rest of it, for whatever set T of voters holds it up.
LEMMA StepSafe ==
  ASSUME NEW T, BaseInv, SafeInv(T), Next
  PROVE  SafeInv(T)'
<1>1. CASE \E r \in Replicas, n \in Blocks : do_propose(r, n)
  BY <1>1, ProposeSafe
<1>2. CASE \E r \in Replicas, b \in Blocks : do_propose_same_header(r, b)
  <2>1. UNCHANGED <<blockVars, execVars, vheight, votes>>
    BY <1>2 DEF do_propose_same_header
  <2> QED BY <2>1, QuietSafe
<1>3. CASE \E r \in Replicas : \E m \in proposals : on_receive_proposal(r, m[1], m[2])
  BY <1>3, ReceiveProposalSafe
<1>4. CASE \E m \in votes : on_receive_vote(m[3], m[1], m[2])
  <2>1. UNCHANGED <<blockVars, execVars, vheight, votes>>
    BY <1>4 DEF on_receive_vote
  <2> QED BY <2>1, QuietSafe
<1> QED BY <1>1, <1>2, <1>3, <1>4 DEF Next

\* Every step of every replica preserves the invariant.
LEMMA StepPreserves == IInv /\ [Next]_vars => IInv'
<1> SUFFICES ASSUME IInv, [Next]_vars PROVE IInv'
  OBVIOUS
<1>1. CASE Next
  BY <1>1, StepBase, StepSafe DEF IInv
<1>2. CASE UNCHANGED vars
  BY <1>2, StutterPreserves
<1> QED BY <1>1, <1>2

\* The inductive invariant holds in every reachable state of every instance.
THEOREM Invariant == Spec => []IInv
<1>1. Init => IInv
  BY InitEstablishes
<1>2. IInv /\ [Next]_vars => IInv'
  BY StepPreserves
<1> QED BY <1>1, <1>2, PTL DEF Spec

\* Type correctness: in particular no height the core computes, and no vheight it
\* stores in 32 bits, leaves the bound.
THEOREM TypeCorrect == Spec => []TypeOK
<1>1. IInv => TypeOK
  BY DEF IInv, BaseInv
<1> QED BY <1>1, Invariant, PTL

\* No replica ever votes twice at one height.
THEOREM VotesAreUnique == Spec => []OneVotePerHeight
<1>1. IInv => OneVotePerHeight
  BY DEF IInv, SafeInv, OneVotePerHeight
<1> QED BY <1>1, Invariant, PTL

\* Every certificate in the core and in a block is backed by a quorum of votes.
THEOREM CertificatesAreBacked == Spec => []CertifiedByQuorum
<1>1. IInv => CertifiedByQuorum
  BY DEF IInv, BaseInv
<1> QED BY <1>1, Invariant, PTL

\* The certificate in a block is for a proper ancestor of the block.
THEOREM BlocksExtendTheirJustify == Spec => []JustifyIsAncestor
<1>1. IInv => JustifyIsAncestor
  BY DEF IInv, BaseInv, TreeInv, JustifyIsAncestor
<1> QED BY <1>1, Invariant, PTL

\* An executed block is final: no conflicting block as high is ever certified.
THEOREM ExecutedIsFinal == Spec => []DecidedIsFinal
<1>1. IInv => DecidedIsFinal
  BY ExecIsFinal DEF IInv, DecidedIsFinal
<1> QED BY <1>1, Invariant, PTL

\* Any two last executed blocks are on one chain, the lower below the higher.
LEMMA ExecutedOnOneChain ==
  ASSUME NEW T, BaseInv, SafeInv(T), NEW r \in Replicas, NEW q \in Replicas,
         height[b_exec[r]] <= height[b_exec[q]]
  PROVE  b_exec[r] \in anc[b_exec[q]]
<1>1. b_exec[q] \in minted /\ b_exec[r] \in minted
  BY DEF BaseInv, PointerInv
<1>2. height[b_exec[q]] >= height[b_exec[r]]
  BY <1>1, HeightAssumption DEF BaseInv, TypeOK
<1> QED BY <1>1, <1>2, ExecCertified, ExecIsFinal

\* So they never conflict.
LEMMA ExecutedAgree ==
  ASSUME NEW T, BaseInv, SafeInv(T)
  PROVE  Agreement
<1> SUFFICES ASSUME NEW r \in Replicas, NEW q \in Replicas
             PROVE  b_exec[r] \in anc[b_exec[q]] \/ b_exec[q] \in anc[b_exec[r]]
  BY DEF Agreement
<1>1. height[b_exec[r]] \in Int /\ height[b_exec[q]] \in Int
  BY HeightAssumption DEF BaseInv, TypeOK
<1>2. height[b_exec[r]] <= height[b_exec[q]] \/ height[b_exec[q]] <= height[b_exec[r]]
  BY <1>1
<1> QED BY <1>2, ExecutedOnOneChain

\* No two replicas execute conflicting blocks.
THEOREM AgreementHolds == Spec => []Agreement
<1>1. IInv => Agreement
  BY ExecutedAgree DEF IInv
<1> QED BY <1>1, Invariant, PTL

\* The "safety breached" exception of update is unreachable.
THEOREM NeverBreached == Spec => []NoSafetyBreach
<1>1. IInv => NoSafetyBreach
  BY DEF IInv, SafeInv
<1> QED BY <1>1, Invariant, PTL

\* Every executed block is on disk.
THEOREM ExecutedOnDisk == Spec => []DecidedOnDisk
<1>1. IInv => DecidedOnDisk
  BY DEF IInv, BaseInv, SafeInv, DecidedOnDisk, PointerInv, ExecInv, WrittenInv, TreeInv
<1> QED BY <1>1, Invariant, PTL

\* The lock stays above the last executed block, on its branch.
THEOREM LockIsAbove == Spec => []LockAboveExec
<1>1. IInv => LockAboveExec
  BY DEF IInv, SafeInv, LockAboveExec, ExecInv
<1> QED BY <1>1, Invariant, PTL

-----------------------------------------------------------------------------
(***************************************************************************)
(* What a step may do to what has been executed.                           *)
(***************************************************************************)

\* Minted blocks stay, with their chain.
LEMMA StepKeepsBlocks ==
  ASSUME BaseInv, Next
  PROVE  \A b \in minted : b \in minted' /\ height'[b] = height[b] /\ anc'[b] = anc[b]
<1>1. CASE \E r \in Replicas, n \in Blocks : do_propose(r, n)
  BY <1>1, ProposeEffect
<1>2. CASE ~\E r \in Replicas, n \in Blocks : do_propose(r, n)
  <2>1. UNCHANGED blockVars
    BY <1>2 DEF Next, do_propose_same_header, on_receive_proposal, on_receive_vote
  <2> QED BY <2>1 DEF blockVars
<1> QED BY <1>1, <1>2

\* Each step extends what every replica has executed, or leaves it alone.
LEMMA StepExtends ==
  ASSUME BaseInv, Next, NEW r \in Replicas
  PROVE  /\ b_exec[r] \in anc'[b_exec'[r]]
         /\ height'[b_lock'[r]] >= height[b_lock[r]]
         /\ height'[hqc'[r]] >= height[hqc[r]]
<1>1. /\ {b_exec[r], b_lock[r], hqc[r]} \subseteq minted
      /\ b_exec[r] \in anc[b_exec[r]]
      /\ \A b \in minted : height[b] \in Int
  BY HeightAssumption DEF BaseInv, TypeOK, PointerInv, TreeInv
<1>2. CASE \E s \in Replicas, n \in Blocks : do_propose(s, n)
  <2>1. PICK s \in Replicas, n \in Blocks : do_propose(s, n)
    BY <1>2
  <2>2. \A b \in minted : height'[b] = height[b] /\ anc'[b] = anc[b]
    BY <2>1 DEF do_propose, fresh, mint_block, BaseInv, TypeOK
  <2>3. UNCHANGED <<b_exec, b_lock, hqc>>
    BY <2>1 DEF do_propose, execVars
  <2> QED BY <1>1, <2>2, <2>3
<1>3. CASE \E s \in Replicas, b \in Blocks : do_propose_same_header(s, b)
  BY <1>1, <1>3 DEF do_propose_same_header, blockVars, execVars
<1>4. CASE \E s \in Replicas : \E m \in proposals : on_receive_proposal(s, m[1], m[2])
  <2>1. PICK s \in Replicas, m \in proposals : on_receive_proposal(s, m[1], m[2])
    BY <1>4
  <2> DEFINE n == m[1]
  <2>2. n \in minted /\ update(s, n) /\ UNCHANGED <<height, anc>>
    BY <2>1 DEF on_receive_proposal, blockVars, BaseInv, PointerInv
  <2> HIDE DEF n
  <2>3. b_exec[r] \in anc[b_exec'[r]]
    BY <1>1, <2>2, UpdateExec
  <2>4. height[b_lock'[r]] >= height[b_lock[r]]
    <3>1. CASE r # s
      BY <1>1, <2>2, <3>1, UpdateLock
    <3>2. CASE r = s
      <4>1. b_lock'[r] \in minted /\ height[b_lock[r]] <= height[b_lock'[r]]
        BY <2>2, <3>2, UpdateLock
      <4> QED BY <1>1, <4>1
    <3> QED BY <3>1, <3>2
  <2>5. height[hqc'[r]] >= height[hqc[r]]
    <3>1. CASE reaches_hqc(s, n)
      <4>1. update_hqc(s, blk2(n)) /\ blk2(n) \in minted /\ Certified(blk2(n))
        BY <2>2, <3>1, JustifyChain DEF update
      <4> QED BY <4>1, UpdateHqc
    <3>2. CASE ~reaches_hqc(s, n)
      BY <1>1, <2>2, <3>2 DEF update, chainVars
    <3> QED BY <3>1, <3>2
  <2> QED BY <2>2, <2>3, <2>4, <2>5
<1>5. CASE \E m \in votes : on_receive_vote(m[3], m[1], m[2])
  <2>1. PICK m \in votes : on_receive_vote(m[3], m[1], m[2])
    BY <1>5
  <2>2. UNCHANGED <<b_exec, b_lock, height, anc>>
    BY <2>1 DEF on_receive_vote, execVars, blockVars
  <2>3. \/ UNCHANGED hqc
        \/ m[3] \in Replicas /\ hqc' = [hqc EXCEPT ![m[3]] = m[2]] /\ height[m[2]] > height[hqc[m[3]]]
    BY <2>1 DEF on_receive_vote, update_hqc, chainVars, BaseInv, TypeOK
  <2>4. m[2] \in minted /\ hqc \in [Replicas -> Blocks]
    BY DEF BaseInv, TypeOK, PointerInv
  <2>5. height[hqc'[r]] >= height[hqc[r]]
    BY <1>1, <2>3, <2>4
  <2> QED BY <1>1, <2>2, <2>5
<1> QED BY <1>2, <1>3, <1>4, <1>5 DEF Next

\* Executed chains, locks and highest certificates only move up.
THEOREM CommitsOnlyExtend == Spec => CommitsExtend
<1> DEFINE A == \A r \in Replicas :
                  /\ b_exec[r] \in anc'[b_exec'[r]]
                  /\ decided'[r] = anc'[b_exec'[r]]
                  /\ height'[b_lock'[r]] >= height[b_lock[r]]
                  /\ height'[hqc'[r]] >= height[hqc[r]]
<1>1. IInv /\ IInv' /\ [Next]_vars => [A]_vars
  <2> SUFFICES ASSUME IInv, IInv', Next PROVE A
    OBVIOUS
  <2>1. \A r \in Replicas : decided'[r] = anc'[b_exec'[r]]
    BY DEF IInv, BaseInv, PointerInv
  <2> QED BY <2>1, StepExtends DEF IInv
<1> QED BY <1>1, Invariant, PTL DEF Spec, CommitsExtend

-----------------------------------------------------------------------------
(***************************************************************************)
(* HotstuffCore implements ReplicatedLedger: read as chains of executed    *)
(* blocks, the replicas' states are prefixes of one append-only ledger.    *)
(***************************************************************************)
\* A block has exactly one ancestor at each height up to its own.
AncestorsWellDefined ==
    \A b \in minted : \A i \in 0 .. height[b] :
        /\ AncestorAt(b, i) \in anc[b] /\ height[AncestorAt(b, i)] = i
        /\ \A a \in anc[b] : height[a] = i => a = AncestorAt(b, i)

\* Some replica has executed furthest, and it does not matter which one is named.
HighestWellDefined ==
    /\ \E q \in Replicas : \A s \in Replicas : height[b_exec[s]] <= height[b_exec[q]]
    /\ \A q \in Replicas : (\A s \in Replicas : height[b_exec[s]] <= height[b_exec[q]])
                              => HighestExec = b_exec[q]
    /\ \A q, s \in Replicas : height[b_exec[s]] <= height[b_exec[q]]
                              => b_exec[s] \in anc[b_exec[q]]
    /\ \A b : b = HighestExec => ChainOf(HighestExec) = ChainOf(b)

\* A chain is a sequence of blocks as long as its last block is high.
ChainsWellDefined ==
    \A b \in minted :
        /\ ChainOf(b) \in Seq(Blocks) /\ Len(ChainOf(b)) = height[b]
        /\ height[b] \in Nat
        /\ \A i \in 1 .. height[b] : ChainOf(b)[i] = AncestorAt(b, i)

-----------------------------------------------------------------------------
\* A block of each height up to its own lies below a block.
LEMMA AncestorExists ==
  ASSUME IInv, NEW b \in minted, NEW i \in 0 .. height[b]
  PROVE  \E a \in anc[b] : height[a] = i
<1> DEFINE Bad == {e \in minted : i <= height[e] /\ ~\E a \in anc[e] : height[a] = i}
<1> SUFFICES ASSUME Bad # {} PROVE FALSE
  OBVIOUS
<1>1. \A e \in minted : height[e] \in Nat
  BY HeightAssumption DEF IInv, BaseInv, TypeOK
<1>2. PICK e \in Bad : \A f \in Bad : height[e] <= height[f]
  <2>1. {height[f] : f \in Bad} \in SUBSET Nat /\ {height[f] : f \in Bad} # {}
    BY <1>1
  <2>2. PICK h \in {height[f] : f \in Bad} : \A k \in {height[f] : f \in Bad} : h <= k
    BY <2>1, LeastNat
  <2> QED BY <2>2
<1>3. e \in anc[e] /\ height[e] # i /\ i \in Nat
  BY DEF IInv, BaseInv, TreeInv
<1>4. e # Genesis
  BY <1>3 DEF IInv, BaseInv, TreeInv
<1>5. parent[e] \in minted /\ height[e] = height[parent[e]] + 1 /\ anc[parent[e]] \subseteq anc[e]
  BY <1>4 DEF IInv, BaseInv, TreeInv
<1>6. i <= height[parent[e]] /\ height[parent[e]] < height[e]
  BY <1>1, <1>3, <1>5
<1>7. parent[e] \notin Bad
  BY <1>1, <1>2, <1>5, <1>6
<1> QED BY <1>5, <1>6, <1>7

\* AncestorAt names the one ancestor of a block at a height.
LEMMA AncestorsOK == IInv => AncestorsWellDefined
<1> SUFFICES ASSUME IInv, NEW b \in minted, NEW i \in 0 .. height[b]
             PROVE  /\ AncestorAt(b, i) \in anc[b] /\ height[AncestorAt(b, i)] = i
                    /\ \A a \in anc[b] : height[a] = i => a = AncestorAt(b, i)
  BY DEF AncestorsWellDefined
<1>1. \E a \in anc[b] : height[a] = i
  BY AncestorExists
<1>2. AncestorAt(b, i) \in anc[b] /\ height[AncestorAt(b, i)] = i
  BY <1>1 DEF AncestorAt
<1>3. \A a, c \in anc[b] : height[a] = height[c] => a = c
  <2> SUFFICES ASSUME NEW a \in anc[b], NEW c \in anc[b], height[a] = height[c] PROVE a = c
    OBVIOUS
  <2>1. a \in minted /\ c \in minted /\ height[a] \in Int /\ height[c] \in Int
    BY HeightAssumption DEF IInv, BaseInv, TypeOK, TreeInv
  <2>2. a \in anc[c]
    BY <2>1 DEF IInv, BaseInv, TreeInv
  <2> QED BY <2>1, <2>2 DEF IInv, BaseInv, TreeInv
<1> QED BY <1>2, <1>3

\* All executed blocks lie on one chain, so the highest of them is unique.
LEMMA HighestOK == IInv => HighestWellDefined
<1> SUFFICES ASSUME IInv PROVE HighestWellDefined
  OBVIOUS
<1>1. \A s \in Replicas : b_exec[s] \in minted /\ height[b_exec[s]] \in 0 .. MaxHeight
  BY DEF IInv, BaseInv, TypeOK, PointerInv
<1>2. \A q, s \in Replicas : height[b_exec[s]] <= height[b_exec[q]]
                              => b_exec[s] \in anc[b_exec[q]]
  BY ExecutedOnOneChain DEF IInv
<1>3. \E q \in Replicas : \A s \in Replicas : height[b_exec[s]] <= height[b_exec[q]]
  <2> DEFINE gap(s) == MaxHeight - height[b_exec[s]]
  <2>1. {gap(s) : s \in Replicas} \in SUBSET Nat /\ {gap(s) : s \in Replicas} # {}
    BY <1>1, ReplicasAssumption, HeightAssumption
  <2>2. PICK g \in {gap(s) : s \in Replicas} : \A k \in {gap(s) : s \in Replicas} : g <= k
    BY <2>1, LeastNat
  <2>3. PICK q \in Replicas : g = gap(q)
    BY <2>2
  <2>4. \A s \in Replicas : gap(q) <= gap(s)
    BY <2>2, <2>3
  <2> QED BY <1>1, <2>4, HeightAssumption
<1>4. ASSUME NEW q \in Replicas, \A s \in Replicas : height[b_exec[s]] <= height[b_exec[q]]
      PROVE  HighestExec = b_exec[q]
  <2>1. /\ HighestExec \in {b_exec[r] : r \in Replicas}
        /\ \A s \in Replicas : height[b_exec[s]] <= height[HighestExec]
    BY <1>4 DEF HighestExec
  <2>2. PICK t \in Replicas : HighestExec = b_exec[t]
    BY <2>1
  <2>3. height[b_exec[t]] = height[b_exec[q]]
    BY <1>1, <1>4, <2>1, <2>2
  <2>4. b_exec[t] \in anc[b_exec[q]]
    BY <1>1, <1>2, <2>3
  <2> QED BY <1>1, <2>2, <2>3, <2>4 DEF IInv, BaseInv, TreeInv
<1>5. \A b : b = HighestExec => ChainOf(HighestExec) = ChainOf(b)
  OBVIOUS
<1> QED BY <1>2, <1>3, <1>4, <1>5 DEF HighestWellDefined

\* The chain of a block lists its ancestors by height.
LEMMA ChainsOK == IInv => ChainsWellDefined
<1> SUFFICES ASSUME IInv, NEW b \in minted
             PROVE  /\ ChainOf(b) \in Seq(Blocks) /\ Len(ChainOf(b)) = height[b]
                    /\ height[b] \in Nat
                    /\ \A i \in 1 .. height[b] : ChainOf(b)[i] = AncestorAt(b, i)
  BY DEF ChainsWellDefined
<1>1. height[b] \in Nat /\ minted \subseteq Blocks
  BY HeightAssumption DEF IInv, BaseInv, TypeOK
<1>2. \A i \in 1 .. height[b] : AncestorAt(b, i) \in Blocks
  BY <1>1, AncestorsOK DEF AncestorsWellDefined, IInv, BaseInv, TreeInv
<1>3. ChainOf(b) \in [1 .. height[b] -> Blocks]
  BY <1>2 DEF ChainOf
<1>4. ChainOf(b) \in Seq(Blocks) /\ Len(ChainOf(b)) = height[b]
  BY <1>1, <1>3
<1> QED BY <1>1, <1>4 DEF ChainOf

\* What every state of the core guarantees to the ledger.
LedgerInv ==
    IInv /\ AncestorsWellDefined /\ HighestWellDefined /\ ChainsWellDefined

\* In every reachable state the mapping to the ledger is well defined.
LEMMA LedgerInvariant == Spec => []LedgerInv
<1>1. IInv => LedgerInv
  BY AncestorsOK, HighestOK, ChainsOK DEF LedgerInv
<1> QED BY <1>1, Invariant, PTL

-----------------------------------------------------------------------------
\* What is left of a step when only executed chains are looked at: minted blocks
\* keep their place, and at most one replica executes, extending its chain.
LEMMA StepOnChains ==
  ASSUME IInv, Next
  PROVE  /\ \A b \in minted : b \in minted' /\ height'[b] = height[b] /\ anc'[b] = anc[b]
         /\ \E r \in Replicas : \A s \in Replicas \ {r} : b_exec'[s] = b_exec[s]
<1>1. CASE \E r \in Replicas, n \in Blocks : do_propose(r, n)
  <2>1. PICK r \in Replicas, n \in Blocks : do_propose(r, n)
    BY <1>1
  <2>2. \A b \in minted : b \in minted' /\ height'[b] = height[b] /\ anc'[b] = anc[b]
    BY <2>1 DEF do_propose, fresh, mint_block, IInv, BaseInv, TypeOK
  <2> QED BY <2>1, <2>2 DEF do_propose, execVars
<1>2. CASE \E r \in Replicas, b \in Blocks : do_propose_same_header(r, b)
  BY <1>2 DEF do_propose_same_header, blockVars, execVars
<1>3. CASE \E r \in Replicas : \E m \in proposals : on_receive_proposal(r, m[1], m[2])
  <2>1. PICK r \in Replicas, m \in proposals : on_receive_proposal(r, m[1], m[2])
    BY <1>3
  <2>2. m[1] \in minted /\ update(r, m[1]) /\ UNCHANGED <<minted, height, anc>>
    BY <2>1 DEF on_receive_proposal, blockVars, IInv, BaseInv, PointerInv
  <2>3. \A s \in Replicas \ {r} : b_exec'[s] = b_exec[s]
    BY <2>2, UpdateExec DEF IInv
  <2> QED BY <2>2, <2>3
<1>4. CASE \E m \in votes : on_receive_vote(m[3], m[1], m[2])
  <2>1. UNCHANGED <<b_exec, minted, height, anc>>
    BY <1>4 DEF on_receive_vote, blockVars, execVars
  <2> QED BY <2>1, ReplicasAssumption
<1> QED BY <1>1, <1>2, <1>3, <1>4 DEF Next

\* The chain of a block never changes once it is minted, and is a prefix of the
\* chain of each of its descendants.
LEMMA ChainsArePrefixes ==
  ASSUME LedgerInv, LedgerInv',
         \A b \in minted : b \in minted' /\ height'[b] = height[b] /\ anc'[b] = anc[b],
         NEW a \in minted, NEW b \in minted', a \in anc'[b]
  PROVE  \A i \in 1 .. height[a] : ChainOf(b)'[i] = ChainOf(a)[i]
<1> SUFFICES ASSUME NEW i \in 1 .. height[a]
             PROVE  ChainOf(b)'[i] = ChainOf(a)[i]
  OBVIOUS
<1>1. height[a] \in Nat /\ height'[b] \in Nat /\ height'[a] = height[a]
  BY DEF LedgerInv, ChainsWellDefined
<1>2. height'[a] <= height'[b] /\ anc'[a] \subseteq anc'[b]
  BY <1>1 DEF LedgerInv, IInv, BaseInv, TreeInv
<1>3. i \in 0 .. height[a] /\ i \in 0 .. height'[b] /\ i \in 1 .. height'[b]
  BY <1>1, <1>2
<1>4. AncestorAt(a, i) \in anc[a] /\ height[AncestorAt(a, i)] = i
  BY <1>3 DEF LedgerInv, AncestorsWellDefined
<1>5. AncestorAt(a, i) \in minted
  BY <1>4 DEF LedgerInv, IInv, BaseInv, TreeInv
<1>6. AncestorAt(a, i) \in anc'[b] /\ height'[AncestorAt(a, i)] = i
  BY <1>2, <1>4, <1>5
<1>7. \A c \in anc'[b] : height'[c] = i => c = AncestorAt(b, i)'
  BY <1>3 DEF LedgerInv, AncestorsWellDefined
<1>8. AncestorAt(a, i) = AncestorAt(b, i)'
  BY <1>6, <1>7
<1>9. ChainOf(a)[i] = AncestorAt(a, i) /\ ChainOf(b)'[i] = AncestorAt(b, i)'
  BY <1>3 DEF LedgerInv, ChainsWellDefined
<1> QED BY <1>8, <1>9

(***************************************************************************)
(* Initial states and steps map to those of the ledger.                    *)
(***************************************************************************)
\* The core starts where the ledger starts.
LEMMA InitRefines ==
  ASSUME Init, LedgerInv
  PROVE  Ledger!LedgerInit
<1>1. \A r \in Replicas : b_exec[r] = Genesis /\ height[b_exec[r]] = 0
  BY DEF Init, Blocks
<1>2. HighestExec = Genesis
  BY <1>1, ReplicasAssumption DEF LedgerInv, HighestWellDefined
<1>3. ChainOf(Genesis) \in Seq(Blocks) /\ Len(ChainOf(Genesis)) = 0
  BY DEF LedgerInv, ChainsWellDefined, Init, Blocks
<1>4. ChainOf(Genesis) = << >>
  BY <1>3, EmptySeq
<1> QED BY <1>1, <1>2, <1>4 DEF Ledger!LedgerInit

\* Every step of the core is a commit of the ledger or leaves it alone.
LEMMA StepRefines ==
  ASSUME LedgerInv, LedgerInv', Next
  PROVE  Ledger!LedgerNext \/ UNCHANGED Ledger!ledgerVars
<1>1. /\ \A b \in minted : b \in minted' /\ height'[b] = height[b] /\ anc'[b] = anc[b]
      /\ \E r \in Replicas : \A s \in Replicas \ {r} : b_exec'[s] = b_exec[s]
  BY StepOnChains DEF LedgerInv
<1>2. PICK r \in Replicas : \A s \in Replicas \ {r} : b_exec'[s] = b_exec[s]
  BY <1>1
<1>3. \A s \in Replicas : /\ b_exec[s] \in minted /\ b_exec'[s] \in minted'
                          /\ height[b_exec[s]] \in Nat /\ height'[b_exec'[s]] \in Nat
                          /\ height'[b_exec[s]] = height[b_exec[s]]
                          /\ b_exec[s] \in anc'[b_exec[s]]
  BY <1>1 DEF LedgerInv, IInv, BaseInv, PointerInv, ChainsWellDefined, TreeInv
<1>4. b_exec[r] \in anc'[b_exec'[r]]
  BY StepExtends DEF LedgerInv, IInv
<1>5. PICK q \in Replicas : \A s \in Replicas : height[b_exec[s]] <= height[b_exec[q]]
  BY DEF LedgerInv, HighestWellDefined
<1>6. PICK t \in minted : t = b_exec[q]
  BY <1>3
<1>7. /\ HighestExec = t /\ ChainOf(HighestExec) = ChainOf(t)
      /\ height[t] \in Nat /\ t \in minted' /\ t \in anc'[t] /\ height'[t] = height[t]
  BY <1>1, <1>3, <1>5, <1>6 DEF LedgerInv, HighestWellDefined
<1>8. /\ ChainOf(t) \in Seq(Blocks) /\ Len(ChainOf(t)) = height[t]
      /\ ChainOf(t)' \in Seq(Blocks) /\ Len(ChainOf(t)') = height[t]
  BY <1>7 DEF LedgerInv, ChainsWellDefined
<1>9. ChainOf(t)' = ChainOf(t)
  <2>1. \A i \in 1 .. height[t] : ChainOf(t)'[i] = ChainOf(t)[i]
    BY <1>1, <1>7, ChainsArePrefixes
  <2> QED BY <1>8, <2>1, SeqEqual
<1> DEFINE ex == [s \in Replicas |-> height[b_exec[s]]]
           log == ChainOf(HighestExec)
<1>10. \A b : b = HighestExec' => log' = ChainOf(b)'
  BY DEF LedgerInv, HighestWellDefined
<1>11. CASE b_exec'[r] = b_exec[r]
  <2>1. \A s \in Replicas : b_exec'[s] = b_exec[s] /\ height'[b_exec'[s]] = height[b_exec[s]]
    BY <1>2, <1>3, <1>11
  <2>2. HighestExec' = t
    BY <1>5, <1>6, <2>1 DEF LedgerInv, HighestWellDefined
  <2>3. log' = log
    <3> HIDE DEF log
    <3>1. log' = ChainOf(t)'
      BY <1>10, <2>2
    <3> QED BY <1>7, <1>9, <3>1 DEF log
  <2>4. ex' = ex
    BY <2>1
  <2> QED BY <2>3, <2>4 DEF Ledger!ledgerVars
<1>12. CASE b_exec'[r] # b_exec[r]
  <2>1. PICK u \in minted' : u = b_exec'[r]
    BY <1>3
  <2>2. PICK k \in Nat : k = height'[u]
    BY <1>3, <2>1
  <2>3. k > height[b_exec[r]]
    BY <1>3, <1>4, <1>12, <2>1, <2>2 DEF LedgerInv, IInv, BaseInv, TreeInv
  <2>4. \A s \in Replicas \ {r} : height'[b_exec'[s]] = height[b_exec[s]]
    BY <1>2, <1>3
  <2>5. ex' = [ex EXCEPT ![r] = k] /\ ex[r] = height[b_exec[r]]
    BY <2>1, <2>2, <2>4
  <2>6. SUFFICES /\ log' \in Seq(Blocks)
                 /\ Len(log') = IF k > Len(log) THEN k ELSE Len(log)
                 /\ \A i \in 1 .. Len(log) : log'[i] = log[i]
    <3>1. k \in 1 .. Len(log') /\ k > ex[r]
      <4> HIDE DEF log, ex
      <4>1. Len(log) = height[t]
        BY <1>7, <1>8 DEF log
      <4> QED BY <1>3, <1>7, <2>3, <2>5, <2>6, <4>1
    <3> QED BY <2>5, <2>6, <3>1 DEF Ledger!LedgerNext, Ledger!Execute, Ledger!ReachesTo
  <2> HIDE DEF ex, log
  <2>7. log = ChainOf(t)
    BY <1>7 DEF log
  <2>8. CASE k > height[t]
    <3>1. \A s \in Replicas : height'[b_exec'[s]] <= height'[b_exec'[r]]
      BY <1>3, <1>5, <1>6, <1>7, <2>1, <2>2, <2>4, <2>8
    <3>2. HighestExec' = u
      BY <2>1, <3>1 DEF LedgerInv, HighestWellDefined
    <3>3. t \in anc'[u]
      <4>1. CASE q = r
        BY <1>4, <1>6, <2>1, <4>1
      <4>2. CASE q # r
        BY <1>2, <1>6, <2>1, <3>1, <4>2 DEF LedgerInv, HighestWellDefined
      <4> QED BY <4>1, <4>2
    <3>4. \A i \in 1 .. height[t] : ChainOf(u)'[i] = ChainOf(t)[i]
      BY <1>1, <1>7, <3>3, ChainsArePrefixes
    <3>5. ChainOf(u)' \in Seq(Blocks) /\ Len(ChainOf(u)') = k
      BY <2>2 DEF LedgerInv, ChainsWellDefined
    <3>6. log' = ChainOf(u)'
      BY <1>10, <3>2
    <3> QED BY <1>7, <1>8, <2>7, <2>8, <3>4, <3>5, <3>6
  <2>9. CASE ~(k > height[t])
    <3>1. q # r
      BY <1>3, <1>6, <1>7, <2>3, <2>9
    <3>2. b_exec'[q] = t
      BY <1>2, <1>6, <3>1
    <3>3. \A s \in Replicas : height'[b_exec'[s]] <= height'[b_exec'[q]]
      BY <1>3, <1>5, <1>6, <1>7, <2>1, <2>2, <2>4, <2>9, <3>2
    <3>4. HighestExec' = t
      BY <3>2, <3>3 DEF LedgerInv, HighestWellDefined
    <3>5. log' = log
      BY <1>9, <1>10, <2>7, <3>4
    <3> QED BY <1>7, <1>8, <2>7, <2>9, <3>5
  <2> QED BY <2>8, <2>9
<1> QED BY <1>11, <1>12

\* The replicas implement one append-only ledger: this is the promise of
\* do_propose to its callers, with every behaviour of the core allowed.
THEOREM ImplementsLedger == Spec => RefinesLedger
<1>1. Init /\ LedgerInv => Ledger!LedgerInit
  BY InitRefines
<1>2. LedgerInv /\ LedgerInv' /\ [Next]_vars => [Ledger!LedgerNext]_(Ledger!ledgerVars)
  <2> SUFFICES ASSUME LedgerInv, LedgerInv', [Next]_vars
               PROVE  Ledger!LedgerNext \/ UNCHANGED Ledger!ledgerVars
    OBVIOUS
  <2>1. CASE Next
    BY <2>1, StepRefines
  <2>2. CASE UNCHANGED vars
    <3>1. UNCHANGED <<anc, height, b_exec>>
      BY <2>2 DEF vars, blockVars, execVars
    <3>2. UNCHANGED HighestExec
      BY <3>1 DEF HighestExec
    <3>3. UNCHANGED ChainOf(HighestExec)
      BY <3>1, <3>2 DEF ChainOf, AncestorAt
    <3> QED BY <3>1, <3>3 DEF Ledger!ledgerVars
  <2> QED BY <2>1, <2>2
<1> QED BY <1>1, <1>2, LedgerInvariant, PTL DEF Spec, RefinesLedger, Ledger!LedgerSpec
=============================================================================
