--------------------------- MODULE VMBridge_proofs ---------------------------
(***************************************************************************)
(* The bridge never throws, whoever leads; and while one leader proposes   *)
(* and waits for its certificates, what the state machine has counted is   *)
(* what the ledger, the speculated blocks and the buffer hold: for every   *)
(* buffer size, any number of proposals and any foreign blocks.            *)
(***************************************************************************)
EXTENDS VMBridge, SequenceTheorems, FiniteSetTheorems, TLAPS

TypeOK ==
    /\ setup \in Setups
    /\ chain \in Seq([id : Nat, mine : BOOLEAN, direct : BOOLEAN])
    /\ hqc \in 0 .. Len(chain)
    /\ {applied, proposed, foreigners, committed, spec_head, requests, target,
        vm_state, last_committed} \subseteq Nat
    /\ height_map \in Seq(Nat \X Nat)
    /\ validate \in Seq(Nat) /\ buffer \in Seq(Nat)
    /\ is_proposer \in BOOLEAN /\ committed_id \in Nat \union {NoId}
    /\ driver \in {"idle", "wait"} /\ event \in {"idle", "notify", "clear"}
    /\ spec_owner \in {"none", "driver", "event"}

\* The gadget's list goes on where the commits stop, without a gap, and holds a
\* pair while a commit is under way.
GapInv ==
    /\ committed = applied
    /\ spec_head = committed + Len(height_map) + 1
    /\ \A i \in 1 .. Len(height_map) : height_map[i][1] = committed + i
    /\ event = "notify" => height_map # << >>

\* Proposals are asked for in proposer mode only.  The mode is not left while the
\* driver waits, because the driver holds the gadget's mutex.
RequestInv ==
    /\ requests > 0 => is_proposer
    /\ driver = "wait" => is_proposer /\ spec_owner = "driver"

\* One leader that waits is never ahead of its certificates by more than a block,
\* and not while it waits for the state machine: its branch is never cut.  Every
\* block of the branch is committed or speculated on, so none is ever submitted
\* for execution.
BranchInv ==
    /\ Len(chain) <= hqc + 1 /\ (driver = "wait" => hqc = Len(chain))
    /\ committed + Len(height_map) = Len(chain)
    /\ \A i \in 1 .. Len(height_map) : chain[committed + i].id = height_map[i][2]
    /\ validate = << >>

ChainIds == [i \in 1 .. Len(chain) |-> chain[i].id]

\* The buffer holds the last numbers the state machine gave out, in order, and the
\* branch the ones before them.
NumbersInv ==
    /\ \A i \in 1 .. Len(buffer) : buffer[i] = vm_state - Len(buffer) + i
    /\ \A i \in 1 .. Len(chain) : chain[i].id <= vm_state - Len(buffer)
    /\ \A i, j \in 1 .. Len(chain) :
         i < j /\ chain[i].id # Empty /\ chain[j].id # Empty => chain[i].id < chain[j].id
    /\ Bodies(ChainIds) = vm_state - Len(buffer)

IInv ==
    /\ TypeOK /\ GapInv /\ RequestInv /\ NeverThrows
    /\ SoleLeader => BranchInv /\ NumbersInv

-----------------------------------------------------------------------------
(***************************************************************************)
(* Counting bodies.                                                        *)
(***************************************************************************)

\* The number of blocks with a body is a number.
LEMMA BodiesType ==
  ASSUME NEW s \in Seq(Nat)
  PROVE  IsFiniteSet({i \in DOMAIN s : s[i] # Empty}) /\ Bodies(s) \in Nat
<1> DEFINE P == {i \in DOMAIN s : s[i] # Empty}
<1>1. DOMAIN s = 1 .. Len(s) /\ Len(s) \in Nat
  OBVIOUS
<1>2. IsFiniteSet(1 .. Len(s)) /\ P \in SUBSET (1 .. Len(s))
  BY <1>1, FS_Interval
<1>3. IsFiniteSet(P)
  BY <1>2, FS_Subset
<1> QED BY <1>3, FS_CardinalityType DEF Bodies

\* Bodies add up over a concatenation.
LEMMA BodiesConcat ==
  ASSUME NEW s \in Seq(Nat), NEW t \in Seq(Nat)
  PROVE  Bodies(s \o t) = Bodies(s) + Bodies(t)
<1> DEFINE P == {i \in DOMAIN s : s[i] # Empty}
           Q == {i \in DOMAIN t : t[i] # Empty}
           R == {i \in DOMAIN (s \o t) : (s \o t)[i] # Empty}
           T == {i \in R : i > Len(s)}
           f == [i \in Q |-> i + Len(s)]
<1>1. /\ Len(s) \in Nat /\ Len(t) \in Nat /\ DOMAIN s = 1 .. Len(s) /\ DOMAIN t = 1 .. Len(t)
      /\ DOMAIN (s \o t) = 1 .. Len(s) + Len(t)
      /\ \A i \in 1 .. Len(s) : (s \o t)[i] = s[i]
      /\ \A i \in 1 .. Len(t) : (s \o t)[i + Len(s)] = t[i]
  OBVIOUS
<1>2. IsFiniteSet(P) /\ IsFiniteSet(Q)
  BY BodiesType
<1>3. ASSUME NEW i \in T PROVE i - Len(s) \in Q /\ i = (i - Len(s)) + Len(s)
  <2>1. i \in 1 .. Len(s) + Len(t) /\ i > Len(s) /\ (s \o t)[i] # Empty
    BY <1>1
  <2>2. i - Len(s) \in 1 .. Len(t) /\ i = (i - Len(s)) + Len(s)
    BY <1>1, <2>1
  <2>3. t[i - Len(s)] = (s \o t)[(i - Len(s)) + Len(s)]
    BY <1>1, <2>2
  <2> QED BY <1>1, <2>1, <2>2, <2>3
<1>4. ASSUME NEW i \in Q PROVE i + Len(s) \in T
  <2>1. i \in 1 .. Len(t) /\ t[i] # Empty
    BY <1>1
  <2>2. i + Len(s) \in 1 .. Len(s) + Len(t) /\ i + Len(s) > Len(s)
    BY <1>1, <2>1
  <2> QED BY <1>1, <2>1, <2>2
<1>5. f \in Bijection(Q, T)
  <2>1. f \in [Q -> T]
    BY <1>4
  <2>2. \A i, j \in Q : f[i] = f[j] => i = j
    BY <1>1
  <2>3. \A x \in T : \E i \in Q : f[i] = x
    BY <1>3
  <2> QED BY <2>1, <2>2, <2>3 DEF Bijection, Injection, Surjection, IsInjective
<1>6. ExistsBijection(Q, T)
  BY <1>5 DEF ExistsBijection
<1>7. IsFiniteSet(T) /\ Cardinality(T) = Cardinality(Q)
  BY <1>2, <1>6, FS_Bijection
<1>8. R = P \union T
  <2>1. ASSUME NEW i \in R PROVE i \in P \union T
    BY <1>1, <2>1
  <2>2. ASSUME NEW i \in P PROVE i \in R
    BY <1>1, <2>2
  <2> QED BY <2>1, <2>2
<1>9. P \cap T = {}
  BY <1>1
<1>10. Cardinality(R) = Cardinality(P) + Cardinality(T) - Cardinality(P \cap T)
  BY <1>2, <1>7, <1>8, FS_Union
<1>11. Cardinality(P \cap T) = 0 /\ Cardinality(P) \in Nat /\ Cardinality(Q) \in Nat
  BY <1>2, <1>9, FS_EmptySet, FS_CardinalityType
<1>12. /\ Bodies(s \o t) = Cardinality(R)
       /\ Bodies(s) = Cardinality(P) /\ Bodies(t) = Cardinality(Q)
  BY DEF Bodies
<1> HIDE DEF P, Q, R, T
<1> QED BY <1>7, <1>10, <1>11, <1>12

\* One more block is one more body, unless it is empty.
LEMMA BodiesAppend ==
  ASSUME NEW s \in Seq(Nat), NEW x \in Nat
  PROVE  /\ x = Empty => Bodies(Append(s, x)) = Bodies(s)
         /\ x # Empty => Bodies(Append(s, x)) = Bodies(s) + 1
<1>1. <<x>> \in Seq(Nat) /\ Append(s, x) = s \o <<x>> /\ DOMAIN <<x>> = {1} /\ <<x>>[1] = x
  OBVIOUS
<1>2. Bodies(Append(s, x)) = Bodies(s) + Bodies(<<x>>) /\ Bodies(s) \in Nat
  BY <1>1, BodiesConcat, BodiesType
<1>3. CASE x = Empty
  <2>1. {i \in DOMAIN <<x>> : <<x>>[i] # Empty} = {}
    BY <1>1, <1>3
  <2>2. Bodies(<<x>>) = 0
    BY <2>1, FS_EmptySet DEF Bodies
  <2> QED BY <1>2, <1>3, <2>2
<1>4. CASE x # Empty
  <2>1. {i \in DOMAIN <<x>> : <<x>>[i] # Empty} = {1}
    BY <1>1, <1>4
  <2>2. Bodies(<<x>>) = 1
    BY <2>1, FS_Singleton DEF Bodies
  <2> QED BY <1>2, <1>4, <2>2
<1> QED BY <1>3, <1>4

\* No blocks, no bodies.
LEMMA BodiesEmpty == Bodies(<< >>) = 0
<1>1. {i \in DOMAIN << >> : << >>[i] # Empty} = {}
  OBVIOUS
<1> QED BY <1>1, FS_EmptySet DEF Bodies

-----------------------------------------------------------------------------
(***************************************************************************)
(* A new block on the branch, and its pair in the gadget.                  *)
(***************************************************************************)

\* mint puts one block on top of the branch.
LEMMA MintChain ==
  ASSUME TypeOK, NEW x \in Nat, mint(x)
  PROVE  /\ chain' \in Seq([id : Nat, mine : BOOLEAN, direct : BOOLEAN])
         /\ Len(chain') = Len(chain) + 1 /\ Len(chain) \in Nat
         /\ \A i \in 1 .. Len(chain) : chain'[i] = chain[i] /\ chain[i].id \in Nat
         /\ chain'[Len(chain) + 1].id = x
         /\ hqc' = hqc /\ hqc' \in 0 .. Len(chain') /\ proposed' \in Nat
         /\ UNCHANGED <<setup, applied, foreigners>>
<1> DEFINE b == [id |-> x, mine |-> TRUE, direct |-> hqc = Len(chain)]
           S == [id : Nat, mine : BOOLEAN, direct : BOOLEAN]
<1>1. b \in S /\ b.id = x
  OBVIOUS
<1>2. chain \in Seq(S) /\ hqc \in 0 .. Len(chain) /\ proposed \in Nat
  BY DEF TypeOK
<1>3. \A i \in 1 .. Len(chain) : chain[i] \in S
  BY <1>2, ElementOfSeq
<1>4. \A c \in S : c.id \in Nat
  OBVIOUS
<1>5. /\ chain' = Append(chain, b) /\ proposed' = proposed + 1
      /\ UNCHANGED <<setup, hqc, applied, foreigners>>
  BY DEF mint
<1> HIDE DEF b, S
<1>6. /\ chain' \in Seq(S) /\ Len(chain') = Len(chain) + 1 /\ Len(chain) \in Nat
      /\ \A i \in 1 .. Len(chain) : chain'[i] = chain[i]
      /\ chain'[Len(chain) + 1] = b
  BY <1>1, <1>2, <1>5
<1> QED BY <1>1, <1>2, <1>3, <1>4, <1>5, <1>6 DEF S

\* add_height_pair keeps the list without a gap.
LEMMA AddPair ==
  ASSUME TypeOK, GapInv, NEW h \in Nat, NEW x \in Nat, add_height_pair(h, x),
         UNCHANGED <<committed, applied>>
  PROVE  /\ height_map' \in Seq(Nat \X Nat) /\ spec_head' \in Nat
         /\ Len(height_map) \in Nat
         /\ spec_head' = committed + Len(height_map') + 1
         /\ \A i \in 1 .. Len(height_map') : height_map'[i][1] = committed + i
         /\ height_map # << >> => height_map' # << >>
         /\ h = spec_head => /\ Len(height_map') = Len(height_map) + 1
                             /\ \A i \in 1 .. Len(height_map) : height_map'[i] = height_map[i]
                             /\ height_map'[Len(height_map) + 1][2] = x
                             /\ height_map' # << >>
<1>1. /\ height_map \in Seq(Nat \X Nat) /\ spec_head \in Nat /\ committed \in Nat
      /\ spec_head = committed + Len(height_map) + 1 /\ Len(height_map) \in Nat
      /\ \A i \in 1 .. Len(height_map) : height_map[i][1] = committed + i
  BY DEF TypeOK, GapInv
<1>2. CASE h = spec_head
  <2> DEFINE e == <<h, x>>
  <2>1. e \in Nat \X Nat /\ e[1] = h /\ e[2] = x
    OBVIOUS
  <2>2. spec_head' = spec_head + 1 /\ height_map' = Append(height_map, e)
    BY <1>2 DEF add_height_pair
  <2> HIDE DEF e
  <2>3. /\ height_map' \in Seq(Nat \X Nat) /\ Len(height_map') = Len(height_map) + 1
        /\ \A i \in 1 .. Len(height_map) : height_map'[i] = height_map[i]
        /\ height_map'[Len(height_map) + 1] = e
    BY <1>1, <2>1, <2>2
  <2>4. height_map' # << >>
    BY <1>1, <2>3
  <2>5. ASSUME NEW i \in 1 .. Len(height_map') PROVE height_map'[i][1] = committed + i
    <3>1. CASE i \in 1 .. Len(height_map)
      BY <1>1, <2>3, <3>1
    <3>2. CASE i = Len(height_map) + 1
      BY <1>1, <1>2, <2>1, <2>3, <3>2
    <3> QED BY <1>1, <2>3, <2>5, <3>1, <3>2
  <2>6. spec_head' \in Nat /\ spec_head' = committed + Len(height_map') + 1
    BY <1>1, <2>2, <2>3
  <2>7. height_map'[Len(height_map) + 1][2] = x
    BY <2>1, <2>3
  <2> QED BY <1>1, <2>3, <2>4, <2>5, <2>6, <2>7
<1>3. CASE h # spec_head
  <2>1. UNCHANGED <<spec_head, height_map>>
    BY <1>3 DEF add_height_pair
  <2> QED BY <1>1, <1>3, <2>1
<1> QED BY <1>2, <1>3

\* A leader that waits for its certificates speculates on each block it proposes.
LEMMA MintBranch ==
  ASSUME IInv, SoleLeader, NEW x \in Nat, hqc = Len(chain), driver' = "idle",
         mint(x), add_height_pair(Len(chain) + 1, x), UNCHANGED <<committed, validate>>
  PROVE  BranchInv'
<1>1. TypeOK /\ GapInv /\ BranchInv /\ committed \in Nat
  BY DEF IInv, TypeOK
<1>2. /\ Len(chain') = Len(chain) + 1 /\ Len(chain) \in Nat
      /\ \A i \in 1 .. Len(chain) : chain'[i] = chain[i]
      /\ chain'[Len(chain) + 1].id = x
      /\ hqc' = hqc /\ UNCHANGED applied
  BY <1>1, MintChain
<1>3. Len(chain) + 1 \in Nat /\ Len(chain) + 1 = spec_head /\ Len(height_map) \in Nat
  <2>1. height_map \in Seq(Nat \X Nat)
    BY <1>1 DEF TypeOK
  <2>2. Len(height_map) \in Nat
    BY <2>1, LenProperties
  <2>3. spec_head = committed + Len(height_map) + 1 /\ committed + Len(height_map) = Len(chain)
    BY <1>1 DEF GapInv, BranchInv
  <2> QED BY <1>1, <1>2, <2>2, <2>3
<1>4. /\ Len(height_map') = Len(height_map) + 1
      /\ \A i \in 1 .. Len(height_map) : height_map'[i] = height_map[i]
      /\ height_map'[Len(height_map) + 1][2] = x
  BY <1>1, <1>2, <1>3, AddPair
<1>5. committed + Len(height_map) = Len(chain)
  BY <1>1 DEF BranchInv
<1>6. ASSUME NEW i \in 1 .. Len(height_map')
      PROVE  chain'[committed + i].id = height_map'[i][2]
  <2>1. CASE i \in 1 .. Len(height_map)
    <3>1. chain[committed + i].id = height_map[i][2] /\ committed + i \in 1 .. Len(chain)
      BY <1>1, <1>3, <1>5, <2>1 DEF BranchInv
    <3> QED BY <1>2, <1>4, <2>1, <3>1
  <2>2. CASE i = Len(height_map) + 1
    <3>1. committed + i = Len(chain) + 1
      BY <1>1, <1>3, <1>5, <2>2
    <3> QED BY <1>2, <1>4, <2>2, <3>1
  <2> QED BY <1>3, <1>4, <1>6, <2>1, <2>2
<1>7. Len(chain') <= hqc' + 1 /\ committed' + Len(height_map') = Len(chain') /\ validate' = << >>
  BY <1>1, <1>2, <1>3, <1>4, <1>5 DEF BranchInv
<1> QED BY <1>6, <1>7 DEF BranchInv

\* The ids of the branch after one more block.
LEMMA MintIds ==
  ASSUME TypeOK, NEW x \in Nat, mint(x)
  PROVE  /\ ChainIds \in Seq(Nat) /\ ChainIds' = Append(ChainIds, x)
<1>1. /\ Len(chain') = Len(chain) + 1 /\ Len(chain) \in Nat
      /\ \A i \in 1 .. Len(chain) : chain'[i] = chain[i] /\ chain[i].id \in Nat
      /\ chain'[Len(chain) + 1].id = x
  BY MintChain
<1>2. ChainIds \in Seq(Nat) /\ Len(ChainIds) = Len(chain)
  BY <1>1 DEF ChainIds
<1>3. ChainIds' \in Seq(Nat) /\ Len(ChainIds') = Len(chain) + 1
  <2>1. \A i \in 1 .. Len(chain) + 1 : chain'[i].id \in Nat
    BY <1>1
  <2>2. ChainIds' = [i \in 1 .. Len(chain) + 1 |-> chain'[i].id]
    BY <1>1 DEF ChainIds
  <2> QED BY <1>1, <2>1, <2>2
<1>4. /\ Append(ChainIds, x) \in Seq(Nat) /\ Len(Append(ChainIds, x)) = Len(chain) + 1
      /\ \A i \in 1 .. Len(chain) : Append(ChainIds, x)[i] = ChainIds[i]
      /\ Append(ChainIds, x)[Len(chain) + 1] = x
  BY <1>1, <1>2
<1>5. ASSUME NEW i \in 1 .. Len(chain) + 1 PROVE ChainIds'[i] = Append(ChainIds, x)[i]
  <2>1. ChainIds'[i] = chain'[i].id
    BY <1>1 DEF ChainIds
  <2>2. CASE i \in 1 .. Len(chain)
    <3>1. ChainIds[i] = chain[i].id
      BY <2>2 DEF ChainIds
    <3> QED BY <1>1, <1>4, <2>1, <2>2, <3>1
  <2>3. CASE i = Len(chain) + 1
    BY <1>1, <1>4, <2>1, <2>3
  <2>4. i \in 1 .. Len(chain) \/ i = Len(chain) + 1
    BY <1>1
  <2> QED BY <2>2, <2>3, <2>4
<1> DEFINE u == ChainIds'
           v == Append(ChainIds, x)
<1>6. u \in Seq(Nat) /\ v \in Seq(Nat) /\ Len(u) = Len(v) /\ \A i \in 1 .. Len(u) : u[i] = v[i]
  BY <1>3, <1>4, <1>5
<1> HIDE DEF u, v
<1>7. u = v
  BY <1>6, SeqEqual
<1> QED BY <1>2, <1>7 DEF u, v

\* The ids of the branch keep numbering the bodies from one up to k, or to k + 1
\* when the new block has one.
LEMMA MintNumbers ==
  ASSUME TypeOK, NEW k \in Nat, NEW m \in Nat, NEW x \in Nat, mint(x),
         \A i \in 1 .. Len(chain) : chain[i].id <= k,
         \A i, j \in 1 .. Len(chain) :
           i < j /\ chain[i].id # Empty /\ chain[j].id # Empty => chain[i].id < chain[j].id,
         Bodies(ChainIds) = k,
         (x = Empty /\ m = k) \/ (x = k + 1 /\ m = k + 1)
  PROVE  /\ \A i \in 1 .. Len(chain') : chain'[i].id <= m
         /\ \A i, j \in 1 .. Len(chain') :
              i < j /\ chain'[i].id # Empty /\ chain'[j].id # Empty => chain'[i].id < chain'[j].id
         /\ Bodies(ChainIds') = m
<1>1. /\ Len(chain') = Len(chain) + 1 /\ Len(chain) \in Nat
      /\ \A i \in 1 .. Len(chain) : chain'[i] = chain[i] /\ chain[i].id \in Nat
      /\ chain'[Len(chain) + 1].id = x
  BY MintChain
<1>2. ASSUME NEW i \in 1 .. Len(chain') PROVE chain'[i].id <= m
  <2>1. CASE i \in 1 .. Len(chain)
    <3>1. chain'[i] = chain[i] /\ chain[i].id \in Nat /\ chain[i].id <= k
      BY <1>1, <2>1
    <3> QED BY <3>1
  <2>2. CASE i = Len(chain) + 1
    BY <1>1, <2>2 DEF Empty
  <2> QED BY <1>1, <1>2, <2>1, <2>2
<1>3. ASSUME NEW i \in 1 .. Len(chain'), NEW j \in 1 .. Len(chain'),
             i < j, chain'[i].id # Empty, chain'[j].id # Empty
      PROVE  chain'[i].id < chain'[j].id
  <2>1. i \in 1 .. Len(chain) /\ chain'[i] = chain[i] /\ chain[i].id \in Nat /\ chain[i].id <= k
    BY <1>1, <1>3
  <2>2. CASE j \in 1 .. Len(chain)
    <3>1. chain'[j] = chain[j]
      BY <1>1, <2>2
    <3> QED BY <1>3, <2>1, <2>2, <3>1
  <2>3. CASE j = Len(chain) + 1
    <3>1. chain'[j].id = k + 1
      BY <1>1, <1>3, <2>3
    <3> QED BY <2>1, <3>1
  <2>4. j \in 1 .. Len(chain) \/ j = Len(chain) + 1
    BY <1>1
  <2> QED BY <2>2, <2>3, <2>4
<1>4. Bodies(ChainIds') = m
  <2>1. ChainIds \in Seq(Nat) /\ ChainIds' = Append(ChainIds, x)
    BY MintIds
  <2> DEFINE s == ChainIds
  <2>2. s \in Seq(Nat) /\ Bodies(s) = k /\ Bodies(ChainIds') = Bodies(Append(s, x))
    BY <2>1
  <2> HIDE DEF s
  <2>3. /\ x = Empty => Bodies(Append(s, x)) = Bodies(s)
        /\ x # Empty => Bodies(Append(s, x)) = Bodies(s) + 1
    BY <2>2, BodiesAppend
  <2> QED BY <2>2, <2>3 DEF Empty
<1> QED BY <1>2, <1>3, <1>4

-----------------------------------------------------------------------------
(***************************************************************************)
(* The inductive invariant, action by action.                              *)
(***************************************************************************)

\* Initially nothing is proposed, certified or speculated on.
LEMMA InitInv == Init => IInv
<1> SUFFICES ASSUME Init PROVE IInv
  OBVIOUS
<1>1. /\ setup \in Setups /\ chain = << >> /\ hqc = 0 /\ applied = 0 /\ proposed = 0
      /\ foreigners = 0 /\ height_map = << >> /\ spec_head = 1 /\ committed = 0
      /\ validate = << >> /\ buffer = << >> /\ requests = 0 /\ is_proposer = FALSE
      /\ target = setup.bufferTarget /\ committed_id = NoId /\ vm_state = 0
      /\ last_committed = 0 /\ driver = "idle" /\ event = "idle" /\ spec_owner = "none"
      /\ thrown = {}
  BY DEF Init, GadgetInit, ControlInit, MachineInit
<1>2. target \in Nat
  BY <1>1, SetupsAssumption
<1>3. Len(chain) = 0 /\ Len(height_map) = 0 /\ Len(buffer) = 0
  BY <1>1
<1>4. TypeOK
  <2>1. chain \in Seq([id : Nat, mine : BOOLEAN, direct : BOOLEAN])
    BY <1>1, EmptySeq
  <2>2. height_map \in Seq(Nat \X Nat) /\ validate \in Seq(Nat) /\ buffer \in Seq(Nat)
    BY <1>1, EmptySeq
  <2>3. hqc \in 0 .. Len(chain)
    BY <1>1, <1>3
  <2>4. {applied, proposed, foreigners, committed, spec_head, requests, target,
         vm_state, last_committed} \subseteq Nat
    BY <1>1, <1>2
  <2>5. is_proposer \in BOOLEAN /\ committed_id \in Nat \union {NoId}
    BY <1>1
  <2>6. /\ setup \in Setups /\ driver \in {"idle", "wait"}
        /\ event \in {"idle", "notify", "clear"} /\ spec_owner \in {"none", "driver", "event"}
    BY <1>1
  <2> QED BY <2>1, <2>2, <2>3, <2>4, <2>5, <2>6 DEF TypeOK
<1>5. GapInv /\ RequestInv /\ NeverThrows /\ BranchInv
  BY <1>1, <1>3 DEF GapInv, RequestInv, NeverThrows, BranchInv
<1>6. ChainIds = << >>
  BY <1>3 DEF ChainIds
<1>7. Bodies(ChainIds) = 0
  BY <1>6, BodiesEmpty
<1>8. NumbersInv
  <2> DEFINE n == Len(buffer)
  <2>1. vm_state = 0 /\ n = 0
    BY <1>1, <1>3
  <2> HIDE DEF n
  <2>2. vm_state - n = 0
    BY <2>1
  <2>3. \A i \in 1 .. 0 : FALSE
    OBVIOUS
  <2> QED BY <1>3, <1>7, <2>2, <2>3 DEF NumbersInv, n
<1> QED BY <1>4, <1>5, <1>8 DEF IInv

\* The numbers are kept by a step that leaves the branch, the buffer and the
\* state machine alone.
LEMMA NumbersKept ==
  ASSUME NumbersInv, UNCHANGED <<chain, buffer, vm_state>>
  PROVE  NumbersInv'
<1>1. ChainIds' = ChainIds
  BY DEF ChainIds
<1>2. Bodies(ChainIds') = Bodies(ChainIds)
  BY <1>1
<1> QED BY <1>2 DEF NumbersInv

\* What every proposal does to the branch and the gadget's list.
LEMMA Proposing ==
  ASSUME IInv, NEW x \in Nat, mint(x), add_height_pair(Len(chain) + 1, x),
         UNCHANGED <<committed, validate, event>>, driver' = "idle",
         SoleLeader => hqc = Len(chain)
  PROVE  /\ setup' \in Setups
         /\ chain' \in Seq([id : Nat, mine : BOOLEAN, direct : BOOLEAN])
         /\ hqc' \in 0 .. Len(chain')
         /\ {applied', proposed', foreigners', committed', spec_head'} \subseteq Nat
         /\ height_map' \in Seq(Nat \X Nat) /\ validate' \in Seq(Nat)
         /\ GapInv'
         /\ SoleLeader' => SoleLeader /\ BranchInv'
<1>1. TypeOK /\ GapInv
  BY DEF IInv
<1>2. /\ chain' \in Seq([id : Nat, mine : BOOLEAN, direct : BOOLEAN])
      /\ hqc' \in 0 .. Len(chain') /\ proposed' \in Nat
      /\ UNCHANGED <<setup, applied, foreigners>> /\ Len(chain) + 1 \in Nat
  BY <1>1, MintChain
<1>3. /\ height_map' \in Seq(Nat \X Nat) /\ spec_head' \in Nat
      /\ spec_head' = committed + Len(height_map') + 1
      /\ \A i \in 1 .. Len(height_map') : height_map'[i][1] = committed + i
      /\ height_map # << >> => height_map' # << >>
  BY <1>1, <1>2, AddPair
<1>4. /\ setup \in Setups /\ applied \in Nat /\ foreigners \in Nat /\ committed \in Nat
      /\ validate \in Seq(Nat)
  BY <1>1 DEF TypeOK
<1>5. GapInv'
  BY <1>1, <1>2, <1>3 DEF GapInv
<1>6. SoleLeader' => SoleLeader
  BY <1>2 DEF SoleLeader
<1>7. SoleLeader => BranchInv'
  BY MintBranch
<1> QED BY <1>2, <1>3, <1>4, <1>5, <1>6, <1>7

\* An empty block.
LEMMA EmptyProposal ==
  ASSUME IInv, make_empty_proposal \/ get_no_proposal
  PROVE  IInv'
<1> DEFINE x == Empty
<1>1. /\ may_propose /\ add_height_pair(Len(chain) + 1, x) /\ mint(x)
      /\ UNCHANGED <<committed, controlVars, machineVars, threadVars>>
  BY DEF make_empty_proposal, get_no_proposal
<1>2. x \in Nat /\ x = Empty
  BY DEF Empty
<1> HIDE DEF x
<1>3. TypeOK /\ GapInv /\ RequestInv /\ NeverThrows
  BY DEF IInv
<1>4. /\ UNCHANGED <<committed, validate, event>> /\ driver' = "idle" /\ driver = "idle"
      /\ SoleLeader => hqc = Len(chain)
  BY <1>1 DEF may_propose, controlVars, threadVars, SoleLeader
<1>5. UNCHANGED <<validate, buffer, requests, is_proposer, target, committed_id, vm_state,
                  last_committed, driver, event, spec_owner, thrown>>
  BY <1>1 DEF controlVars, machineVars, threadVars
<1>6. /\ setup' \in Setups
      /\ chain' \in Seq([id : Nat, mine : BOOLEAN, direct : BOOLEAN])
      /\ hqc' \in 0 .. Len(chain')
      /\ {applied', proposed', foreigners', committed', spec_head'} \subseteq Nat
      /\ height_map' \in Seq(Nat \X Nat) /\ validate' \in Seq(Nat)
      /\ GapInv'
      /\ SoleLeader' => SoleLeader /\ BranchInv'
  BY <1>1, <1>2, <1>4, Proposing
<1>7. TypeOK'
  BY <1>3, <1>5, <1>6 DEF TypeOK
<1>8. RequestInv' /\ NeverThrows'
  BY <1>3, <1>5 DEF RequestInv, NeverThrows
<1>9. ASSUME SoleLeader PROVE NumbersInv'
  <2>1. NumbersInv
    BY <1>9 DEF IInv
  <2> DEFINE k == vm_state - Len(buffer)
  <2>2. /\ \A i \in 1 .. Len(chain) : chain[i].id <= k
        /\ \A i, j \in 1 .. Len(chain) :
             i < j /\ chain[i].id # Empty /\ chain[j].id # Empty => chain[i].id < chain[j].id
        /\ Bodies(ChainIds) = k
    BY <2>1 DEF NumbersInv
  <2>3. ChainIds \in Seq(Nat)
    BY <1>1, <1>2, <1>3, MintIds
  <2>4. Bodies(ChainIds) \in Nat
    BY <2>3, BodiesType
  <2>5. k \in Nat
    BY <2>2, <2>4
  <2>6. k' = k
    BY <1>5
  <2> HIDE DEF k
  <2>7. /\ \A i \in 1 .. Len(chain') : chain'[i].id <= k
        /\ \A i, j \in 1 .. Len(chain') :
             i < j /\ chain'[i].id # Empty /\ chain'[j].id # Empty => chain'[i].id < chain'[j].id
        /\ Bodies(ChainIds') = k
    BY <1>1, <1>2, <1>3, <2>2, <2>5, MintNumbers
  <2> QED BY <1>5, <2>1, <2>7 DEF NumbersInv, k
<1> QED BY <1>6, <1>7, <1>8, <1>9 DEF IInv

\* The next proposal of the buffer carries the next number.
LEMMA NextProposal ==
  ASSUME IInv, get_and_apply_next_proposal
  PROVE  IInv'
<1>1. TypeOK /\ GapInv /\ RequestInv /\ NeverThrows
  BY DEF IInv
<1> DEFINE x == next_proposal
<1>2. /\ (may_propose /\ is_proposer) \/ driver = "wait"
      /\ buffer # << >> /\ buffer' = Tail(buffer) /\ requests' = refill
      /\ add_height_pair(Len(chain) + 1, x) /\ mint(x)
      /\ driver' = "idle" /\ spec_owner' = "none"
      /\ UNCHANGED <<committed, validate, is_proposer, target, committed_id, vm_state,
                     last_committed, event, thrown>>
  BY DEF get_and_apply_next_proposal, machineVars
<1>3. /\ buffer \in Seq(Nat) /\ Len(buffer) \in Nat /\ Len(buffer) > 0 /\ x \in Nat
      /\ x = buffer[1] /\ buffer' \in Seq(Nat) /\ Len(buffer') = Len(buffer) - 1
      /\ \A i \in 1 .. Len(buffer') : buffer'[i] = buffer[i + 1]
  <2>1. buffer \in Seq(Nat)
    BY <1>1 DEF TypeOK
  <2>2. x = Head(buffer)
    BY DEF next_proposal
  <2> HIDE DEF x
  <2>3. Len(buffer) \in Nat /\ Len(buffer) > 0
    BY <1>2, <2>1
  <2>4. Head(buffer) \in Nat /\ Head(buffer) = buffer[1]
    BY <1>2, <2>1, HeadTailProperties
  <2> QED BY <1>2, <2>1, <2>2, <2>3, <2>4, HeadTailProperties
<1> HIDE DEF x
<1>4. is_proposer /\ (SoleLeader => hqc = Len(chain))
  BY <1>1, <1>2 DEF RequestInv, IInv, BranchInv, may_propose, SoleLeader
<1>5. /\ setup' \in Setups
      /\ chain' \in Seq([id : Nat, mine : BOOLEAN, direct : BOOLEAN])
      /\ hqc' \in 0 .. Len(chain')
      /\ {applied', proposed', foreigners', committed', spec_head'} \subseteq Nat
      /\ height_map' \in Seq(Nat \X Nat) /\ validate' \in Seq(Nat)
      /\ GapInv'
      /\ SoleLeader' => SoleLeader /\ BranchInv'
  BY <1>2, <1>3, <1>4, Proposing
<1>6. requests' \in Nat
  <2>1. target \in Nat /\ Len(Tail(buffer)) \in Nat
    BY <1>1, <1>2, <1>3 DEF TypeOK
  <2> QED BY <1>2, <2>1 DEF refill
<1>7. TypeOK'
  BY <1>1, <1>2, <1>3, <1>5, <1>6 DEF TypeOK
<1>8. RequestInv' /\ NeverThrows'
  BY <1>1, <1>2, <1>4 DEF RequestInv, NeverThrows
<1>9. ASSUME SoleLeader PROVE NumbersInv'
  <2>1. NumbersInv
    BY <1>9 DEF IInv
  <2> DEFINE k == vm_state - Len(buffer)
             m == k + 1
  <2>2. /\ \A i \in 1 .. Len(chain) : chain[i].id <= k
        /\ \A i, j \in 1 .. Len(chain) :
             i < j /\ chain[i].id # Empty /\ chain[j].id # Empty => chain[i].id < chain[j].id
        /\ Bodies(ChainIds) = k
    BY <2>1 DEF NumbersInv
  <2>3. ChainIds \in Seq(Nat)
    BY <1>1, <1>2, <1>3, MintIds
  <2>4. Bodies(ChainIds) \in Nat
    BY <2>3, BodiesType
  <2>5. k \in Nat /\ m \in Nat
    BY <2>2, <2>4
  <2>6. vm_state' - Len(buffer') = m
    <3>1. vm_state \in Nat
      BY <1>1 DEF TypeOK
    <3> QED BY <1>2, <1>3, <3>1
  <2>7. x = k + 1
    <3>1. 1 \in 1 .. Len(buffer)
      BY <1>3
    <3> QED BY <1>3, <2>1, <3>1 DEF NumbersInv
  <2>8. ASSUME NEW i \in 1 .. Len(buffer') PROVE buffer'[i] = vm_state' - Len(buffer') + i
    <3>1. i + 1 \in 1 .. Len(buffer)
      BY <1>3
    <3>2. buffer[i + 1] = k + (i + 1)
      BY <2>1, <3>1 DEF NumbersInv
    <3>3. buffer'[i] = k + (i + 1) /\ i \in Nat
      BY <1>3, <3>2
    <3> HIDE DEF k
    <3> QED BY <2>5, <2>6, <3>3
  <2> HIDE DEF k
  <2>9. (x = Empty /\ m = k) \/ (x = k + 1 /\ m = k + 1)
    BY <2>7
  <2> HIDE DEF m
  <2>10. /\ \A i \in 1 .. Len(chain') : chain'[i].id <= m
         /\ \A i, j \in 1 .. Len(chain') :
              i < j /\ chain'[i].id # Empty /\ chain'[j].id # Empty => chain'[i].id < chain'[j].id
         /\ Bodies(ChainIds') = m
    BY <1>1, <1>2, <1>3, <2>2, <2>5, <2>9, MintNumbers
  <2> QED BY <2>6, <2>8, <2>10 DEF NumbersInv
<1> QED BY <1>5, <1>7, <1>8, <1>9 DEF IInv

\* Waiting for the state machine, and the two switches of proposer mode.
LEMMA ProposerMode ==
  ASSUME IInv, wait_for_proposal \/ set_proposer \/ stop_proposals
  PROVE  IInv'
<1>1. TypeOK /\ GapInv /\ RequestInv /\ NeverThrows
  BY DEF IInv
<1>2. UNCHANGED <<setup, chain, hqc, applied, proposed, foreigners, height_map, spec_head,
                  committed, validate, buffer, committed_id, vm_state, last_committed,
                  event, thrown>>
  BY DEF wait_for_proposal, set_proposer, stop_proposals, consensusVars, gadgetVars,
         machineVars, threadVars
<1>3. /\ requests' \in Nat /\ target' \in Nat /\ is_proposer' \in BOOLEAN
      /\ driver' \in {"idle", "wait"} /\ spec_owner' \in {"none", "driver", "event"}
  <2>1. /\ requests \in Nat /\ target \in Nat /\ is_proposer \in BOOLEAN
        /\ driver \in {"idle", "wait"} /\ spec_owner \in {"none", "driver", "event"}
    BY <1>1 DEF TypeOK
  <2>2. CASE wait_for_proposal
    BY <2>1, <2>2 DEF wait_for_proposal
  <2>3. CASE set_proposer
    BY <2>1, <2>3 DEF set_proposer, threadVars
  <2>4. CASE stop_proposals
    BY <2>1, <2>4 DEF stop_proposals, threadVars
  <2> QED BY <2>2, <2>3, <2>4
<1>4. TypeOK'
  BY <1>1, <1>2, <1>3 DEF TypeOK
<1>5. GapInv' /\ NeverThrows'
  BY <1>1, <1>2 DEF GapInv, NeverThrows
<1>6. RequestInv'
  <2>1. CASE wait_for_proposal
    BY <1>1, <2>1 DEF RequestInv, wait_for_proposal
  <2>2. CASE set_proposer
    BY <1>1, <2>2 DEF RequestInv, set_proposer, threadVars
  <2>3. CASE stop_proposals
    BY <1>1, <2>3 DEF RequestInv, stop_proposals, threadVars
  <2> QED BY <2>1, <2>2, <2>3
<1>7. ASSUME SoleLeader' PROVE BranchInv' /\ NumbersInv'
  <2>1. SoleLeader /\ BranchInv /\ NumbersInv
    BY <1>2, <1>7 DEF SoleLeader, IInv
  <2>2. driver' = "wait" => hqc = Len(chain)
    BY <2>1 DEF BranchInv, wait_for_proposal, may_propose, SoleLeader, set_proposer,
                stop_proposals, threadVars
  <2>3. BranchInv'
    BY <1>2, <2>1, <2>2 DEF BranchInv
  <2> QED BY <1>2, <2>1, <2>3, NumbersKept
<1> QED BY <1>4, <1>5, <1>6, <1>7 DEF IInv

\* A certificate on the branch cuts off nothing of a leader that waits.
LEMMA CertificateOnLeaf ==
  ASSUME IInv, NEW k \in 1 .. Len(chain), qc_on_leaf(k)
  PROVE  IInv'
<1> DEFINE S == [id : Nat, mine : BOOLEAN, direct : BOOLEAN]
<1>1. TypeOK /\ GapInv /\ RequestInv /\ NeverThrows
  BY DEF IInv
<1>2. /\ k \in hqc + 1 .. Len(chain) /\ hqc' = k /\ chain' = SubSeq(chain, 1, k)
      /\ driver = "idle"
      /\ UNCHANGED <<setup, applied, proposed, foreigners, height_map, spec_head, committed,
                     validate, buffer, requests, is_proposer, target, committed_id, vm_state,
                     last_committed, driver, event, spec_owner, thrown>>
  BY DEF qc_on_leaf, gadgetVars, controlVars, machineVars, threadVars
<1>3. chain \in Seq(S) /\ hqc \in 0 .. Len(chain)
  BY <1>1 DEF TypeOK
<1> HIDE DEF S
<1>4. Len(chain) \in Nat /\ k \in Nat /\ \A i \in 1 .. Len(chain) : chain[i] \in S
  BY <1>3, ElementOfSeq, LenProperties
<1>5. chain' \in Seq(S) /\ Len(chain') = k /\ \A i \in 1 .. k : chain'[i] = chain[i]
  <2>1. \A i \in 1 .. k : chain[i] \in S
    BY <1>4
  <2>2. /\ SubSeq(chain, 1, k) \in Seq(S)
        /\ Len(SubSeq(chain, 1, k)) = IF 1 <= k THEN k - 1 + 1 ELSE 0
        /\ \A i \in 1 .. k - 1 + 1 : SubSeq(chain, 1, k)[i] = chain[1 + i - 1]
    BY <1>4, <2>1, SubSeqProperties
  <2>3. k - 1 + 1 = k /\ 1 <= k
    BY <1>4
  <2>4. \A i \in 1 .. k : 1 + i - 1 = i
    OBVIOUS
  <2> QED BY <1>2, <2>2, <2>3, <2>4
<1>6. TypeOK'
  <2>1. hqc' \in 0 .. Len(chain')
    BY <1>2, <1>4, <1>5
  <2> QED BY <1>1, <1>2, <1>5, <2>1 DEF TypeOK, S
<1>7. GapInv' /\ RequestInv' /\ NeverThrows'
  BY <1>1, <1>2 DEF GapInv, RequestInv, NeverThrows
<1>8. ASSUME SoleLeader' PROVE BranchInv' /\ NumbersInv'
  <2>1. BranchInv /\ NumbersInv
    BY <1>2, <1>8 DEF SoleLeader, IInv
  <2>2. Len(chain) <= hqc + 1
    BY <2>1 DEF BranchInv
  <2>3. k = Len(chain)
    BY <1>2, <1>3, <1>4, <2>2
  <2>4. chain' = chain
    BY <1>3, <1>5, <2>3, SeqEqual
  <2>5. Len(chain') <= hqc' + 1 /\ hqc' = Len(chain')
    BY <1>2, <1>4, <2>3, <2>4
  <2>6. BranchInv'
    BY <1>2, <2>1, <2>4, <2>5 DEF BranchInv
  <2> QED BY <1>2, <2>1, <2>4, <2>6, NumbersKept
<1> QED BY <1>6, <1>7, <1>8 DEF IInv

\* Another leader's certified block replaces what was on top of the highest
\* certificate.
LEMMA CertificateOfOther ==
  ASSUME IInv, NEW id \in setup.foreign, qc_on_nonself_block(id)
  PROVE  IInv'
<1> DEFINE S == [id : Nat, mine : BOOLEAN, direct : BOOLEAN]
           b == [id |-> id, mine |-> FALSE, direct |-> TRUE]
<1>1. TypeOK /\ GapInv /\ RequestInv /\ NeverThrows
  BY DEF IInv
<1>2. /\ foreigners' = foreigners + 1 /\ hqc' = hqc + 1
      /\ chain' = Append(SubSeq(chain, 1, hqc), b)
      /\ UNCHANGED <<setup, applied, proposed, height_map, spec_head, committed,
                     validate, buffer, requests, is_proposer, target, committed_id, vm_state,
                     last_committed, driver, event, spec_owner, thrown>>
  BY DEF qc_on_nonself_block, gadgetVars, controlVars, machineVars, threadVars
<1>3. chain \in Seq(S) /\ hqc \in 0 .. Len(chain) /\ foreigners \in Nat /\ setup \in Setups
  BY <1>1 DEF TypeOK
<1>4. id \in Nat
  BY <1>3, SetupsAssumption
<1>5. b \in S
  BY <1>4
<1> HIDE DEF S, b
<1>6. Len(chain) \in Nat /\ hqc \in Nat /\ \A i \in 1 .. Len(chain) : chain[i] \in S
  BY <1>3, ElementOfSeq, LenProperties
<1>7. SubSeq(chain, 1, hqc) \in Seq(S) /\ Len(SubSeq(chain, 1, hqc)) = hqc
  <2>1. \A i \in 1 .. hqc : chain[i] \in S
    BY <1>3, <1>6
  <2>2. /\ SubSeq(chain, 1, hqc) \in Seq(S)
        /\ Len(SubSeq(chain, 1, hqc)) = IF 1 <= hqc THEN hqc - 1 + 1 ELSE 0
    BY <1>6, <2>1, SubSeqProperties
  <2> QED BY <1>6, <2>2
<1>8. chain' \in Seq(S) /\ Len(chain') = hqc + 1
  BY <1>2, <1>5, <1>7, AppendProperties
<1>9. TypeOK'
  <2>1. hqc' \in 0 .. Len(chain') /\ foreigners' \in Nat
    BY <1>2, <1>3, <1>6, <1>8
  <2> QED BY <1>1, <1>2, <1>8, <2>1 DEF TypeOK, S
<1>10. GapInv' /\ RequestInv' /\ NeverThrows'
  BY <1>1, <1>2 DEF GapInv, RequestInv, NeverThrows
<1>11. ~SoleLeader'
  BY <1>2 DEF SoleLeader
<1> QED BY <1>9, <1>10, <1>11 DEF IInv

\* A commit of what the gadget has at the front, or of another block in its place.
LEMMA ApplyBlock ==
  ASSUME IInv, NEW h, apply_speculated_block(h) \/ apply_conflicting_block(h)
  PROVE  IInv'
<1>1. TypeOK /\ GapInv /\ RequestInv /\ NeverThrows
  BY DEF IInv
<1>2. /\ UNCHANGED <<setup, chain, hqc, applied, proposed, foreigners, height_map, spec_head,
                     committed, validate, buffer, requests, is_proposer, target, committed_id,
                     vm_state, last_committed, driver, thrown>>
      /\ event' \in {"notify", "clear"} /\ height_map # << >>
      /\ spec_owner = "none" /\ spec_owner' \in {"none", "event"}
  BY DEF apply_speculated_block, apply_conflicting_block, start_apply, clear, empty,
         consensusVars, gadgetVars, controlVars, machineVars
<1>3. TypeOK'
  BY <1>1, <1>2 DEF TypeOK
<1>4. GapInv' /\ RequestInv' /\ NeverThrows'
  BY <1>1, <1>2 DEF GapInv, RequestInv, NeverThrows
<1>5. ASSUME SoleLeader' PROVE BranchInv' /\ NumbersInv'
  <2>1. BranchInv /\ NumbersInv
    BY <1>2, <1>5 DEF SoleLeader, IInv
  <2>2. BranchInv'
    BY <1>2, <2>1 DEF BranchInv
  <2> QED BY <1>2, <2>1, <2>2, NumbersKept
<1> QED BY <1>3, <1>4, <1>5 DEF IInv

\* A commit of a block that was not speculated on: a leader that waits has none.
LEMMA ApplyNewBlock ==
  ASSUME IInv, NEW h \in 1 .. Len(chain), apply_new_block(h)
  PROVE  IInv'
<1> DEFINE x == chain[h].id
<1>1. TypeOK /\ GapInv /\ RequestInv /\ NeverThrows
  BY DEF IInv
<1>2. /\ UNCHANGED <<setup, chain, hqc, applied, proposed, foreigners, committed, vm_state,
                     last_committed, driver, spec_owner, thrown, target, committed_id>>
      /\ is_proposer' = FALSE /\ buffer' = << >> /\ requests' = 0
      /\ validate' = Append(validate, x) /\ event' = "notify"
      /\ height_map = << >> /\ spec_owner = "none" /\ h = applied + 1
      /\ add_height_pair(h, x)
  BY DEF apply_new_block, start_apply, submit_block_for_exec, clear_proposal_settings, empty,
         consensusVars, machineVars
<1>3. x \in Nat /\ h \in Nat /\ validate \in Seq(Nat) /\ committed \in Nat /\ Len(chain) \in Nat
  <2>1. chain[h] \in [id : Nat, mine : BOOLEAN, direct : BOOLEAN]
    BY <1>1, ElementOfSeq DEF TypeOK
  <2> QED BY <1>1, <2>1 DEF TypeOK
<1> HIDE DEF x
<1>4. Len(height_map) = 0
  BY <1>2
<1>5. h = spec_head
  BY <1>1, <1>2, <1>3, <1>4 DEF GapInv
<1>6. /\ height_map' \in Seq(Nat \X Nat) /\ spec_head' \in Nat
      /\ spec_head' = committed + Len(height_map') + 1
      /\ \A i \in 1 .. Len(height_map') : height_map'[i][1] = committed + i
      /\ height_map' # << >>
  BY <1>1, <1>2, <1>3, <1>5, AddPair
<1>7. validate' \in Seq(Nat) /\ buffer' \in Seq(Nat)
  BY <1>2, <1>3, AppendProperties, EmptySeq
<1>8. TypeOK'
  <2>1. {applied', proposed', foreigners', committed', spec_head', requests', target',
         vm_state', last_committed'} \subseteq Nat
    BY <1>1, <1>2, <1>6 DEF TypeOK
  <2>2. is_proposer' \in BOOLEAN /\ event' \in {"idle", "notify", "clear"}
    BY <1>2
  <2>3. /\ setup' \in Setups /\ chain' \in Seq([id : Nat, mine : BOOLEAN, direct : BOOLEAN])
        /\ hqc' \in 0 .. Len(chain') /\ committed_id' \in Nat \union {NoId}
        /\ driver' \in {"idle", "wait"} /\ spec_owner' \in {"none", "driver", "event"}
    BY <1>1, <1>2 DEF TypeOK
  <2> QED BY <1>6, <1>7, <2>1, <2>2, <2>3 DEF TypeOK
<1>9. GapInv' /\ RequestInv' /\ NeverThrows'
  BY <1>1, <1>2, <1>6 DEF GapInv, RequestInv, NeverThrows
<1>10. ~SoleLeader'
  <2> SUFFICES ASSUME SoleLeader' PROVE FALSE
    OBVIOUS
  <2>1. committed + Len(height_map) = Len(chain)
    BY <1>2 DEF SoleLeader, IInv, BranchInv
  <2>2. h = committed + 1
    BY <1>1, <1>2 DEF GapInv
  <2> QED BY <1>3, <1>4, <2>1, <2>2
<1> QED BY <1>8, <1>9, <1>10 DEF IInv

\* The committed block is the pair at the front of the list: nothing is thrown.
LEMMA Notify ==
  ASSUME IInv, NEW h, notify_vm_of_commitment(h)
  PROVE  IInv'
<1>1. TypeOK /\ GapInv /\ RequestInv /\ NeverThrows
  BY DEF IInv
<1>2. /\ event = "notify" /\ h = applied + 1
      /\ UNCHANGED <<setup, chain, hqc, proposed, foreigners, validate, buffer, requests,
                     is_proposer, target, vm_state, last_committed, driver, spec_owner>>
  BY DEF notify_vm_of_commitment, machineVars
<1>3. /\ height_map \in Seq(Nat \X Nat) /\ height_map # << >> /\ committed \in Nat
      /\ committed = applied /\ spec_head = committed + Len(height_map) + 1
      /\ \A i \in 1 .. Len(height_map) : height_map[i][1] = committed + i
  BY <1>1, <1>2 DEF TypeOK, GapInv
<1>4. Len(height_map) \in Nat /\ 1 \in 1 .. Len(height_map)
  BY <1>3
<1>5. /\ Head(height_map) = height_map[1] /\ Head(height_map) \in Nat \X Nat
      /\ Tail(height_map) \in Seq(Nat \X Nat) /\ Len(Tail(height_map)) = Len(height_map) - 1
      /\ \A i \in 1 .. Len(Tail(height_map)) : Tail(height_map)[i] = height_map[i + 1]
  <2>1. Head(height_map) = height_map[1]
    BY <1>3
  <2> QED BY <1>3, <2>1, HeadTailProperties
<1>6. Head(height_map)[1] = h /\ Head(height_map)[2] \in Nat
  BY <1>2, <1>3, <1>4, <1>5
<1>7. ~commit_would_throw(h)
  BY <1>3, <1>6 DEF commit_would_throw, empty, get_lowest_speculative
<1>8. /\ committed' = h /\ height_map' = Tail(height_map) /\ UNCHANGED <<spec_head, thrown>>
      /\ committed_id' \in {Head(height_map)[2], committed_id}
      /\ applied' = h /\ event' = "idle"
  BY <1>7 DEF notify_vm_of_commitment, on_commit_hotstuff, log_commitment, get_lowest_speculative
<1>9. /\ height_map' \in Seq(Nat \X Nat) /\ Len(height_map') = Len(height_map) - 1
      /\ committed' = committed + 1 /\ committed' \in Nat
      /\ \A i \in 1 .. Len(height_map') : height_map'[i] = height_map[i + 1]
  BY <1>2, <1>3, <1>5, <1>8
<1>10. TypeOK'
  <2>1. committed_id' \in Nat \union {NoId}
    BY <1>1, <1>6, <1>8 DEF TypeOK
  <2> QED BY <1>1, <1>2, <1>8, <1>9, <2>1 DEF TypeOK
<1>11. GapInv'
  <2>1. spec_head' = committed' + Len(height_map') + 1
    BY <1>3, <1>4, <1>8, <1>9
  <2>2. ASSUME NEW i \in 1 .. Len(height_map') PROVE height_map'[i][1] = committed' + i
    <3>1. i + 1 \in 1 .. Len(height_map)
      BY <1>4, <1>9
    <3>2. height_map[i + 1][1] = committed + (i + 1)
      BY <1>3, <3>1
    <3>3. committed + (i + 1) = committed' + i
      BY <1>3, <1>9
    <3> QED BY <1>9, <3>2, <3>3
  <2> QED BY <1>8, <2>1, <2>2 DEF GapInv
<1>12. RequestInv' /\ NeverThrows'
  BY <1>1, <1>2, <1>8 DEF RequestInv, NeverThrows
<1>13. ASSUME SoleLeader' PROVE BranchInv' /\ NumbersInv'
  <2>1. BranchInv /\ NumbersInv
    BY <1>2, <1>13 DEF SoleLeader, IInv
  <2>2. committed' + Len(height_map') = Len(chain')
    <3>1. committed + Len(height_map) = Len(chain)
      BY <2>1 DEF BranchInv
    <3> QED BY <1>2, <1>3, <1>4, <1>9, <3>1
  <2>3. ASSUME NEW i \in 1 .. Len(height_map') PROVE chain'[committed' + i].id = height_map'[i][2]
    <3>1. i + 1 \in 1 .. Len(height_map) /\ committed' + i = committed + (i + 1)
      BY <1>3, <1>4, <1>9
    <3>2. chain[committed + (i + 1)].id = height_map[i + 1][2]
      BY <2>1, <3>1 DEF BranchInv
    <3> QED BY <1>2, <1>9, <3>1, <3>2
  <2>4. BranchInv'
    BY <1>2, <2>1, <2>2, <2>3 DEF BranchInv
  <2> QED BY <1>2, <2>1, <2>4, NumbersKept
<1> QED BY <1>10, <1>11, <1>12, <1>13 DEF IInv

\* A turn of the state machine's thread gives out the next number.
LEMMA Turn ==
  ASSUME IInv, vm_run
  PROVE  IInv'
<1>1. TypeOK /\ GapInv /\ RequestInv /\ NeverThrows
  BY DEF IInv
<1>2. /\ validate' = << >> /\ committed_id' = NoId
      /\ UNCHANGED <<setup, chain, hqc, applied, proposed, foreigners, height_map, spec_head,
                     committed, is_proposer, target, last_committed, driver, event, spec_owner>>
  BY DEF vm_run, consensusVars, gadgetVars
<1> DEFINE e == executed
<1>3. e \in Nat /\ vm_state \in Nat /\ requests \in Nat /\ buffer \in Seq(Nat)
  BY <1>1, BodiesType DEF TypeOK, executed
<1>4. \/ /\ requests > 0 /\ is_proposer /\ vm_state' = vm_state + e + 1
         /\ buffer' = Append(buffer, vm_state') /\ requests' = requests - 1 /\ UNCHANGED thrown
      \/ vm_state' = vm_state + e /\ UNCHANGED <<buffer, requests, thrown>>
  <2>1. requests > 0 => is_proposer
    BY <1>1 DEF RequestInv
  <2>2. CASE requests > 0 /\ is_proposer
    BY <2>2 DEF vm_run, propose_one
  <2>3. CASE ~(requests > 0)
    BY <2>3 DEF vm_run
  <2> QED BY <2>1, <2>2, <2>3
<1>5. SoleLeader => e = 0
  BY BodiesEmpty DEF IInv, BranchInv, executed
<1> HIDE DEF e
<1>6. vm_state' \in Nat /\ buffer' \in Seq(Nat) /\ requests' \in Nat /\ thrown' = thrown
  <2>1. vm_state' \in Nat /\ requests' \in Nat /\ thrown' = thrown
    BY <1>3, <1>4
  <2> QED BY <1>3, <1>4, <2>1, AppendProperties
<1>7. TypeOK'
  <2>1. validate' \in Seq(Nat) /\ committed_id' \in Nat \union {NoId}
    BY <1>2, EmptySeq
  <2> QED BY <1>1, <1>2, <1>6, <2>1 DEF TypeOK
<1>8. GapInv' /\ NeverThrows'
  BY <1>1, <1>2, <1>6 DEF GapInv, NeverThrows
<1>9. RequestInv'
  BY <1>1, <1>2, <1>3, <1>4 DEF RequestInv
<1>10. ASSUME SoleLeader' PROVE BranchInv' /\ NumbersInv'
  <2>1. BranchInv /\ NumbersInv /\ e = 0
    BY <1>2, <1>5, <1>10 DEF SoleLeader, IInv
  <2>2. BranchInv'
    BY <1>2, <2>1 DEF BranchInv
  <2>3. CASE vm_state' = vm_state + e /\ UNCHANGED buffer
    <3>1. vm_state' = vm_state
      BY <1>3, <2>1, <2>3
    <3> QED BY <1>2, <2>1, <2>2, <2>3, <3>1, NumbersKept
  <2>4. CASE vm_state' = vm_state + e + 1 /\ buffer' = Append(buffer, vm_state')
    <3> DEFINE v == vm_state'
    <3>1. v = vm_state + 1 /\ buffer' = Append(buffer, v) /\ v \in Nat
      BY <1>3, <2>1, <2>4
    <3> HIDE DEF v
    <3>2. /\ Len(buffer) \in Nat /\ Len(buffer') = Len(buffer) + 1
          /\ \A i \in 1 .. Len(buffer) : buffer'[i] = buffer[i]
          /\ buffer'[Len(buffer) + 1] = v
      BY <1>3, <3>1
    <3>3. v - Len(buffer') = vm_state - Len(buffer)
      BY <1>3, <3>1, <3>2
    <3>4. ASSUME NEW i \in 1 .. Len(buffer') PROVE buffer'[i] = v - Len(buffer') + i
      <4>1. CASE i \in 1 .. Len(buffer)
        BY <2>1, <3>2, <3>3, <4>1 DEF NumbersInv
      <4>2. CASE i = Len(buffer) + 1
        BY <3>1, <3>2, <4>2
      <4>3. i \in 1 .. Len(buffer) \/ i = Len(buffer) + 1
        BY <3>2
      <4> QED BY <4>1, <4>2, <4>3
    <3>5. ChainIds' = ChainIds
      BY <1>2 DEF ChainIds
    <3>6. Bodies(ChainIds') = Bodies(ChainIds)
      BY <3>5
    <3>7. NumbersInv'
      BY <1>2, <2>1, <3>3, <3>4, <3>6 DEF NumbersInv, v
    <3> QED BY <2>2, <3>7
  <2> QED BY <1>4, <2>3, <2>4
<1> QED BY <1>7, <1>8, <1>9, <1>10 DEF IInv

\* Every step keeps the inductive invariant.
LEMMA StepInv == IInv /\ [Next]_vars => IInv'
<1> SUFFICES ASSUME IInv, [Next]_vars PROVE IInv'
  OBVIOUS
<1>1. CASE UNCHANGED vars
  <2>1. UNCHANGED <<setup, chain, hqc, applied, proposed, foreigners, height_map, spec_head,
                    committed, validate, buffer, requests, is_proposer, target, committed_id,
                    vm_state, last_committed, driver, event, spec_owner, thrown>>
    BY <1>1 DEF vars, consensusVars, gadgetVars, controlVars, machineVars, threadVars
  <2>2. TypeOK' /\ GapInv' /\ RequestInv' /\ NeverThrows'
    BY <2>1 DEF IInv, TypeOK, GapInv, RequestInv, NeverThrows
  <2>3. ASSUME SoleLeader' PROVE BranchInv' /\ NumbersInv'
    <3>1. BranchInv /\ NumbersInv
      BY <2>1, <2>3 DEF SoleLeader, IInv
    <3>2. BranchInv'
      BY <2>1, <3>1 DEF BranchInv
    <3> QED BY <2>1, <3>1, <3>2, NumbersKept
  <2> QED BY <2>2, <2>3 DEF IInv
<1>2. CASE make_empty_proposal \/ get_no_proposal
  BY <1>2, EmptyProposal
<1>3. CASE get_and_apply_next_proposal
  BY <1>3, NextProposal
<1>4. CASE wait_for_proposal \/ set_proposer \/ stop_proposals
  BY <1>4, ProposerMode
<1>5. CASE \E k \in 1 .. Len(chain) : qc_on_leaf(k)
  BY <1>5, CertificateOnLeaf
<1>6. CASE \E id \in setup.foreign : qc_on_nonself_block(id)
  BY <1>6, CertificateOfOther
<1>7. ASSUME NEW h \in 1 .. Len(chain),
             \/ apply_speculated_block(h) \/ apply_conflicting_block(h) \/ apply_new_block(h)
             \/ notify_vm_of_commitment(h)
      PROVE  IInv'
  BY <1>7, ApplyBlock, ApplyNewBlock, Notify
<1>8. CASE vm_run
  BY <1>8, Turn
<1> QED BY <1>1, <1>2, <1>3, <1>4, <1>5, <1>6, <1>7, <1>8 DEF Next

\* The inductive invariant holds in every reachable state.
THEOREM Invariant == Spec => []IInv
<1>1. Init => IInv
  BY InitInv
<1>2. IInv /\ [Next]_vars => IInv'
  BY StepInv
<1> QED BY <1>1, <1>2, PTL DEF Spec

\* Every variable of the bridge keeps its type.
THEOREM TypeCorrect == Spec => []TypeOK
<1>1. IInv => TypeOK
  BY DEF IInv
<1> QED BY <1>1, Invariant, PTL

\* None of the exceptions of the bridge is thrown, whoever leads: no commit finds a
\* gap in the gadget's list, and run() is never asked for proposals outside
\* proposer mode.
THEOREM NothingThrown == Spec => []NeverThrows
<1>1. IInv => NeverThrows
  BY DEF IInv
<1> QED BY <1>1, Invariant, PTL

\* While one leader proposes and waits, the gadget's list is the branch above the
\* last commit, and the bodies on the branch come in the order of their numbers.
THEOREM Speculation == Spec => []SpeculatedIsProposed
<1>1. IInv => SpeculatedIsProposed
  BY DEF IInv, BranchInv, NumbersInv, SpeculatedIsProposed
<1> QED BY <1>1, Invariant, PTL

\* The ids of the branch are those of the committed blocks and then those of the
\* speculated ones.
LEMMA BranchSplits ==
  ASSUME TypeOK, BranchInv
  PROVE  /\ CommittedIds \in Seq(Nat) /\ SpeculatedIds \in Seq(Nat)
         /\ ChainIds = CommittedIds \o SpeculatedIds
<1> DEFINE n == Len(height_map)
           c == CommittedIds
           d == SpeculatedIds
           a == ChainIds
<1>1. /\ n \in Nat /\ committed \in Nat /\ Len(chain) \in Nat
      /\ \A i \in 1 .. n : height_map[i] \in Nat \X Nat
      /\ \A i \in 1 .. Len(chain) : chain[i].id \in Nat
  <2>1. /\ height_map \in Seq(Nat \X Nat) /\ committed \in Nat
        /\ chain \in Seq([id : Nat, mine : BOOLEAN, direct : BOOLEAN])
    BY DEF TypeOK
  <2>2. \A i \in 1 .. Len(chain) : chain[i] \in [id : Nat, mine : BOOLEAN, direct : BOOLEAN]
    BY <2>1, ElementOfSeq
  <2>3. \A i \in 1 .. Len(chain) : chain[i].id \in Nat
    BY <2>2
  <2> QED BY <2>1, <2>3, ElementOfSeq, LenProperties
<1>2. committed + n = Len(chain) /\ \A i \in 1 .. n : chain[committed + i].id = height_map[i][2]
  BY DEF BranchInv
<1>3. c \in Seq(Nat) /\ Len(c) = committed /\ \A i \in 1 .. committed : c[i] = chain[i].id
  <2>1. \A i \in 1 .. committed : chain[i].id \in Nat
    BY <1>1, <1>2
  <2> QED BY <1>1, <2>1 DEF CommittedIds
<1>4. d \in Seq(Nat) /\ Len(d) = n /\ \A i \in 1 .. n : d[i] = height_map[i][2]
  BY <1>1 DEF SpeculatedIds
<1>5. a \in Seq(Nat) /\ Len(a) = Len(chain) /\ \A i \in 1 .. Len(chain) : a[i] = chain[i].id
  BY <1>1 DEF ChainIds
<1> HIDE DEF n, a, c, d
<1>6. /\ c \o d \in Seq(Nat) /\ Len(c \o d) = committed + n
      /\ \A i \in 1 .. committed : (c \o d)[i] = c[i]
      /\ \A i \in 1 .. n : (c \o d)[committed + i] = d[i]
  <2>1. c \o d \in Seq(Nat) /\ Len(c \o d) = Len(c) + Len(d)
    BY <1>3, <1>4, ConcatProperties
  <2>2. \A i \in 1 .. Len(c) : (c \o d)[i] = c[i]
    BY <1>3, <1>4
  <2>3. \A i \in 1 .. Len(d) : (c \o d)[Len(c) + i] = d[i]
    BY <1>3, <1>4
  <2> QED BY <1>1, <1>3, <1>4, <2>1, <2>2, <2>3
<1>7. ASSUME NEW i \in 1 .. Len(a) PROVE a[i] = (c \o d)[i]
  <2>1. CASE i \in 1 .. committed
    BY <1>3, <1>5, <1>6, <2>1
  <2>2. CASE i \in committed + 1 .. committed + n
    <3>1. i - committed \in 1 .. n /\ i = committed + (i - committed)
      BY <1>1, <2>2
    <3>2. (c \o d)[committed + (i - committed)] = chain[committed + (i - committed)].id
      BY <1>2, <1>4, <1>6, <3>1
    <3> QED BY <1>5, <3>1, <3>2
  <2>3. i \in 1 .. committed \/ i \in committed + 1 .. committed + n
    BY <1>1, <1>2, <1>5
  <2> QED BY <2>1, <2>2, <2>3
<1>8. a = c \o d
  BY <1>2, <1>5, <1>6, <1>7, SeqEqual
<1> QED BY <1>3, <1>4, <1>8 DEF a, c, d

\* With one leader the state machine has counted every block with a body exactly
\* once: the committed ones, the speculated ones and the ones in the buffer.
THEOREM StateIsLedger == Spec => []VMStateIsLedger
<1>1. IInv => VMStateIsLedger
  <2> SUFFICES ASSUME IInv, SoleLeader
               PROVE  vm_state + executed
                        = Bodies(CommittedIds) + Bodies(SpeculatedIds) + Len(buffer)
    BY DEF VMStateIsLedger
  <2>1. TypeOK /\ BranchInv /\ NumbersInv
    BY DEF IInv
  <2>2. CommittedIds \in Seq(Nat) /\ SpeculatedIds \in Seq(Nat)
        /\ ChainIds = CommittedIds \o SpeculatedIds
    BY <2>1, BranchSplits
  <2>3. Bodies(ChainIds) = Bodies(CommittedIds) + Bodies(SpeculatedIds)
    BY <2>2, BodiesConcat
  <2>4. Bodies(ChainIds) = vm_state - Len(buffer)
    BY <2>1 DEF NumbersInv
  <2>5. executed = 0
    BY <2>1, BodiesEmpty DEF BranchInv, executed
  <2>6. vm_state \in Nat /\ Len(buffer) \in Nat
    BY <2>1, LenProperties DEF TypeOK
  <2>7. Bodies(CommittedIds) \in Nat /\ Bodies(SpeculatedIds) \in Nat
    BY <2>2, BodiesType
  <2> QED BY <2>3, <2>4, <2>5, <2>6, <2>7
<1> QED BY <1>1, Invariant, PTL
=============================================================================
