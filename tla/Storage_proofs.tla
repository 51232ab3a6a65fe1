--------------------------- MODULE Storage_proofs ---------------------------
(***************************************************************************)
(* Proofs about Storage, for every tree of blocks, every number of crashes *)
(* and every depth the collector keeps.                                    *)
(*                                                                         *)
(* The recursive function Ancestors is reasoned about by induction on the  *)
(* height of a block, from the fact that numbers are well founded.  The    *)
(* index on disk is then the table of one branch, Chain(top), at all       *)
(* times; the files of that branch stay whole because the core writes      *)
(* nothing that is executed, and because the collector, being behind the   *)
(* last executed block, clears no body that is still to be written there.  *)
(***************************************************************************)
EXTENDS Storage, SequenceTheorems, WellFoundedInduction, TLAPS

-----------------------------------------------------------------------------
(***************************************************************************)
(* Induction.                                                              *)
(***************************************************************************)
LessThan == {p \in Nat \X Nat : p[1] < p[2]}

LEMMA LessThanWellFounded == IsWellFoundedOn(LessThan, Nat)
  BY NatLessThanWellFounded, Zenon DEF OpToRel, LessThan

\* A set of numbers that is not empty has a least one.
LEMMA LeastNumber ==
  ASSUME NEW S \in SUBSET Nat, S # {}
  PROVE  \E n \in S : \A m \in S : n <= m
<1>1. PICK n \in S : \A m \in S : <<m, n>> \notin LessThan
  BY LessThanWellFounded, WFMin
<1>2. ASSUME NEW m \in S PROVE n <= m
  <2>1. m \in Nat /\ n \in Nat
    OBVIOUS
  <2>2. ~(m < n)
    <3>1. SUFFICES ASSUME m < n PROVE <<m, n>> \in LessThan
      BY <1>1
    <3> QED BY <2>1, <3>1 DEF LessThan
  <2> QED BY <2>1, <2>2
<1> QED BY <1>2

\* What holds for the genesis block and for a block if for its parent holds for all.
LEMMA TreeInduction ==
  ASSUME NEW S, Genesis \in S, \A b \in Blocks : Parent[b] \in S => b \in S
  PROVE  Nodes \subseteq S
<1> SUFFICES ASSUME NEW b \in Nodes, b \notin S PROVE FALSE
  OBVIOUS
<1> DEFINE H == {Height[c] : c \in Nodes \ S}
<1>1. H \in SUBSET Nat /\ H # {}
  BY TreeAssumption
<1>2. PICK n \in H : \A m \in H : n <= m
  BY <1>1, LeastNumber
<1>3. PICK c \in Nodes \ S : n = Height[c]
  BY <1>2
<1>4. c \in Blocks /\ Parent[c] \in Nodes \ S
  BY <1>3, TreeAssumption DEF Nodes
<1>5. Height[Parent[c]] \in H /\ Height[Parent[c]] \in Nat /\ Height[c] = Height[Parent[c]] + 1
  BY <1>4, TreeAssumption
<1>6. n <= Height[Parent[c]]
  BY <1>2, <1>5
<1> QED BY <1>3, <1>5, <1>6

-----------------------------------------------------------------------------
(***************************************************************************)
(* The tree of the blocks.                                                 *)
(***************************************************************************)
Closed(C) == \A c \in C \ {Genesis} : Parent[c] \in C

\* The recursive definition defines: the least closed set with the block is a
\* solution of the equation.
LEMMA AncestorsDef ==
  \A b \in Nodes :
    Ancestors[b] = IF b = Genesis THEN {b} ELSE {b} \union Ancestors[Parent[b]]
<1> DEFINE least == [b \in Nodes |-> {a \in Nodes : \A C \in SUBSET Nodes :
                                        b \in C /\ Closed(C) => a \in C}]
           Step(g) == [b \in Nodes |-> IF b = Genesis THEN {b} ELSE {b} \union g[Parent[b]]]
<1>1. ASSUME NEW b \in Nodes
      PROVE  least[b] = IF b = Genesis THEN {b} ELSE {b} \union least[Parent[b]]
  <2>1. CASE b = Genesis
    <3>1. {Genesis} \in SUBSET Nodes /\ Closed({Genesis})
      BY DEF Nodes, Closed
    <3> QED BY <2>1, <3>1
  <2>2. CASE b # Genesis
    <3>1. b \in Blocks /\ Parent[b] \in Nodes
      BY <2>2, TreeAssumption DEF Nodes
    <3>2. ASSUME NEW a \in least[b] PROVE a \in {b} \union least[Parent[b]]
      <4> SUFFICES ASSUME a # b, NEW C \in SUBSET Nodes, Parent[b] \in C, Closed(C) PROVE a \in C
        BY <3>1, <3>2
      <4>1. Closed(C \union {b}) /\ C \union {b} \in SUBSET Nodes
        BY DEF Closed
      <4> QED BY <3>2, <4>1
    <3>3. ASSUME NEW a \in least[Parent[b]] PROVE a \in least[b]
      BY <3>1, <3>3, <2>2 DEF Closed
    <3> QED BY <2>2, <3>1, <3>2, <3>3
  <2> QED BY <2>1, <2>2
<1>2. least = Step(least)
  BY <1>1
<1>3. Ancestors = CHOOSE g : g = Step(g)
  BY DEF Ancestors
<1>4. Ancestors = Step(Ancestors)
  <2> HIDE DEF least, Step
  <2> QED BY <1>2, <1>3
<1> QED BY <1>4

LEMMA AncestorsOfGenesis == Ancestors[Genesis] = {Genesis}
  BY AncestorsDef DEF Nodes

LEMMA AncestorsOfBlock ==
  ASSUME NEW b \in Blocks
  PROVE  Ancestors[b] = {b} \union Ancestors[Parent[b]]
  BY AncestorsDef, StorageAssumption DEF Nodes

LEMMA AncestorsType ==
  \A b \in Nodes : Ancestors[b] \subseteq Nodes /\ b \in Ancestors[b] /\ Genesis \in Ancestors[b]
<1> DEFINE S == {b \in Nodes : Ancestors[b] \subseteq Nodes /\ b \in Ancestors[b]
                               /\ Genesis \in Ancestors[b]}
<1>1. Genesis \in S
  BY AncestorsOfGenesis DEF Nodes
<1>2. \A b \in Blocks : Parent[b] \in S => b \in S
  BY AncestorsOfBlock DEF Nodes
<1> QED BY <1>1, <1>2, TreeInduction

\* What is below a block is lower.
LEMMA AncestorsLower ==
  \A b \in Nodes : \A a \in Ancestors[b] \ {b} : Height[a] < Height[b]
<1> DEFINE S == {b \in Nodes : \A a \in Ancestors[b] \ {b} : Height[a] < Height[b]}
<1>1. Genesis \in S
  BY AncestorsOfGenesis DEF Nodes
<1>2. ASSUME NEW b \in Blocks, Parent[b] \in S PROVE b \in S
  <2>1. Height[b] = Height[Parent[b]] + 1 /\ Height[Parent[b]] \in Nat /\ Parent[b] \in Nodes
    BY TreeAssumption
  <2>2. ASSUME NEW a \in Ancestors[b] \ {b} PROVE Height[a] < Height[b]
    <3>1. a \in Ancestors[Parent[b]]
      BY AncestorsOfBlock
    <3>2. a \in Nodes /\ Height[a] \in Nat
      BY <3>1, <2>1, AncestorsType, TreeAssumption
    <3>3. a = Parent[b] \/ Height[a] < Height[Parent[b]]
      BY <3>1, <1>2
    <3> QED BY <3>2, <3>3, <2>1
  <2> QED BY <2>2 DEF Nodes
<1> QED BY <1>1, <1>2, TreeInduction

\* What is below what is below a block is below it.
LEMMA AncestorsClosed ==
  \A b \in Nodes : \A a \in Ancestors[b] : Ancestors[a] \subseteq Ancestors[b]
<1> DEFINE S == {b \in Nodes : \A a \in Ancestors[b] : Ancestors[a] \subseteq Ancestors[b]}
<1>1. Genesis \in S
  BY AncestorsOfGenesis DEF Nodes
<1>2. \A b \in Blocks : Parent[b] \in S => b \in S
  BY AncestorsOfBlock DEF Nodes
<1> QED BY <1>1, <1>2, TreeInduction

\* Of two blocks below a third the lower one is below the other.
LEMMA AncestorsLinear ==
  \A b \in Nodes : \A a, c \in Ancestors[b] : Height[a] <= Height[c] => a \in Ancestors[c]
<1> DEFINE S == {b \in Nodes : \A a, c \in Ancestors[b] :
                                 Height[a] <= Height[c] => a \in Ancestors[c]}
<1>1. Genesis \in S
  BY AncestorsOfGenesis DEF Nodes
<1>2. ASSUME NEW b \in Blocks, Parent[b] \in S PROVE b \in S
  <2>1. b \in Nodes /\ Parent[b] \in Nodes /\ Height[b] \in Nat
    BY TreeAssumption DEF Nodes
  <2>2. ASSUME NEW a \in Ancestors[b], NEW c \in Ancestors[b], Height[a] <= Height[c]
        PROVE  a \in Ancestors[c]
    <3>1. CASE c = b
      BY <3>1
    <3>2. CASE c # b /\ a = b
      <4>1. Height[c] < Height[b] /\ c \in Nodes
        BY <3>2, <2>1, AncestorsLower, AncestorsType
      <4> QED BY <4>1, <3>2, <2>1, <2>2, TreeAssumption
    <3>3. CASE c # b /\ a # b
      BY <3>3, <1>2, <2>2, AncestorsOfBlock
    <3> QED BY <3>1, <3>2, <3>3
  <2> QED BY <2>1, <2>2
<1> QED BY <1>1, <1>2, TreeInduction

-----------------------------------------------------------------------------
(***************************************************************************)
(* The keys and the table.                                                 *)
(***************************************************************************)
LEMMA Euclid ==
  ASSUME NEW h \in Nat, NEW B \in Nat \ {0}
  PROVE  h \div B \in Nat /\ h % B \in 0 .. B - 1 /\ h = B * (h \div B) + (h % B)
  OBVIOUS

LEMMA DigitsOrdered ==
  ASSUME NEW B \in Nat, NEW q \in Nat, NEW p \in Nat, NEW r \in 0 .. B - 1, NEW s \in 0 .. B - 1,
         B * q + r < B * p + s
  PROVE  q < p \/ (q = p /\ r < s)
<1> SUFFICES ASSUME q > p PROVE FALSE
  OBVIOUS
<1>1. PICK d \in Nat : q = p + 1 + d
  <2>1. q - p - 1 \in Nat
    OBVIOUS
  <2> QED BY <2>1
<1>2. B * q = B * p + B + B * d
  BY <1>1
<1>3. B * d \in Nat /\ B * p \in Nat
  OBVIOUS
<1> QED BY <1>2, <1>3

\* The order of the keys is the order of the heights.
LEMMA KeysOrdered ==
  ASSUME NEW h \in Nat, NEW g \in Nat, h < g
  PROVE  KeyBefore(write_unsigned_big_endian(h), write_unsigned_big_endian(g))
<1>1. ByteBase \in Nat \ {0}
  BY StorageAssumption
<1>2. /\ h \div ByteBase \in Nat /\ h % ByteBase \in 0 .. ByteBase - 1
      /\ h = ByteBase * (h \div ByteBase) + (h % ByteBase)
  BY <1>1, Euclid
<1>3. /\ g \div ByteBase \in Nat /\ g % ByteBase \in 0 .. ByteBase - 1
      /\ g = ByteBase * (g \div ByteBase) + (g % ByteBase)
  BY <1>1, Euclid
<1>4. \/ h \div ByteBase < g \div ByteBase
      \/ h \div ByteBase = g \div ByteBase /\ h % ByteBase < g % ByteBase
  <2> DEFINE q == h \div ByteBase r == h % ByteBase p == g \div ByteBase s == g % ByteBase
  <2>1. ByteBase * q + r < ByteBase * p + s
    BY <1>2, <1>3
  <2> HIDE DEF q, r, p, s
  <2>2. q < p \/ (q = p /\ r < s)
    BY <1>1, <1>2, <1>3, <2>1, DigitsOrdered DEF q, r, p, s
  <2> QED BY <2>2 DEF q, r, p, s
<1> QED BY <1>4 DEF KeyBefore, write_unsigned_big_endian

LEMMA KeysDiffer ==
  ASSUME NEW h \in Nat, NEW g \in Nat,
         write_unsigned_big_endian(h) = write_unsigned_big_endian(g)
  PROVE  h = g
<1>1. ByteBase \in Nat \ {0}
  BY StorageAssumption
<1>2. h = ByteBase * (h \div ByteBase) + (h % ByteBase)
  BY <1>1, Euclid
<1>3. g = ByteBase * (g \div ByteBase) + (g % ByteBase)
  BY <1>1, Euclid
<1>4. h \div ByteBase = g \div ByteBase /\ h % ByteBase = g % ByteBase
  BY DEF write_unsigned_big_endian
<1> QED BY <1>2, <1>3, <1>4

\* A value of the table gives back the hash, and a name unless the body is empty.
LEMMA ValueOfBlock ==
  ASSUME NEW b
  PROVE  /\ Head(hash_and_id(b)) = b
         /\ Tail(hash_and_id(b)) # << >> => b \notin EmptyBodies
<1>1. CASE b \in EmptyBodies
  <2>1. hash_and_id(b) = <<b>>
    BY <1>1 DEF hash_and_id, block_id
  <2> QED BY <2>1
<1>2. CASE b \notin EmptyBodies
  <2>1. hash_and_id(b) = <<b>> \o <<b>>
    BY <1>2 DEF hash_and_id, block_id
  <2>2. <<b>> \in Seq({b}) /\ Len(<<b>>) = 1 /\ <<b>>[1] = b
    OBVIOUS
  <2>3. Len(<<b>> \o <<b>>) = 2 /\ (<<b>> \o <<b>>)[1] = b /\ <<b>> \o <<b>> \in Seq({b})
    BY <2>2, ConcatProperties
  <2> QED BY <2>1, <2>3, <1>2
<1> QED BY <1>1, <1>2

Chain(b) == Ancestors[b] \ {Genesis}
Key(b) == write_unsigned_big_endian(Height[b])

\* The table of a block and of all below it.
TableOf(b) ==
    [key \in {Key(a) : a \in Chain(b)} |-> hash_and_id(CHOOSE a \in Chain(b) : Key(a) = key)]

\* A key is the key of one block only.
LEMMA ChainKeys ==
  ASSUME NEW b \in Nodes, NEW a \in Ancestors[b], NEW c \in Ancestors[b], Key(a) = Key(c)
  PROVE  a = c
<1>1. a \in Nodes /\ c \in Nodes /\ Height[a] \in Nat /\ Height[c] \in Nat
  BY AncestorsType, TreeAssumption
<1>2. Height[a] = Height[c]
  BY <1>1, KeysDiffer DEF Key
<1>3. a \in Ancestors[c]
  BY <1>1, <1>2, AncestorsLinear
<1>4. a = c \/ Height[a] < Height[c]
  BY <1>1, <1>3, AncestorsLower
<1> QED BY <1>1, <1>2, <1>4

LEMMA TableValue ==
  ASSUME NEW b \in Nodes, NEW a \in Chain(b)
  PROVE  Key(a) \in DOMAIN TableOf(b) /\ TableOf(b)[Key(a)] = hash_and_id(a)
<1> DEFINE c == CHOOSE c \in Chain(b) : Key(c) = Key(a)
<1>1. c \in Chain(b) /\ Key(c) = Key(a)
  OBVIOUS
<1>2. c = a
  <2> HIDE DEF c
  <2> QED BY <1>1, ChainKeys DEF Chain
<1>3. TableOf(b)[Key(a)] = hash_and_id(c)
  BY DEF TableOf
<1> QED BY <1>2, <1>3 DEF TableOf

LEMMA TableKeys ==
  ASSUME NEW b \in Nodes, NEW key \in DOMAIN TableOf(b)
  PROVE  \E a \in Chain(b) : key = Key(a)
  BY DEF TableOf

\* The table of a block has all that is in the tables of the blocks below.
LEMMA TableGrows ==
  ASSUME NEW b \in Nodes, NEW a \in Ancestors[b], NEW key \in DOMAIN TableOf(a)
  PROVE  key \in DOMAIN TableOf(b) /\ TableOf(b)[key] = TableOf(a)[key]
<1>1. a \in Nodes /\ Chain(a) \subseteq Chain(b)
  BY AncestorsType, AncestorsClosed DEF Chain
<1>2. PICK c \in Chain(a) : key = Key(c)
  BY <1>1, TableKeys
<1> QED BY <1>1, <1>2, TableValue

\* A block's queue makes of one table the other.
LEMMA TableExtends ==
  ASSUME NEW b \in Nodes, NEW a \in Ancestors[b], NEW t, NEW queue,
         queue = Ancestors[b] \ Ancestors[a], t.data = TableOf(a),
         t = [data |-> t.data, metadata |-> t.metadata]
  PROVE  add_decided_block(t, queue) = [data |-> TableOf(b), metadata |-> t.metadata]
<1> DEFINE keys  == {write_unsigned_big_endian(Height[c]) : c \in queue}
           at(k) == CHOOSE c \in queue : write_unsigned_big_endian(Height[c]) = k
           new   == [k \in DOMAIN TableOf(a) \union keys |->
                       IF k \in keys THEN hash_and_id(at(k)) ELSE TableOf(a)[k]]
<1>1. a \in Nodes /\ Genesis \in Ancestors[a] /\ Ancestors[a] \subseteq Ancestors[b]
  BY AncestorsType, AncestorsClosed
<1>2. DOMAIN new = DOMAIN TableOf(b)
  BY <1>1 DEF TableOf, Chain, Key
<1>3. ASSUME NEW k \in DOMAIN TableOf(b) PROVE new[k] = TableOf(b)[k]
  <2>1. CASE k \in keys
    <3>1. at(k) \in queue /\ Key(at(k)) = k
      BY <2>1 DEF Key
    <3>2. at(k) \in Chain(b)
      <4> HIDE DEF at
      <4> QED BY <1>1, <3>1 DEF Chain
    <3>3. TableOf(b)[k] = hash_and_id(at(k))
      BY <3>1, <3>2, TableValue
    <3> QED BY <2>1, <3>3, <1>2
  <2>2. CASE k \notin keys
    <3>1. k \in DOMAIN TableOf(a)
      BY <2>2, <1>2
    <3> QED BY <3>1, <2>2, TableGrows
  <2> QED BY <2>1, <2>2
<1>4. new = TableOf(b)
  <2>1. TableOf(b) = [k \in DOMAIN TableOf(b) |-> TableOf(b)[k]]
    BY DEF TableOf
  <2> QED BY <1>2, <1>3, <2>1
<1>5. add_decided_block(t, queue) = [t EXCEPT !.data = new]
  BY DEF add_decided_block
<1> QED BY <1>4, <1>5

-----------------------------------------------------------------------------
(***************************************************************************)
(* The invariant.                                                          *)
(***************************************************************************)
\* The block the index ends with.
top == IF "qc" \in DOMAIN metadata THEN metadata["qc"] ELSE Genesis

\* Deep enough below the last executed block to lose its body.
Old(b) == Height[b] + KeepDepth < Height[b_exec]

TypeOK ==
    /\ up \in BOOLEAN /\ crashes \in Nat
    /\ block_cache \in SUBSET Nodes /\ written \in SUBSET Nodes /\ decided \in SUBSET Nodes
    /\ bodies \in SUBSET Blocks /\ flushed \in SUBSET Nodes
    /\ b_lock \in Nodes /\ b_exec \in Nodes
    /\ core \in [pc : {"idle", "write", "save", "commit", "persist", "prune"},
                 on : Nodes, at : Nodes]
    /\ gc_list_buffer \in SUBSET Blocks /\ gc_list \in SUBSET Blocks
    /\ height_to_gc \in Nat \union {None}
    /\ gc \in [below : Nat \union {None}, clearing : Blocks \union {None}]
    /\ answer \in [state : {"none", "checked", "sent", "accepted"}, block : Nodes,
                   body : {"none", "whole", "torn"}]
    /\ file \in [Blocks -> {"none", "cut", "whole", "bodiless"}]

\* On disk, always: the index is the table of one branch, whose files are whole,
\* and a round has been counted for it.
DiskInv ==
    /\ metadata = [key \in DOMAIN metadata |-> metadata[key]]
    /\ top \in Nodes /\ ("qc" \in DOMAIN metadata => top \in Blocks)
    /\ data = TableOf(top)
    /\ "persisted_block" \in DOMAIN metadata => metadata["persisted_block"] \in Nat
    /\ "qc" \in DOMAIN metadata =>
         "persisted_block" \in DOMAIN metadata /\ metadata["persisted_block"] # 0
    /\ \A b \in Chain(top) : file[b] = "whole"

\* The store has what its blocks name, and the bodies of all that are not old.
StoreInv ==
    /\ Genesis \in block_cache
    /\ \A b \in block_cache \ {Genesis} : {Parent[b], Justify[b]} \subseteq block_cache
    /\ \A b \in block_cache \ {Genesis} : b \in bodies \/ Old(b)
    /\ \A b \in flushed \ {Genesis} : Old(b)

\* The core: what is executed is one branch, which is the index or about to be.
CoreInv ==
    /\ b_lock \in block_cache /\ core.at \in block_cache
    /\ decided = Ancestors[b_exec]
    /\ core.pc # "persist" => top = b_exec
    /\ core.pc = "persist" =>
         /\ b_exec \in Blocks /\ top \in Ancestors[b_exec]
         /\ tx = [data |-> TableOf(b_exec), metadata |-> put(metadata, "qc", b_exec)]
    /\ core.pc \in {"write", "save", "commit"} =>
         /\ core.on \in Blocks \ decided
         /\ Justify[core.on] \in Blocks \ decided

\* What has been executed or locked is on disk with all below it, except for the
\* block the core is at, and whole unless the collector got there first.
FileInv ==
    /\ decided \subseteq written
    /\ b_lock \in written \/ (core.pc = "write" /\ core.at = b_lock)
    /\ core.pc = "save" => core.at \in written \ decided
    /\ \A b \in written \ {Genesis} :
         \/ Parent[b] \in written
         \/ core.pc = "write" /\ core.at = Parent[b]
         \/ core.pc = "save" /\ core.at = b
    /\ \A b \in written \ {Genesis} :
         \/ file[b] = "whole"
         \/ core.pc = "save" /\ core.at = b
         \/ b \notin decided /\ Old(b)

\* The collector flushes nothing but what is old.
GcInv ==
    /\ height_to_gc # None => height_to_gc <= prune_height(Height[b_exec])
    /\ gc.below # None => gc.below <= prune_height(Height[b_exec])
    /\ gc.clearing # None => Old(gc.clearing)

\* The server checks stored blocks only.
AnswerInv ==
    /\ answer.state = "checked" => answer.block \in block_cache \ {Genesis}
    /\ RecentIsServed

StorageInv ==
    /\ TypeOK /\ DiskInv /\ AnswerInv
    /\ up => StoreInv /\ CoreInv /\ FileInv /\ GcInv

-----------------------------------------------------------------------------
(***************************************************************************)
(* The invariant is inductive.                                             *)
(***************************************************************************)
LEMMA TreeFacts ==
  /\ Genesis \in Nodes /\ Genesis \notin Blocks /\ None \notin Blocks /\ Blocks \subseteq Nodes
  /\ \A b \in Blocks : Parent[b] \in Nodes /\ Justify[b] \in Nodes
  /\ \A b \in Nodes : Height[b] \in Nat
  /\ \A b \in Blocks : Height[b] = Height[Parent[b]] + 1
  BY StorageAssumption, TreeAssumption, AncestorsType DEF Nodes

\* The blocks a block names are below it.
LEMMA NamedAreBelow ==
  ASSUME NEW b \in Nodes, NEW a \in Chain(b)
  PROVE  /\ a \in Blocks /\ Parent[a] \in Ancestors[b] /\ Justify[a] \in Ancestors[b]
         /\ Height[Parent[a]] < Height[a] /\ Height[Justify[a]] < Height[a]
<1>1. a \in Blocks /\ Parent[a] \in Nodes
  BY AncestorsType, TreeAssumption DEF Chain, Nodes
<1>2. Parent[a] \in Ancestors[a] /\ Justify[a] \in Ancestors[a]
  BY <1>1, AncestorsOfBlock, AncestorsType, TreeAssumption
<1>3. Height[Parent[a]] \in Nat /\ Height[a] = Height[Parent[a]] + 1
  BY <1>1, TreeFacts
<1>4. Justify[a] # a
  <2>1. Justify[a] = Parent[a] \/ Height[Justify[a]] < Height[Parent[a]]
    BY <1>1, TreeAssumption, AncestorsLower
  <2> QED BY <1>3, <2>1
<1>5. Height[Justify[a]] < Height[a]
  BY <1>1, <1>2, <1>4, AncestorsLower DEF Nodes
<1> QED BY <1>1, <1>2, <1>3, <1>5, AncestorsClosed DEF Chain

LEMMA ChainOfGenesis == Chain(Genesis) = {}
  BY AncestorsOfGenesis DEF Chain

LEMMA TableOfGenesis == TableOf(Genesis) = NoTable
  BY ChainOfGenesis DEF TableOf, NoTable

\* With what a process without blocks has in memory the invariant is about the disk.
EmptyMemory ==
    /\ block_cache = {Genesis} /\ decided = {Genesis} /\ written = {Genesis}
    /\ bodies = {} /\ flushed = {Genesis}
    /\ b_lock = Genesis /\ b_exec = Genesis /\ core = CoreIdle
    /\ gc_list_buffer = {} /\ gc_list = {} /\ height_to_gc = None /\ gc = GcIdle
    /\ answer = NoAnswer

LEMMA InitInv == Init => StorageInv
<1> SUFFICES ASSUME Init PROVE StorageInv
  OBVIOUS
<1>1. EmptyMemory /\ up = FALSE /\ crashes = 0
  BY DEF Init, EmptyMemory
<1>2. metadata = NoTable /\ data = NoTable /\ file = [b \in Blocks |-> "none"]
  BY DEF Init, clear_all_data_dirs
<1>3. DOMAIN metadata = {} /\ top = Genesis
  BY <1>2 DEF NoTable, top
<1>4. DiskInv
  BY <1>2, <1>3, ChainOfGenesis, TableOfGenesis, TreeFacts DEF DiskInv, NoTable
<1>5. TypeOK
  BY <1>1, <1>2, TreeFacts DEF EmptyMemory, TypeOK, CoreIdle, GcIdle, NoAnswer
<1>6. AnswerInv
  BY <1>1 DEF EmptyMemory, AnswerInv, RecentIsServed, NoAnswer
<1> QED BY <1>1, <1>4, <1>5, <1>6 DEF StorageInv

LEMMA EmptyMemoryInv ==
  ASSUME EmptyMemory', DiskInv', up' \in BOOLEAN, crashes' \in Nat, up' => top' = Genesis,
         file' \in [Blocks -> {"none", "cut", "whole", "bodiless"}]
  PROVE  StorageInv'
<1>1. TypeOK'
  BY TreeFacts DEF EmptyMemory, TypeOK, CoreIdle, GcIdle, NoAnswer
<1>2. AnswerInv'
  BY DEF EmptyMemory, AnswerInv, RecentIsServed, NoAnswer
<1>3. ASSUME up' PROVE StoreInv' /\ CoreInv' /\ FileInv' /\ GcInv'
  BY <1>3, AncestorsOfGenesis, TreeFacts
     DEF EmptyMemory, StoreInv, CoreInv, FileInv, GcInv, CoreIdle, GcIdle
<1> QED BY <1>1, <1>2, <1>3 DEF StorageInv

LEMMA CrashInv == StorageInv /\ crash => StorageInv'
<1> SUFFICES ASSUME StorageInv, crash PROVE StorageInv'
  OBVIOUS
<1>1. EmptyMemory' /\ up' = FALSE /\ crashes' \in Nat
  BY DEF crash, loads, EmptyMemory, written_flags, StorageInv, TypeOK
<1>2. DiskInv' /\ file' = file
  BY DEF crash, diskVars, StorageInv, DiskInv, top
<1>3. file' \in [Blocks -> {"none", "cut", "whole", "bodiless"}]
  BY <1>2 DEF StorageInv, TypeOK
<1> QED BY <1>1, <1>2, <1>3, EmptyMemoryInv

LEMMA InitCleanInv == StorageInv /\ init_clean => StorageInv'
<1> SUFFICES ASSUME StorageInv, init_clean PROVE StorageInv'
  OBVIOUS
<1>1. EmptyMemory' /\ up' = TRUE /\ crashes' \in Nat /\ file' = file /\ data' = data
  BY DEF init_clean, loads, EmptyMemory, written_flags, StorageInv, TypeOK
<1>2. "qc" \notin DOMAIN metadata
  <2>1. get(metadata, "persisted_block") \in {-1, 0}
    BY DEF init_clean, create_db_ok, None
  <2>2. SUFFICES ASSUME "qc" \in DOMAIN metadata PROVE FALSE
    OBVIOUS
  <2>3. /\ "persisted_block" \in DOMAIN metadata
        /\ metadata["persisted_block"] \in Nat /\ metadata["persisted_block"] # 0
    BY <2>2 DEF StorageInv, DiskInv
  <2>4. get(metadata, "persisted_block") = metadata["persisted_block"]
    BY <2>3 DEF get
  <2> QED BY <2>1, <2>3, <2>4
<1>3. metadata' = put(metadata, "persisted_block", 0)
  BY DEF init_clean, write_persisted_round_number, open_txn
<1>4. /\ DOMAIN metadata' = DOMAIN metadata \union {"persisted_block"}
      /\ metadata'["persisted_block"] = 0
      /\ metadata' = [key \in DOMAIN metadata' |-> metadata'[key]]
  BY <1>3 DEF put
<1>5. top = Genesis /\ top' = Genesis
  BY <1>2, <1>4 DEF top
<1>6. DiskInv'
  <2>1. data' = TableOf(top')
    BY <1>1, <1>5 DEF StorageInv, DiskInv
  <2>2. "qc" \notin DOMAIN metadata'
    BY <1>2, <1>4
  <2>3. \A b \in Chain(top') : file'[b] = "whole"
    BY <1>5, ChainOfGenesis
  <2> QED BY <1>4, <1>5, <2>1, <2>2, <2>3, TreeFacts DEF DiskInv
<1>7. file' \in [Blocks -> {"none", "cut", "whole", "bodiless"}]
  BY <1>1 DEF StorageInv, TypeOK
<1> QED BY <1>1, <1>5, <1>6, <1>7, EmptyMemoryInv

\* The blocks of the index are the ones of the branch it ends with.
LEMMA IndexIsChain ==
  ASSUME DiskInv
  PROVE  index = Chain(top)
<1>1. top \in Nodes /\ data = TableOf(top)
  BY DEF DiskInv
<1>2. ASSUME NEW key \in DOMAIN data PROVE Head(data[key]) \in Chain(top)
  BY <1>1, TableKeys, TableValue, ValueOfBlock
<1>3. ASSUME NEW a \in Chain(top) PROVE \E key \in DOMAIN data : Head(data[key]) = a
  BY <1>1, TableValue, ValueOfBlock
<1> QED BY <1>2, <1>3 DEF index, iterator_hash

LEMMA InitFromDiskInv == StorageInv /\ init_from_disk => StorageInv'
<1> SUFFICES ASSUME StorageInv, init_from_disk PROVE StorageInv'
  OBVIOUS
<1>1. DiskInv /\ TypeOK
  BY DEF StorageInv
<1>2. "qc" \in DOMAIN metadata /\ get(metadata, "qc") = top /\ top \in Blocks /\ top \in Nodes
  BY <1>1, TreeFacts
     DEF init_from_disk, init_from_disk_ok, reload_state_ok, get_highest_qc_ok, get, top, DiskInv
<1>3. index = Chain(top) /\ index \union {Genesis} = Ancestors[top] /\ index \subseteq Blocks
  BY <1>1, <1>2, IndexIsChain, AncestorsType DEF Chain, Nodes
<1>4. /\ up' = TRUE /\ crashes' = crashes /\ UNCHANGED <<file, data, metadata>> /\ top' = top
      /\ block_cache' = Ancestors[top] /\ decided' = Ancestors[top] /\ written' = Ancestors[top]
      /\ bodies' = {b \in Chain(top) : file[b] = "whole"} /\ flushed' = {Genesis}
      /\ b_lock' = top /\ b_exec' = top /\ core' = CoreIdle
      /\ gc_list_buffer' = Chain(top) /\ gc_list' = {} /\ height_to_gc' = None /\ gc' = GcIdle
      /\ answer' = NoAnswer
  BY <1>2, <1>3 DEF init_from_disk, loads, written_flags, diskVars, top
<1>5. bodies' = Chain(top)
  BY <1>1, <1>4 DEF DiskInv
<1>6. TypeOK'
  BY <1>1, <1>2, <1>3, <1>4, <1>5, TreeFacts, AncestorsType
     DEF TypeOK, CoreIdle, GcIdle, NoAnswer
<1>7. DiskInv'
  BY <1>1, <1>4 DEF DiskInv, top
<1>8. AnswerInv'
  BY <1>4 DEF AnswerInv, RecentIsServed, NoAnswer
<1>9. StoreInv'
  BY <1>2, <1>4, <1>5, NamedAreBelow, AncestorsType DEF StoreInv, Chain
<1>10. CoreInv'
  BY <1>2, <1>4, AncestorsType DEF CoreInv, CoreIdle
<1>11. FileInv'
  BY <1>1, <1>2, <1>4, NamedAreBelow, AncestorsType DEF FileInv, CoreIdle, Chain, DiskInv
<1>12. GcInv'
  BY <1>4 DEF GcInv, GcIdle
<1> QED BY <1>6, <1>7, <1>8, <1>9, <1>10, <1>11, <1>12 DEF StorageInv

\* The steps of a process that runs.
StateInv == TypeOK /\ DiskInv /\ AnswerInv /\ StoreInv /\ CoreInv /\ FileInv /\ GcInv

LEMMA InsertBlockInv ==
  ASSUME StateInv, NEW b \in Blocks, insert_block(b)
  PROVE  StateInv'
<1> USE DEF insert_block, coreVars, diskVars
<1>1. TypeOK'
  BY TreeFacts DEF StateInv, TypeOK
<1>2. DiskInv'
  BY DEF StateInv, DiskInv, top
<1>3. AnswerInv'
  BY DEF StateInv, AnswerInv, RecentIsServed
<1>4. StoreInv'
  BY DEF StateInv, StoreInv, Old
<1>5. CoreInv'
  BY DEF StateInv, CoreInv, top
<1>6. FileInv'
  BY DEF StateInv, FileInv, Old
<1>7. GcInv'
  BY DEF StateInv, GcInv, Old
<1> QED BY <1>1, <1>2, <1>3, <1>4, <1>5, <1>6, <1>7 DEF StateInv

LEMMA UpdateInv ==
  ASSUME StateInv, NEW b \in Blocks, update(b)
  PROVE  StateInv'
<1> DEFINE b2 == Justify[b]
           b1 == Justify[b2]
<1>1. /\ core.pc = "idle" /\ b \in block_cache \ {Genesis}
      /\ b2 \notin decided /\ b1 \notin decided
      /\ core' = [pc |-> "write", on |-> b2, at |-> b_lock'] /\ b_lock' \in {b1, b_lock}
      /\ UNCHANGED <<up, crashes, block_cache, bodies, flushed, written, decided, b_exec, tx,
                     gc_list_buffer, gc_list, height_to_gc, gc, answer, file, data, metadata>>
  BY DEF update, gcVars, diskVars
<1>2. Genesis \in decided
  BY AncestorsType DEF StateInv, CoreInv, TypeOK
<1>3. b2 \in Blocks /\ b2 \in block_cache
  BY <1>1, <1>2, TreeFacts DEF StateInv, StoreInv, Nodes
<1>4. b1 \in Blocks /\ b1 \in block_cache
  BY <1>1, <1>2, <1>3, TreeFacts DEF StateInv, StoreInv, Nodes
<1> HIDE DEF b2, b1
<1>5. TypeOK'
  BY <1>1, <1>3, <1>4, TreeFacts DEF StateInv, TypeOK
<1>6. DiskInv'
  BY <1>1 DEF StateInv, DiskInv, top
<1>7. AnswerInv'
  BY <1>1 DEF StateInv, AnswerInv, RecentIsServed
<1>8. StoreInv'
  BY <1>1 DEF StateInv, StoreInv, Old
<1>9. CoreInv'
  BY <1>1, <1>3, <1>4 DEF StateInv, CoreInv, top, b1
<1>10. FileInv'
  BY <1>1 DEF StateInv, FileInv, Old
<1>11. GcInv'
  BY <1>1 DEF StateInv, GcInv, Old
<1> QED BY <1>5, <1>6, <1>7, <1>8, <1>9, <1>10, <1>11 DEF StateInv

LEMMA WriteToDiskInv ==
  ASSUME StateInv, write_to_disk
  PROVE  StateInv'
<1>1. /\ core.pc = "write"
      /\ UNCHANGED <<up, crashes, block_cache, bodies, flushed, decided, b_lock, b_exec, tx,
                     gc_list_buffer, gc_list, height_to_gc, gc, answer, data, metadata>>
  BY DEF write_to_disk, gcVars
<1>2. core.at \in Nodes /\ core \in [pc : {"idle", "write", "save", "commit", "persist", "prune"},
                                    on : Nodes, at : Nodes]
  BY DEF StateInv, TypeOK
<1>3. CASE core.at \in written
  <2>1. core' = [core EXCEPT !.pc = "commit"] /\ written' = written /\ file' = file
    BY <1>3 DEF write_to_disk
  <2>2. core'.pc = "commit" /\ core'.on = core.on /\ core'.at = core.at
    BY <1>2, <2>1
  <2>3. TypeOK'
    BY <1>1, <1>2, <2>1 DEF StateInv, TypeOK
  <2>4. DiskInv'
    BY <1>1, <2>1 DEF StateInv, DiskInv, top
  <2>5. CoreInv'
    BY <1>1, <2>2 DEF StateInv, CoreInv, top
  <2>6. FileInv'
    BY <1>1, <1>3, <2>1, <2>2 DEF StateInv, FileInv, Old
  <2> QED BY <1>1, <2>3, <2>4, <2>5, <2>6
          DEF StateInv, AnswerInv, RecentIsServed, StoreInv, GcInv, Old
<1>4. CASE core.at \notin written
  <2>1. /\ core' = [core EXCEPT !.pc = "save"] /\ written' = written \union {core.at}
        /\ file' = [file EXCEPT ![core.at] = "cut"]
    BY <1>4 DEF write_to_disk
  <2>2. core'.pc = "save" /\ core'.on = core.on /\ core'.at = core.at
    BY <1>2, <2>1
  <2>3. core.at \notin decided /\ core.at \in Blocks
    BY <1>4, <1>2, AncestorsType DEF StateInv, FileInv, CoreInv, TypeOK, Nodes
  <2>4. file' \in [Blocks -> {"none", "cut", "whole", "bodiless"}]
        /\ \A b \in Blocks \ {core.at} : file'[b] = file[b]
    BY <2>1, <2>3 DEF StateInv, TypeOK
  <2>5. TypeOK'
    BY <1>1, <1>2, <2>1, <2>4 DEF StateInv, TypeOK
  <2>6. DiskInv'
    <3>1. top \in Nodes /\ Chain(top) \subseteq decided /\ Chain(top) \subseteq Blocks
      BY <1>1, AncestorsType DEF StateInv, CoreInv, DiskInv, Chain, Nodes
    <3>2. \A b \in Chain(top) : file'[b] = "whole"
      BY <3>1, <2>3, <2>4 DEF StateInv, DiskInv
    <3> QED BY <1>1, <3>2 DEF StateInv, DiskInv, top
  <2>7. CoreInv'
    BY <1>1, <2>2 DEF StateInv, CoreInv, top
  <2>8. FileInv'
    <3>1. \A b \in written \ {Genesis} : b \in Blocks \ {core.at}
      BY <1>4 DEF StateInv, TypeOK, Nodes
    <3> QED BY <1>1, <2>1, <2>2, <2>3, <2>4, <3>1 DEF StateInv, FileInv, Old
  <2> QED BY <1>1, <2>5, <2>6, <2>7, <2>8
          DEF StateInv, AnswerInv, RecentIsServed, StoreInv, GcInv, Old
<1> QED BY <1>3, <1>4

LEMMA SaveBlockInv ==
  ASSUME StateInv, save_block
  PROVE  StateInv'
<1>1. /\ core.pc = "save"
      /\ file' = [file EXCEPT ![core.at] = save_xdr_to_file(core.at)]
      /\ core' = [core EXCEPT !.pc = "write", !.at = Parent[core.at]]
      /\ UNCHANGED <<up, crashes, block_cache, bodies, flushed, written, decided, b_lock, b_exec,
                     tx, gc_list_buffer, gc_list, height_to_gc, gc, answer, data, metadata>>
  BY DEF save_block, gcVars
<1>2. core \in [pc : {"idle", "write", "save", "commit", "persist", "prune"},
               on : Nodes, at : Nodes]
  BY DEF StateInv, TypeOK
<1>3. core'.pc = "write" /\ core'.on = core.on /\ core'.at = Parent[core.at]
  BY <1>1, <1>2
<1>4. core.at \in Blocks /\ core.at \in written \ decided /\ core.at \in block_cache
  BY <1>1, <1>2, AncestorsType DEF StateInv, FileInv, CoreInv, TypeOK, Nodes
<1>5. /\ file' \in [Blocks -> {"none", "cut", "whole", "bodiless"}]
      /\ \A b \in Blocks \ {core.at} : file'[b] = file[b]
      /\ file'[core.at] = "whole" \/ Old(core.at)
  BY <1>1, <1>4, TreeFacts DEF StateInv, TypeOK, StoreInv, save_xdr_to_file
<1>6. TypeOK'
  BY <1>1, <1>2, <1>4, <1>5, TreeFacts DEF StateInv, TypeOK
<1>7. DiskInv'
  <2>1. top \in Nodes /\ Chain(top) \subseteq decided /\ Chain(top) \subseteq Blocks
    BY <1>1, AncestorsType DEF StateInv, CoreInv, DiskInv, Chain, Nodes
  <2>2. \A b \in Chain(top) : file'[b] = "whole"
    BY <2>1, <1>4, <1>5 DEF StateInv, DiskInv
  <2> QED BY <1>1, <2>2 DEF StateInv, DiskInv, top
<1>8. CoreInv'
  BY <1>1, <1>3, <1>4, TreeFacts DEF StateInv, CoreInv, StoreInv, top
<1>9. FileInv'
  <2>1. \A b \in written \ {Genesis} : b \in Blocks
    BY DEF StateInv, TypeOK, Nodes
  <2>2. \A b \in written \ {Genesis} : Parent[b] \in written \/ core'.at = Parent[b]
    BY <1>1, <1>3 DEF StateInv, FileInv
  <2>3. \A b \in written \ {Genesis} : file'[b] = "whole" \/ (b \notin decided /\ Old(b))
    BY <1>1, <1>4, <1>5, <2>1 DEF StateInv, FileInv
  <2> QED BY <1>1, <1>3, <2>2, <2>3 DEF StateInv, FileInv, Old
<1> QED BY <1>1, <1>6, <1>7, <1>8, <1>9
        DEF StateInv, AnswerInv, RecentIsServed, StoreInv, GcInv, Old

\* When nothing is being written, what is below a written block is written.
LEMMA WrittenClosed ==
  ASSUME StateInv, core.pc \notin {"write", "save"}, NEW b \in written
  PROVE  Ancestors[b] \subseteq written
<1> DEFINE S == {c \in Nodes : c \in written => Ancestors[c] \subseteq written}
<1>1. written \subseteq Nodes
  BY DEF StateInv, TypeOK
<1>2. Genesis \in S
  BY AncestorsOfGenesis, TreeFacts
<1>3. ASSUME NEW c \in Blocks, Parent[c] \in S PROVE c \in S
  <2>1. c \in written => Parent[c] \in written
    BY TreeFacts DEF StateInv, FileInv
  <2> QED BY <1>3, <2>1, AncestorsOfBlock, TreeFacts
<1>4. b \in S
  BY <1>1, <1>2, <1>3, TreeInduction
<1> QED BY <1>4

LEMMA PruneHeight ==
  ASSUME NEW h \in Nat, NEW g \in Nat, h <= g
  PROVE  /\ prune_height(h) \in Nat /\ prune_height(h) <= prune_height(g)
         /\ \A n \in Nat : n < prune_height(h) => n + KeepDepth < h
  BY StorageAssumption DEF prune_height

LEMMA CommitInv ==
  ASSUME StateInv, commit
  PROVE  StateInv'
<1> DEFINE b2 == core.on
           b1 == Justify[b2]
           b  == Justify[b1]
<1>1. /\ core.pc = "commit"
      /\ UNCHANGED <<up, crashes, block_cache, bodies, flushed, written, b_lock, gc_list_buffer,
                     gc_list, height_to_gc, gc, answer, file, data, metadata>>
  BY DEF commit, gcVars, diskVars
<1>2. b_exec \in Nodes /\ decided = Ancestors[b_exec] /\ top = b_exec /\ Genesis \in block_cache
  BY <1>1 DEF StateInv, TypeOK, CoreInv, StoreInv
<1>3. CASE core' = CoreIdle /\ UNCHANGED <<decided, b_exec, tx>>
  <2>1. TypeOK'
    BY <1>1, <1>3, TreeFacts DEF StateInv, TypeOK, CoreIdle
  <2>2. DiskInv'
    BY <1>1, <1>3 DEF StateInv, DiskInv, top
  <2>3. CoreInv'
    BY <1>1, <1>2, <1>3 DEF StateInv, CoreInv, CoreIdle, top
  <2>4. FileInv'
    BY <1>1, <1>3 DEF StateInv, FileInv, CoreIdle, Old
  <2> QED BY <1>1, <1>3, <2>1, <2>2, <2>3, <2>4
          DEF StateInv, AnswerInv, RecentIsServed, StoreInv, GcInv, Old
<1>4. CASE /\ b \notin decided /\ b_exec \in Ancestors[b] /\ b \in Ancestors[b_lock]
           /\ decided' = decided \union commit_queue(b) /\ b_exec' = b
           /\ tx' = set_qc_on_top_block(add_decided_block(open_txn, commit_queue(b)), b)
           /\ core' = [core EXCEPT !.pc = "persist"]
  <2>1. b1 \in Blocks /\ b \in Nodes
    BY <1>1, TreeFacts DEF StateInv, CoreInv
  <2>2. b \in Blocks
    BY <2>1, <1>2, <1>4, AncestorsType DEF Nodes
  <2> HIDE DEF b
  <2>3. core \in [pc : {"idle", "write", "save", "commit", "persist", "prune"},
                 on : Nodes, at : Nodes]
    BY DEF StateInv, TypeOK
  <2>4. core'.pc = "persist" /\ core'.on = core.on /\ core'.at = core.at
    BY <1>4, <2>3
  <2>5. commit_queue(b) = Ancestors[b] \ Ancestors[b_exec]
    <3>1. ASSUME NEW a \in Ancestors[b]
          PROVE  Height[a] > Height[b_exec] <=> a \notin Ancestors[b_exec]
      <4>1. a \in Nodes /\ Height[a] \in Nat /\ Height[b_exec] \in Nat
        BY <2>1, <1>2, AncestorsType, TreeFacts
      <4>2. Height[a] <= Height[b_exec] => a \in Ancestors[b_exec]
        BY <2>1, <1>4, AncestorsLinear
      <4>3. a \in Ancestors[b_exec] => Height[a] <= Height[b_exec]
        BY <4>1, <1>2, AncestorsLower
      <4> QED BY <4>1, <4>2, <4>3
    <3> QED BY <3>1 DEF commit_queue
  <2>6. Ancestors[b_exec] \subseteq Ancestors[b] /\ decided' = Ancestors[b] /\ decided \subseteq decided'
    BY <1>2, <1>4, <2>1, <2>5, AncestorsClosed
  <2>7. Height[b_exec] \in Nat /\ Height[b] \in Nat /\ Height[b_exec] <= Height[b]
    BY <1>2, <1>4, <2>1, AncestorsLower, TreeFacts
  <2>8. \A a \in Nodes : Old(a) => Old(a)'
    BY <1>4, <2>7, TreeFacts, StorageAssumption DEF Old
  <2>9. tx' = [data |-> TableOf(b), metadata |-> put(metadata, "qc", b)]
    <3>1. open_txn = [data |-> TableOf(b_exec), metadata |-> metadata]
      BY <1>2 DEF open_txn, StateInv, DiskInv
    <3>2. add_decided_block(open_txn, commit_queue(b)) = [data |-> TableOf(b), metadata |-> metadata]
      BY <1>4, <2>1, <2>5, <3>1, TableExtends
    <3> QED BY <1>4, <3>2 DEF set_qc_on_top_block
  <2>10. TypeOK'
    BY <1>1, <1>4, <2>1, <2>3, <2>6, AncestorsType DEF StateInv, TypeOK
  <2>11. DiskInv'
    BY <1>1 DEF StateInv, DiskInv, top
  <2>12. StoreInv'
    BY <1>1, <2>8 DEF StateInv, StoreInv, TypeOK
  <2>13. CoreInv'
    <3>1. top' = b_exec
      BY <1>1, <1>2 DEF top
    <3> QED BY <1>1, <1>4, <2>2, <2>4, <2>6, <2>9, <3>1 DEF StateInv, CoreInv
  <2>14. FileInv'
    <3>1. b_lock \in written /\ Ancestors[b_lock] \subseteq written /\ b_lock \in Nodes
      BY <1>1, WrittenClosed DEF StateInv, FileInv, TypeOK
    <3>2. decided' \subseteq written
      BY <3>1, <2>6, <1>4, AncestorsClosed
    <3>3. ASSUME NEW a \in written \ {Genesis}
          PROVE  file[a] = "whole" \/ (a \notin decided' /\ Old(a)')
      <4>1. a \in Nodes /\ (file[a] = "whole" \/ (a \notin decided /\ Old(a)))
        BY <1>1 DEF StateInv, FileInv, TypeOK
      <4>2. Old(a) => Height[a] <= Height[b_exec]
        BY <4>1, <2>7, TreeFacts, StorageAssumption DEF Old
      <4>3. Old(a) => a \notin commit_queue(b)
        BY <4>1, <4>2, <2>7, TreeFacts DEF commit_queue
      <4> QED BY <4>1, <4>3, <1>4, <2>8
    <3>4. \A a \in written \ {Genesis} : Parent[a] \in written
      BY <1>1 DEF StateInv, FileInv
    <3> QED BY <1>1, <2>4, <3>1, <3>2, <3>3, <3>4 DEF FileInv
  <2>15. GcInv'
    <3>1. prune_height(Height[b_exec]) <= prune_height(Height[b])
          /\ prune_height(Height[b_exec]) \in Nat /\ prune_height(Height[b]) \in Nat
      BY <2>7, PruneHeight
    <3>2. gc.clearing # None => gc.clearing \in Nodes
      BY TreeFacts DEF StateInv, TypeOK
    <3>3. /\ height_to_gc # None => height_to_gc \in Nat
          /\ gc.below # None => gc.below \in Nat
      BY DEF StateInv, TypeOK
    <3> QED BY <1>1, <1>4, <2>8, <3>1, <3>2, <3>3 DEF StateInv, GcInv
  <2>16. AnswerInv'
    BY <1>1, <2>8 DEF StateInv, AnswerInv, RecentIsServed, TypeOK, Old
  <2> QED BY <2>10, <2>11, <2>12, <2>13, <2>14, <2>15, <2>16 DEF StateInv
<1> QED BY <1>3, <1>4 DEF commit

LEMMA PersistInv ==
  ASSUME StateInv, persist
  PROVE  StateInv'
<1> DEFINE n == get_persisted_round_number + 1
<1>1. /\ core.pc = "persist" /\ core' = [core EXCEPT !.pc = "prune"]
      /\ data' = tx.data /\ metadata' = write_persisted_round_number(tx, n).metadata
      /\ UNCHANGED <<up, crashes, block_cache, bodies, flushed, written, decided, b_lock, b_exec,
                     gc_list_buffer, gc_list, height_to_gc, gc, answer, file>>
  BY DEF persist, commit_wtxn, gcVars
<1>2. core \in [pc : {"idle", "write", "save", "commit", "persist", "prune"},
               on : Nodes, at : Nodes] /\ b_exec \in Nodes
  BY DEF StateInv, TypeOK
<1>3. core'.pc = "prune" /\ core'.on = core.on /\ core'.at = core.at
  BY <1>1, <1>2
<1>4. /\ b_exec \in Blocks /\ decided = Ancestors[b_exec]
      /\ tx = [data |-> TableOf(b_exec), metadata |-> put(metadata, "qc", b_exec)]
  BY <1>1 DEF StateInv, CoreInv
<1>5. get_persisted_round_number \in Nat
  BY DEF StateInv, DiskInv, get_persisted_round_number, get
<1>6. /\ data' = TableOf(b_exec)
      /\ metadata' = put(put(metadata, "qc", b_exec), "persisted_block", n)
  BY <1>1, <1>4 DEF write_persisted_round_number
<1>7. /\ DOMAIN metadata' = DOMAIN metadata \union {"qc", "persisted_block"}
      /\ metadata'["qc"] = b_exec /\ metadata'["persisted_block"] = n
      /\ metadata' = [key \in DOMAIN metadata' |-> metadata'[key]]
  <2> HIDE DEF n
  <2> QED BY <1>6 DEF put
<1>8. top' = b_exec
  BY <1>7 DEF top
<1>9. TypeOK'
  BY <1>1, <1>2 DEF StateInv, TypeOK
<1>10. DiskInv'
  <2>1. n \in Nat /\ n # 0
    BY <1>5
  <2>2. \A b \in Chain(b_exec) : file[b] = "whole"
    BY <1>1, <1>4 DEF StateInv, FileInv, Chain
  <2> HIDE DEF n
  <2> QED BY <1>1, <1>2, <1>4, <1>6, <1>7, <1>8, <2>1, <2>2 DEF DiskInv
<1>11. CoreInv'
  BY <1>1, <1>3, <1>4, <1>8 DEF StateInv, CoreInv
<1>12. FileInv'
  BY <1>1, <1>3 DEF StateInv, FileInv, Old
<1> QED BY <1>1, <1>9, <1>10, <1>11, <1>12
        DEF StateInv, AnswerInv, RecentIsServed, StoreInv, GcInv, Old

LEMMA NotifyInv ==
  ASSUME StateInv, notify_ok_to_prune_blocks
  PROVE  StateInv'
<1>1. /\ core.pc = "prune" /\ core' = CoreIdle /\ height_to_gc' = prune_height(Height[b_exec])
      /\ UNCHANGED <<up, crashes, block_cache, bodies, flushed, written, decided, b_lock, b_exec,
                     tx, gc_list_buffer, gc_list, gc, answer, file, data, metadata>>
  BY DEF notify_ok_to_prune_blocks, diskVars
<1>2. prune_height(Height[b_exec]) \in Nat
  BY PruneHeight, TreeFacts DEF StateInv, TypeOK
<1>3. TypeOK'
  BY <1>1, <1>2, TreeFacts DEF StateInv, TypeOK, CoreIdle
<1>4. DiskInv'
  BY <1>1 DEF StateInv, DiskInv, top
<1>5. CoreInv'
  BY <1>1 DEF StateInv, CoreInv, StoreInv, CoreIdle, top
<1>6. FileInv'
  BY <1>1 DEF StateInv, FileInv, CoreIdle, Old
<1>7. GcInv'
  BY <1>1, <1>2 DEF StateInv, GcInv, Old
<1> QED BY <1>1, <1>3, <1>4, <1>5, <1>6, <1>7
        DEF StateInv, AnswerInv, RecentIsServed, StoreInv, Old

\* What the collector's and the server's threads do leaves the disk and the core alone.
LEMMA OtherThreadsInv ==
  ASSUME StateInv, TypeOK', AnswerInv', StoreInv', GcInv',
         UNCHANGED <<block_cache, written, decided, b_lock, b_exec, core, tx, file, data, metadata>>
  PROVE  StateInv'
<1>1. DiskInv'
  BY DEF StateInv, DiskInv, top
<1>2. CoreInv'
  BY DEF StateInv, CoreInv, top
<1>3. FileInv'
  BY DEF StateInv, FileInv, Old
<1> QED BY <1>1, <1>2, <1>3 DEF StateInv

LEMMA CollectInv ==
  ASSUME StateInv, collect
  PROVE  StateInv'
<1>1. CASE run
  <2> USE <1>1 DEF run, coreVars, diskVars
  <2>1. TypeOK'
    BY DEF StateInv, TypeOK, request_after_run
  <2>2. AnswerInv' /\ StoreInv'
    BY DEF StateInv, AnswerInv, RecentIsServed, StoreInv, Old
  <2>3. GcInv'
    BY DEF StateInv, TypeOK, GcInv, Old, request_after_run
  <2> QED BY <2>1, <2>2, <2>3, OtherThreadsInv
<1>2. CASE \E b \in Blocks : flush_from_memory(b)
  <2>1. PICK b \in Blocks : flush_from_memory(b)
    BY <1>2
  <2> USE <2>1 DEF flush_from_memory, coreVars, diskVars
  <2>2. TypeOK'
    BY TreeFacts DEF StateInv, TypeOK
  <2>3. Old(b)
    <3>1. Height[b_exec] \in Nat /\ Height[b] \in Nat /\ b_exec \in Nodes
      BY TreeFacts DEF StateInv, TypeOK
    <3>2. gc.below \in Nat \union {-1} /\ Height[b] < gc.below
      BY DEF garbage, StateInv, TypeOK, None
    <3>3. gc.below <= prune_height(Height[b_exec]) /\ gc.below \in Nat
      BY <3>1, <3>2 DEF StateInv, GcInv, None
    <3>4. Height[b] < prune_height(Height[b_exec])
      BY <3>1, <3>2, <3>3, PruneHeight
    <3> QED BY <3>1, <3>4, PruneHeight DEF Old
  <2>4. AnswerInv' /\ StoreInv'
    BY <2>3 DEF StateInv, AnswerInv, RecentIsServed, StoreInv, Old
  <2>5. GcInv'
    BY <2>3 DEF StateInv, TypeOK, GcInv, Old
  <2> QED BY <2>2, <2>4, <2>5, OtherThreadsInv
<1>3. CASE clear_body
  <2> USE <1>3 DEF clear_body, coreVars, diskVars
  <2>1. TypeOK'
    BY DEF StateInv, TypeOK
  <2>2. Old(gc.clearing)
    BY DEF StateInv, GcInv
  <2>3. AnswerInv' /\ StoreInv'
    BY <2>2 DEF StateInv, AnswerInv, RecentIsServed, StoreInv, Old
  <2>4. GcInv'
    BY DEF StateInv, TypeOK, GcInv, Old
  <2> QED BY <2>1, <2>3, <2>4, OtherThreadsInv
<1>4. CASE do_gc_ends
  <2> USE <1>4 DEF do_gc_ends, coreVars, diskVars
  <2>1. TypeOK'
    BY DEF StateInv, TypeOK, GcIdle, request_after_run
  <2>2. AnswerInv' /\ StoreInv'
    BY DEF StateInv, AnswerInv, RecentIsServed, StoreInv, Old
  <2>3. GcInv'
    BY DEF StateInv, GcInv, GcIdle, request_after_run
  <2> QED BY <2>1, <2>2, <2>3, OtherThreadsInv
<1> QED BY <1>1, <1>2, <1>3, <1>4 DEF collect

LEMMA ServerInv ==
  ASSUME StateInv, to_wire \/ receive_answer \/ \E b \in Blocks : fetch(b)
  PROVE  StateInv'
<1> USE DEF coreVars, gcVars, diskVars
<1>1. UNCHANGED <<up, crashes, block_cache, bodies, flushed, written, decided, b_lock, b_exec, core,
                  tx, gc_list_buffer, gc_list, height_to_gc, gc, file, data, metadata>>
  BY DEF to_wire, receive_answer, fetch
<1>2. /\ answer \in [state : {"none", "checked", "sent", "accepted"}, block : Nodes,
                     body : {"none", "whole", "torn"}]
      /\ AnswerInv /\ StoreInv
  BY DEF StateInv, TypeOK
<1>3. /\ answer' \in [state : {"none", "checked", "sent", "accepted"}, block : Nodes,
                      body : {"none", "whole", "torn"}]
      /\ AnswerInv'
  <2>1. CASE to_wire
    <3>1. answer.state = "checked" /\ answer.block \in block_cache \ {Genesis}
      BY <2>1, <1>2 DEF to_wire, AnswerInv
    <3>2. answer' = [answer EXCEPT !.state = "sent",
                       !.body = IF answer.block \in bodies THEN "whole" ELSE "torn"]
      BY <2>1 DEF to_wire
    <3>3. /\ answer'.state = "sent" /\ answer'.block = answer.block
          /\ answer'.body = IF answer.block \in bodies THEN "whole" ELSE "torn"
      BY <1>2, <3>2
    <3>4. answer.block \in bodies \/ Old(answer.block)
      BY <3>1, <1>2 DEF StoreInv
    <3>5. answer' \in [state : {"none", "checked", "sent", "accepted"}, block : Nodes,
                      body : {"none", "whole", "torn"}]
      BY <1>2, <3>2
    <3>6. AnswerInv'
      BY <1>1, <3>3, <3>4 DEF AnswerInv, RecentIsServed, Old
    <3> QED BY <3>5, <3>6
  <2>2. CASE receive_answer
    <3>1. \/ answer' = NoAnswer
          \/ answer.body = "whole" /\ answer' = [NoAnswer EXCEPT !.state = "accepted", !.body = "whole"]
      BY <2>2 DEF receive_answer, validate_hash
    <3>2. CASE answer' = NoAnswer
      BY <1>1, <3>2, TreeFacts DEF AnswerInv, RecentIsServed, NoAnswer
    <3>3. CASE answer' = [NoAnswer EXCEPT !.state = "accepted", !.body = "whole"]
      <4>1. answer' = [state |-> "accepted", block |-> Genesis, body |-> "whole"]
        BY <3>3 DEF NoAnswer
      <4> QED BY <1>1, <4>1, TreeFacts DEF AnswerInv, RecentIsServed
    <3> QED BY <3>1, <3>2, <3>3
  <2>3. CASE \E b \in Blocks : fetch(b)
    <3>1. PICK b \in Blocks : fetch(b)
      BY <2>3
    <3>2. b \in block_cache \ {Genesis} /\ b \in Nodes
      BY <3>1, TreeFacts DEF fetch, get_block
    <3>3. answer' = [state |-> IF b \in flushed THEN "sent" ELSE "checked",
                     block |-> b, body |-> "none"]
      BY <3>1 DEF fetch
    <3>4. b \in flushed => Old(b)
      BY <3>2, <1>2 DEF StoreInv
    <3> QED BY <1>1, <3>2, <3>3, <3>4 DEF AnswerInv, RecentIsServed, Old
  <2> QED BY <2>1, <2>2, <2>3
<1>4. TypeOK'
  BY <1>1, <1>3 DEF StateInv, TypeOK
<1>5. StoreInv' /\ GcInv'
  BY <1>1 DEF StateInv, StoreInv, GcInv, Old
<1> QED BY <1>1, <1>3, <1>4, <1>5, OtherThreadsInv

LEMMA StepInv == StorageInv /\ [Next]_vars => StorageInv'
<1> SUFFICES ASSUME StorageInv, [Next]_vars PROVE StorageInv'
  OBVIOUS
<1> DEFINE Works ==
      \/ \E b \in Blocks : insert_block(b) \/ update(b) \/ fetch(b)
      \/ write_to_disk \/ save_block \/ commit \/ persist \/ notify_ok_to_prune_blocks
      \/ collect \/ to_wire \/ receive_answer
<1>1. CASE Works
  <2>1. up
    BY <1>1 DEF insert_block, update, fetch, write_to_disk, save_block, commit, persist,
                notify_ok_to_prune_blocks, collect, run, flush_from_memory, clear_body,
                do_gc_ends, to_wire, receive_answer
  <2>2. StateInv
    BY <2>1 DEF StorageInv, StateInv
  <2>3. StateInv'
    BY <1>1, <2>2, InsertBlockInv, UpdateInv, WriteToDiskInv, SaveBlockInv, CommitInv, PersistInv,
       NotifyInv, CollectInv, ServerInv
  <2> QED BY <2>3 DEF StorageInv, StateInv
<1>2. CASE crash
  BY <1>2, CrashInv
<1>3. CASE init_clean
  BY <1>3, InitCleanInv
<1>4. CASE init_from_disk
  BY <1>4, InitFromDiskInv
<1>5. CASE UNCHANGED vars
  BY <1>5 DEF vars, memoryVars, coreVars, gcVars, diskVars, StorageInv, TypeOK, DiskInv, AnswerInv,
              StoreInv, CoreInv, FileInv, GcInv, RecentIsServed, Old, top
<1> QED BY <1>1, <1>2, <1>3, <1>4, <1>5 DEF Next

\* The invariant holds: the index on disk is one branch with its files, memory and
\* disk agree while the process runs, and the collector is behind.
THEOREM Invariant == Spec => []StorageInv
<1>1. StorageInv /\ [Next]_vars => StorageInv'
  BY StepInv
<1> QED BY <1>1, InitInv, PTL DEF Spec

\* Every variable keeps its type, the tables apart.
THEOREM TypeCorrect == Spec => []TypeOK
<1>1. StorageInv => TypeOK
  BY DEF StorageInv
<1> QED BY <1>1, Invariant, PTL

\* A replica that has committed can be killed at every moment and started from
\* disk (reload_decided_blocks, reload_state_from_index, CountingVM::init_from_disk).
THEOREM Restart == Spec => []RestartIsPossible
<1>1. StorageInv => RestartIsPossible
  <2> SUFFICES ASSUME StorageInv, data # NoTable PROVE init_from_disk_ok
    BY DEF RestartIsPossible
  <2>1. DiskInv
    BY DEF StorageInv
  <2>2. "qc" \in DOMAIN metadata
    BY <2>1, TableOfGenesis DEF DiskInv, top
  <2>3. top \in Blocks /\ top \in Nodes /\ data = TableOf(top)
    BY <2>1, <2>2 DEF DiskInv
  <2>4. open_db_ok
    <3>1. "persisted_block" \in DOMAIN metadata /\ metadata["persisted_block"] \in Nat
      BY <2>1, <2>2 DEF DiskInv
    <3> QED BY <3>1 DEF open_db_ok, get, None
  <2>5. ASSUME NEW key \in DOMAIN data
        PROVE  \E b \in Chain(top) : /\ key = Key(b) /\ Head(data[key]) = b
                                     /\ b \in Blocks /\ file[b] = "whole"
    <3>1. PICK b \in Chain(top) : key = Key(b)
      BY <2>3, TableKeys
    <3> QED BY <2>1, <2>3, <3>1, TableValue, ValueOfBlock, NamedAreBelow DEF DiskInv
  <2>6. reload_decided_blocks_ok
    <3> SUFFICES ASSUME NEW key \in DOMAIN data
                 PROVE  LET b == iterator_hash(data[key]) IN
                        /\ load_decided_block_ok(b)
                        /\ {Parent[b], Justify[b]} \subseteq
                             {iterator_hash(data[k]) : k \in forward_cursor(key)} \union {Genesis}
      BY DEF reload_decided_blocks_ok
    <3>1. PICK b \in Chain(top) : /\ key = Key(b) /\ Head(data[key]) = b
                                  /\ b \in Blocks /\ file[b] = "whole"
      BY <2>5
    <3>2. load_decided_block_ok(b)
      BY <3>1 DEF load_decided_block_ok, load_block, load_xdr_from_file
    <3>3. ASSUME NEW a \in {Parent[b], Justify[b]}, a # Genesis
          PROVE  \E k \in forward_cursor(key) : Head(data[k]) = a
      <4>1. a \in Chain(top) /\ Height[a] < Height[b]
        BY <2>3, <3>1, <3>3, NamedAreBelow DEF Chain
      <4>2. Height[a] \in Nat /\ Height[b] \in Nat
        BY <2>3, <3>1, <4>1, NamedAreBelow, TreeFacts
      <4>3. Key(a) \in DOMAIN data /\ Head(data[Key(a)]) = a
        BY <2>3, <4>1, TableValue, ValueOfBlock
      <4>4. KeyBefore(Key(a), key)
        BY <3>1, <4>1, <4>2, KeysOrdered DEF Key
      <4> QED BY <4>3, <4>4 DEF forward_cursor
    <3> QED BY <3>1, <3>2, <3>3 DEF iterator_hash
  <2>7. reload_state_ok
    <3>1. get(metadata, "qc") = top /\ top \in Chain(top) /\ top # None
      BY <2>2, <2>3, AncestorsType, TreeFacts DEF get, top, Chain
    <3> QED BY <2>1, <3>1, IndexIsChain DEF reload_state_ok, get_highest_qc_ok
  <2>8. vm_init_from_disk_ok
    BY <2>5 DEF vm_init_from_disk_ok, get_hs_hash_and_vm_data, load_vm_block_ok, load_block,
                load_xdr_from_file
  <2> QED BY <2>4, <2>6, <2>7, <2>8 DEF init_from_disk_ok
<1> QED BY <1>1, Invariant, PTL

\* A peer that asks for a block gets it whole or, if the block is old, not at all,
\* whatever the collector does meanwhile (BlockFetchHandler::fetch).
THEOREM Served == Spec => []RecentIsServed
<1>1. StorageInv => RecentIsServed
  BY DEF StorageInv, AnswerInv
<1> QED BY <1>1, Invariant, PTL

\* Neither a commit nor a start of either kind takes anything back from the index
\* or lowers the persisted round (commit_wtxn, create_db).
THEOREM IndexGrows == Spec => IndexOnlyGrows
<1> DEFINE Grows ==
      /\ \A key \in DOMAIN data : key \in DOMAIN data' /\ data'[key] = data[key]
      /\ get_persisted_round_number <= get_persisted_round_number'
<1>1. StorageInv /\ [Next]_vars => [Grows]_vars
  <2> SUFFICES ASSUME StorageInv, Next PROVE Grows
    OBVIOUS
  <2>1. DiskInv /\ get_persisted_round_number \in Nat
    BY DEF StorageInv, DiskInv, get_persisted_round_number, get
  <2>2. CASE persist
    <3>1. StateInv
      BY <2>2 DEF persist, StorageInv, StateInv
    <3>2. b_exec \in Nodes /\ top \in Ancestors[b_exec]
          /\ tx = [data |-> TableOf(b_exec), metadata |-> put(metadata, "qc", b_exec)]
      BY <2>2, <3>1 DEF persist, StateInv, CoreInv, TypeOK
    <3>3. data' = TableOf(b_exec) /\ data = TableOf(top)
      BY <2>1, <2>2, <3>2 DEF persist, commit_wtxn, DiskInv
    <3>4. get_persisted_round_number' = get_persisted_round_number + 1
      <4> DEFINE n == get_persisted_round_number + 1
      <4>1. metadata' = put(put(metadata, "qc", b_exec), "persisted_block", n)
        BY <2>2, <3>2 DEF persist, commit_wtxn, write_persisted_round_number
      <4>2. "persisted_block" \in DOMAIN metadata' /\ metadata'["persisted_block"] = n
        <5> HIDE DEF n
        <5> QED BY <4>1 DEF put
      <4> QED BY <4>2, <2>1 DEF get_persisted_round_number, get, None
    <3> QED BY <2>1, <3>2, <3>3, <3>4, TableGrows
  <2>3. CASE init_clean
    <3>1. data' = data /\ metadata' = put(metadata, "persisted_block", 0)
      BY <2>3 DEF init_clean, write_persisted_round_number, open_txn
    <3>2. get_persisted_round_number = 0
      BY <2>3 DEF init_clean, create_db_ok, get_persisted_round_number
    <3>3. metadata'["persisted_block"] = 0 /\ "persisted_block" \in DOMAIN metadata'
      BY <3>1 DEF put
    <3>4. get_persisted_round_number' = 0
      BY <3>3 DEF get_persisted_round_number, get, None
    <3> QED BY <3>1, <3>2, <3>4
  <2>4. CASE UNCHANGED <<data, metadata>>
    <3>1. get_persisted_round_number' = get_persisted_round_number
      BY <2>4 DEF get_persisted_round_number, get
    <3> QED BY <2>1, <2>4, <3>1
  <2>5. persist \/ init_clean \/ UNCHANGED <<data, metadata>>
    BY DEF Next, insert_block, update, fetch, write_to_disk, save_block, commit,
           notify_ok_to_prune_blocks, collect, run, flush_from_memory, clear_body, do_gc_ends,
           to_wire, receive_answer, crash, init_from_disk, diskVars
  <2> QED BY <2>2, <2>3, <2>4, <2>5
<1>2. IndexOnlyGrows <=> [][Grows]_vars
  BY DEF IndexOnlyGrows
<1> QED BY <1>1, <1>2, Invariant, PTL DEF Spec
=============================================================================
