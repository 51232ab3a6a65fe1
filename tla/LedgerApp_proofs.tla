-------------------------- MODULE LedgerApp_proofs --------------------------
(***************************************************************************)
(* The leader's REST interface is an append-only log, its slot never holds *)
(* a stale certificate, and the ledger has the order of confirmed_hashes,  *)
(* however many hashes are appended.                                       *)
(***************************************************************************)
EXTENDS LedgerApp, SequenceTheorems, NaturalsInduction, WellFoundedInduction, TLAPS

TypeOK ==
    /\ buffer \in Seq(Hashes) /\ confirmed \in Seq(Hashes)
    /\ chain \in Seq(Hashes \union {NoBody})
    /\ hqc \in Nat /\ latest_new_qc \in Nat
    /\ handling \in {<< >>} \union (Hashes \X Nat)
    /\ reply \in {<< >>} \union (Hashes \X Int)
    /\ answer \in [Hashes -> {"none", "true", "false"}]

\* At most the newest block lacks a certificate, and only while its handler waits
\* with an empty slot.
SlotInv ==
    /\ hqc <= Len(chain)
    /\ handling = << >> => hqc = Len(chain) /\ latest_new_qc = NoQC
    /\ handling # << >> => handling[2] = Len(chain) /\ answer[handling[1]] = "none"
    /\ latest_new_qc # NoQC => latest_new_qc = Len(chain) /\ hqc = Len(chain)

\* Every /append has made one block: the first three are empty, and the hashes
\* follow three blocks late.
OrderInv ==
    /\ Len(Pending) = Len(chain)
    /\ Len(buffer) = IF Len(chain) <= 3 THEN Len(chain) ELSE 3
    /\ \A i \in 1 .. Len(chain) : i <= 3 => chain[i] = NoBody
    /\ \A i \in 1 .. Len(chain) : i > 3 => chain[i] = Pending[i - 3]
    /\ \A i \in 1 .. Len(buffer) : buffer[i] = Pending[Len(Pending) + 1 - i]

\* What /get_index has reported is still the position of the hash.
ReplyInv ==
    reply # << >> /\ reply[2] # -1 =>
      reply[2] + 1 \in 1 .. Len(confirmed) /\ confirmed[reply[2] + 1] = reply[1]

IInv == TypeOK /\ SlotInv /\ OrderInv /\ ReplyInv

-----------------------------------------------------------------------------
\* A nonempty set of positions has a first one.
LEMMA LeastIndex ==
  ASSUME NEW T \in SUBSET Nat, T # {}
  PROVE  \E x \in T : \A y \in T : x <= y
<1> DEFINE Before == {ss \in Nat \X Nat : ss[1] < ss[2]}
<1>1. IsWellFoundedOn(Before, Nat)
  BY NatLessThanWellFounded, Zenon DEF OpToRel
<1>2. PICK x \in T : \A y \in T : ~(<<y, x>> \in Before)
  <2> HIDE DEF Before
  <2> QED BY <1>1, WFMin
<1>3. \A y \in T : ~(y < x)
  BY <1>2
<1> QED BY <1>3

\* The handler that waits is for a hash, and only it is pending.
LEMMA PendingType ==
  ASSUME TypeOK
  PROVE  /\ Pending \in Seq(Hashes)
         /\ handling = << >> => Pending = confirmed
         /\ handling # << >> =>
              /\ handling[1] \in Hashes /\ handling[2] \in Nat
              /\ Pending = Append(confirmed, handling[1])
<1>1. handling # << >> => handling[1] \in Hashes /\ handling[2] \in Nat
  BY DEF TypeOK
<1>2. confirmed \in Seq(Hashes)
  BY DEF TypeOK
<1> QED BY <1>1, <1>2 DEF Pending

\* /get_index reports a position of the hash in confirmed_hashes, or -1.
LEMMA IndexIsPosition ==
  ASSUME TypeOK, NEW h \in Hashes
  PROVE  /\ getIndex(h) \in Int
         /\ getIndex(h) # -1 => /\ getIndex(h) + 1 \in 1 .. Len(confirmed)
                                /\ confirmed[getIndex(h) + 1] = h
<1> DEFINE Found(i) == confirmed[i] = h /\ \A j \in 1 .. i - 1 : confirmed[j] # h
<1>1. CASE ~ \E i \in 1 .. Len(confirmed) : confirmed[i] = h
  BY <1>1 DEF getIndex
<1>2. CASE \E i \in 1 .. Len(confirmed) : confirmed[i] = h
  <2>1. Len(confirmed) \in Nat
    BY DEF TypeOK
  <2>2. getIndex(h) = (CHOOSE i \in 1 .. Len(confirmed) : Found(i)) - 1
    BY <1>2 DEF getIndex
  <2>3. \E i \in 1 .. Len(confirmed) : Found(i)
    <3> DEFINE T == {i \in 1 .. Len(confirmed) : confirmed[i] = h}
    <3>1. T \in SUBSET Nat /\ T # {}
      BY <1>2, <2>1
    <3>2. PICK i \in T : \A j \in T : i <= j
      <4> HIDE DEF T
      <4> QED BY <3>1, LeastIndex
    <3>3. \A j \in 1 .. i - 1 : confirmed[j] # h
      BY <2>1, <3>2
    <3> QED BY <3>2, <3>3
  <2> QED BY <2>1, <2>2, <2>3
<1> QED BY <1>1, <1>2

LEMMA InitInv == Init => IInv
<1> SUFFICES ASSUME Init PROVE IInv
  OBVIOUS
<1>1. TypeOK
  BY DEF Init, TypeOK, NoQC
<1>2. SlotInv
  BY DEF Init, SlotInv, NoQC
<1>3. OrderInv
  BY DEF Init, OrderInv, Pending
<1>4. ReplyInv
  BY DEF Init, ReplyInv
<1> QED BY <1>1, <1>2, <1>3, <1>4 DEF IInv

\* /append: the hash is put in front of the buffer, and what leaves it at the back
\* is the hash that was appended three calls ago.
LEMMA PostInv ==
  ASSUME IInv, NEW h \in Hashes, post_method_handler(h)
  PROVE  IInv'
<1> DEFINE buf == <<h>> \o buffer
<1>1. /\ handling = << >> /\ answer[h] = "none" /\ handling' = <<h, Len(chain) + 1>>
      /\ chain' = Append(chain, get_next_proposal(buf).body)
      /\ buffer' = get_next_proposal(buf).rest
      /\ UNCHANGED <<hqc, applied, vm_state, latest_new_qc, confirmed, answer, reply>>
  BY DEF post_method_handler, add_proposal
<1>2. /\ buffer \in Seq(Hashes) /\ confirmed \in Seq(Hashes) /\ Len(buffer) \in Nat
      /\ chain \in Seq(Hashes \union {NoBody}) /\ Len(chain) \in Nat /\ Len(confirmed) \in Nat
  BY DEF IInv, TypeOK
<1>3. /\ buf \in Seq(Hashes) /\ Len(buf) = Len(buffer) + 1 /\ buf # << >>
      /\ buf[1] = h /\ \A i \in 2 .. Len(buf) : buf[i] = buffer[i - 1]
  BY <1>2
<1>4. Pending = confirmed /\ Pending' = Append(confirmed, h)
  BY <1>1 DEF Pending
<1>5. Len(confirmed) = Len(chain)
  BY <1>4 DEF IInv, OrderInv
<1>6. /\ Pending' \in Seq(Hashes) /\ Len(Pending') = Len(chain) + 1
      /\ Pending'[Len(chain) + 1] = h
      /\ \A i \in 1 .. Len(chain) : Pending'[i] = Pending[i]
  BY <1>2, <1>4, <1>5
<1>7. /\ Len(buf) = IF Len(chain) <= 3 THEN Len(chain) + 1 ELSE 4
      /\ \A i \in 1 .. Len(buf) : buf[i] = Pending'[Len(chain) + 2 - i]
  <2>1. Len(buf) = IF Len(chain) <= 3 THEN Len(chain) + 1 ELSE 4
    BY <1>2, <1>3 DEF IInv, OrderInv
  <2>2. ASSUME NEW i \in 1 .. Len(buf) PROVE buf[i] = Pending'[Len(chain) + 2 - i]
    <3>1. CASE i = 1
      BY <1>2, <1>3, <1>6, <3>1
    <3>2. CASE i # 1
      <4>1. i - 1 \in 1 .. Len(buffer) /\ buf[i] = buffer[i - 1]
        BY <1>2, <1>3, <3>2
      <4>2. buffer[i - 1] = Pending[Len(chain) + 1 - (i - 1)]
        BY <1>4, <1>5, <4>1 DEF IInv, OrderInv
      <4>3. Len(chain) + 1 - (i - 1) \in 1 .. Len(chain)
        BY <1>2, <2>1, <1>3, <4>1
      <4> QED BY <1>2, <1>6, <4>1, <4>2, <4>3
    <3> QED BY <3>1, <3>2
  <2> QED BY <2>1, <2>2
<1>8. CASE Len(chain) < 3
  <2>1. chain' = Append(chain, NoBody) /\ buffer' = buf
    BY <1>1, <1>2, <1>8 DEF get_next_proposal, supports_nonempty
  <2>2. TypeOK'
    <3>1. chain' \in Seq(Hashes \union {NoBody})
      BY <1>2, <2>1
    <3>2. buffer' \in Seq(Hashes)
      BY <1>3, <2>1
    <3> QED BY <1>1, <1>2, <3>1, <3>2 DEF IInv, TypeOK
  <2>3. Len(chain') = Len(chain) + 1 /\ \A i \in 1 .. Len(chain) : chain'[i] = chain[i]
    BY <1>2, <2>1
  <2>4. SlotInv'
    BY <1>1, <1>2, <2>3 DEF IInv, SlotInv, NoQC
  <2>5. OrderInv'
    <3>1. \A i \in 1 .. Len(chain') : i <= 3 => chain'[i] = NoBody
      BY <1>2, <1>8, <2>1, <2>3 DEF IInv, OrderInv
    <3>2. \A i \in 1 .. Len(chain') : ~(i > 3)
      BY <1>2, <1>8, <2>3
    <3> QED BY <1>2, <1>6, <1>7, <1>8, <2>1, <2>3, <3>1, <3>2 DEF OrderInv
  <2>6. ReplyInv'
    BY <1>1 DEF IInv, ReplyInv
  <2> QED BY <2>2, <2>4, <2>5, <2>6 DEF IInv
<1>9. CASE Len(chain) >= 3
  <2>1. chain' = Append(chain, buf[4]) /\ buffer' = SubSeq(buf, 1, 3) /\ Len(buf) = 4
    BY <1>1, <1>2, <1>3, <1>7, <1>9 DEF get_next_proposal, supports_nonempty
  <2>2. buf[4] \in Hashes
    BY <1>3, <2>1
  <2>3. /\ buffer' \in Seq(Hashes) /\ Len(buffer') = 3
        /\ \A i \in 1 .. 3 : buffer'[i] = buf[i]
    BY <1>3, <2>1
  <2>4. TypeOK'
    <3>1. chain' \in Seq(Hashes \union {NoBody})
      BY <1>2, <2>1, <2>2
    <3> QED BY <1>1, <1>2, <2>3, <3>1 DEF IInv, TypeOK
  <2>5. /\ Len(chain') = Len(chain) + 1 /\ \A i \in 1 .. Len(chain) : chain'[i] = chain[i]
        /\ chain'[Len(chain) + 1] = buf[4]
    <3> DEFINE body == buf[4]
    <3>1. body \in Hashes /\ chain' = Append(chain, body)
      BY <2>1, <2>2
    <3> HIDE DEF body
    <3>2. /\ Len(chain') = Len(chain) + 1 /\ \A i \in 1 .. Len(chain) : chain'[i] = chain[i]
          /\ chain'[Len(chain) + 1] = body
      BY <1>2, <3>1
    <3> QED BY <3>2 DEF body
  <2>6. SlotInv'
    BY <1>1, <1>2, <2>5 DEF IInv, SlotInv, NoQC
  <2>7. OrderInv'
    <3>1. \A i \in 1 .. Len(chain') : i <= 3 => chain'[i] = NoBody
      BY <1>2, <1>9, <2>5 DEF IInv, OrderInv
    <3>2. ASSUME NEW i \in 1 .. Len(chain'), i > 3 PROVE chain'[i] = Pending'[i - 3]
      <4>1. CASE i = Len(chain) + 1
        BY <1>2, <1>7, <2>1, <2>5, <4>1
      <4>2. CASE i # Len(chain) + 1
        <5>1. i \in 1 .. Len(chain) /\ i - 3 \in 1 .. Len(chain)
          BY <1>2, <2>5, <3>2, <4>2
        <5>2. chain[i] = Pending[i - 3]
          BY <3>2, <5>1 DEF IInv, OrderInv
        <5> QED BY <1>6, <2>5, <5>1, <5>2
      <4> QED BY <4>1, <4>2
    <3>3. \A i \in 1 .. Len(buffer') : buffer'[i] = Pending'[Len(Pending') + 1 - i]
      BY <1>2, <1>6, <1>7, <2>1, <2>3
    <3>4. Len(Pending') = Len(chain') /\ Len(buffer') = IF Len(chain') <= 3 THEN Len(chain') ELSE 3
      BY <1>2, <1>6, <1>9, <2>3, <2>5
    <3> QED BY <3>1, <3>2, <3>3, <3>4 DEF OrderInv
  <2>8. ReplyInv'
    BY <1>1 DEF IInv, ReplyInv
  <2> QED BY <2>4, <2>6, <2>7, <2>8 DEF IInv
<1> QED BY <1>2, <1>8, <1>9

\* The wait ends with the certificate of the handler's own block.
LEMMA WaitIsExpected ==
  ASSUME IInv, wait_for_new_qc
  PROVE  /\ handling[1] \in Hashes /\ answer[handling[1]] = "none"
         /\ confirmed' = Append(confirmed, handling[1]) /\ handling' = << >>
         /\ answer' = [answer EXCEPT ![handling[1]] = "true"]
         /\ latest_new_qc' = NoQC /\ hqc = Len(chain)
         /\ UNCHANGED <<buffer, chain, hqc, applied, vm_state, reply>>
<1>1. latest_new_qc = handling[2] /\ handling # << >>
  BY DEF wait_for_new_qc, IInv, SlotInv
<1>2. handling[1] \in Hashes
  BY <1>1 DEF IInv, TypeOK
<1> QED
  BY <1>1, <1>2 DEF wait_for_new_qc, answer_append, slot_after_wait, consensusVars, IInv, SlotInv

\* The certificate turns the pending hash into a confirmed one and moves nothing else.
LEMMA WaitInv ==
  ASSUME IInv, wait_for_new_qc
  PROVE  IInv'
<1>1. /\ handling[1] \in Hashes /\ answer[handling[1]] = "none"
      /\ confirmed' = Append(confirmed, handling[1]) /\ handling' = << >>
      /\ answer' = [answer EXCEPT ![handling[1]] = "true"]
      /\ latest_new_qc' = NoQC /\ hqc = Len(chain)
      /\ UNCHANGED <<buffer, chain, hqc, applied, vm_state, reply>>
  BY WaitIsExpected
<1>2. Pending' = Pending
  BY <1>1 DEF Pending, wait_for_new_qc
<1>3. TypeOK'
  BY <1>1 DEF IInv, TypeOK, NoQC
<1>4. SlotInv'
  BY <1>1 DEF IInv, SlotInv
<1>5. OrderInv'
  BY <1>1, <1>2 DEF IInv, OrderInv
<1>6. ReplyInv'
  BY <1>1 DEF IInv, ReplyInv, TypeOK
<1> QED BY <1>3, <1>4, <1>5, <1>6 DEF IInv

\* The invariant is inductive.
LEMMA StepInv == IInv /\ [Next]_vars => IInv'
<1> SUFFICES ASSUME IInv, [Next]_vars PROVE IInv'
  OBVIOUS
<1>1. ASSUME NEW h \in Hashes, post_method_handler(h) PROVE IInv'
  BY <1>1, PostInv
<1>2. ASSUME NEW h \in Hashes, get_method_handler(h) PROVE IInv'
  <2>1. /\ reply' = <<h, getIndex(h)>>
        /\ UNCHANGED <<buffer, chain, hqc, latest_new_qc, handling, confirmed, answer>>
    BY <1>2 DEF get_method_handler, consensusVars
  <2>2. /\ getIndex(h) \in Int
        /\ getIndex(h) # -1 => /\ getIndex(h) + 1 \in 1 .. Len(confirmed)
                               /\ confirmed[getIndex(h) + 1] = h
    BY IndexIsPosition DEF IInv
  <2>3. TypeOK' /\ SlotInv' /\ OrderInv'
    BY <2>1, <2>2 DEF IInv, TypeOK, SlotInv, OrderInv, Pending
  <2>4. ReplyInv'
    BY <2>1, <2>2 DEF ReplyInv
  <2> QED BY <2>3, <2>4 DEF IInv
<1>3. CASE wait_for_new_qc
  BY <1>3, WaitInv
<1>4. CASE on_new_qc
  <2>1. handling # << >>
    BY <1>4 DEF on_new_qc, IInv, SlotInv, TypeOK
  <2>2. TypeOK' /\ SlotInv'
    BY <1>4, <2>1 DEF on_new_qc, IInv, TypeOK, SlotInv
  <2>3. OrderInv' /\ ReplyInv'
    BY <1>4 DEF on_new_qc, IInv, OrderInv, ReplyInv, Pending
  <2> QED BY <2>2, <2>3 DEF IInv
<1>5. CASE apply_block
  BY <1>5 DEF apply_block, IInv, TypeOK, SlotInv, OrderInv, ReplyInv, Pending
<1>6. CASE UNCHANGED vars
  BY <1>6 DEF vars, consensusVars, IInv, TypeOK, SlotInv, OrderInv, ReplyInv, Pending
<1> QED BY <1>1, <1>2, <1>3, <1>4, <1>5, <1>6 DEF Next

\* The invariant holds in every reachable state.
LEMMA Invariant == Spec => []IInv
<1> QED BY InitInv, StepInv, PTL DEF Spec

-----------------------------------------------------------------------------
\* Type correctness of the ledger service.
THEOREM TypeCorrect == Spec => []TypeOK
<1>1. IInv => TypeOK
  BY DEF IInv
<1> QED BY <1>1, Invariant, PTL

\* Whoever waits in wait_for_new_qc on the leader is handed the certificate of the
\* block its own /append has made, never one that an earlier wait left in the slot.
THEOREM FreshSlot == Spec => []SlotIsFresh
<1>1. IInv => SlotIsFresh
  BY DEF IInv, SlotInv, SlotIsFresh, TypeOK
<1> QED BY <1>1, Invariant, PTL

\* The ledger has the hashes in the order of confirmed_hashes, three blocks late, and
\* an index /get_index has reported stays right: for any number of appends.
THEOREM LedgerOrder == Spec => []LedgerOrderIsIndexOrder
<1> SUFFICES ASSUME IInv PROVE LedgerOrderIsIndexOrder
  BY Invariant, PTL
<1>1. /\ chain \in Seq(Hashes \union {NoBody}) /\ Len(chain) \in Nat
      /\ Pending \in Seq(Hashes) /\ Len(Pending) = Len(chain)
      /\ Len(buffer) = IF Len(chain) <= 3 THEN Len(chain) ELSE 3
  BY PendingType DEF IInv, TypeOK, OrderInv
<1>2. /\ Len(Ordered) = IF Len(chain) <= 3 THEN 0 ELSE Len(chain) - 3
      /\ \A i \in 1 .. Len(Ordered) : Ordered[i] = chain[i + 3]
  BY <1>1 DEF Ordered
<1>3. \A i \in 1 .. Len(chain) : chain[i] = NoBody <=> i <= 3
  <2>1. ASSUME NEW i \in 1 .. Len(chain), i > 3 PROVE chain[i] # NoBody
    <3>1. chain[i] = Pending[i - 3] /\ i - 3 \in 1 .. Len(Pending)
      BY <1>1, <2>1 DEF IInv, OrderInv
    <3> QED BY <1>1, <3>1, HashesAssumption
  <2> QED BY <1>1, <2>1 DEF IInv, OrderInv
<1>4. \A i \in 1 .. Len(Ordered) : Ordered[i] = Pending[i]
  <2> SUFFICES ASSUME NEW i \in 1 .. Len(Ordered) PROVE Ordered[i] = Pending[i]
    OBVIOUS
  <2>1. i + 3 \in 1 .. Len(chain) /\ i + 3 > 3 /\ (i + 3) - 3 = i /\ Ordered[i] = chain[i + 3]
    BY <1>1, <1>2
  <2>2. chain[i + 3] = Pending[(i + 3) - 3]
    BY <2>1 DEF IInv, OrderInv
  <2> QED BY <2>1, <2>2
<1>5. \A i \in 1 .. Len(buffer) : buffer[i] = Pending[Len(Pending) + 1 - i]
  BY DEF IInv, OrderInv
<1>6. reply # << >> /\ reply[2] # -1 => Pending[reply[2] + 1] = reply[1]
  <2> SUFFICES ASSUME reply # << >>, reply[2] # -1 PROVE Pending[reply[2] + 1] = reply[1]
    OBVIOUS
  <2>1. reply[2] + 1 \in 1 .. Len(confirmed) /\ confirmed[reply[2] + 1] = reply[1]
    BY DEF IInv, ReplyInv
  <2>2. confirmed \in Seq(Hashes)
    BY DEF IInv, TypeOK
  <2>3. \A i \in 1 .. Len(confirmed) : Pending[i] = confirmed[i]
    BY <2>2, PendingType DEF IInv
  <2> QED BY <2>1, <2>3
<1> QED BY <1>1, <1>2, <1>3, <1>4, <1>5, <1>6 DEF LedgerOrderIsIndexOrder

\* The leader's REST interface implements an append-only log: confirmed_hashes only
\* grows at its end, by a hash whose client is told so in the same step, and no
\* request is answered twice.
THEOREM Refinement == Spec => ImplementsLog
<1>1. Init => Log!LogInit
  BY DEF Init, Log!LogInit
<1>2. ASSUME IInv, [Next]_vars
      PROVE  [Log!LogNext]_(Log!logVars)
  <2>1. CASE wait_for_new_qc
    <3>1. /\ handling[1] \in Hashes /\ answer[handling[1]] = "none"
          /\ confirmed' = Append(confirmed, handling[1])
          /\ answer' = [answer EXCEPT ![handling[1]] = "true"]
      BY <1>2, <2>1, WaitIsExpected
    <3> QED BY <3>1 DEF Log!LogNext, Log!Accept
  <2>2. CASE ~wait_for_new_qc
    <3>1. UNCHANGED <<confirmed, answer>>
      BY <1>2, <2>2 DEF Next, vars, post_method_handler, get_method_handler, on_new_qc, apply_block
    <3> QED BY <3>1 DEF Log!logVars
  <2> QED BY <2>1, <2>2
<1> QED BY <1>1, <1>2, Invariant, PTL DEF Spec, ImplementsLog, Log!LogSpec
=============================================================================
