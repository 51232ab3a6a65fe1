------------------------ MODULE NetworkEvents_proofs ------------------------
(***************************************************************************)
(* The core is handed only sound events whose links it can follow, and no  *)
(* event is lost or doubled while it moves between the queue, the requests *)
(* and the core: for every tree of blocks, any messages and any peers.     *)
(***************************************************************************)
EXTENDS NetworkEvents, SequenceTheorems, FiniteSetTheorems, TLAPS

\* What the queues hold: events that passed their validation.
NetEvents == [type : {"vote", "proposal", "block"}, block : Blocks, peer : Peers,
              defect : {"none"}]
Events    == [type : {"vote", "proposal"}, block : Blocks, peer : Peers \union {Self},
              defect : {"none"}]

TypeOK ==
    /\ block_cache \subseteq Blocks \union {Genesis} /\ Genesis \in block_cache
    /\ events \in Seq(NetEvents) /\ to_core \in Seq(Events)
    /\ DOMAIN outstanding_reqs \subseteq Blocks
    /\ \A h \in DOMAIN outstanding_reqs : outstanding_reqs[h] \in Seq(NetEvents)
    /\ reqs \in [Peers -> SUBSET Blocks] /\ in_flight \in [Peers -> SUBSET Blocks]
    /\ \A p \in Peers : IsFiniteSet(reqs[p]) /\ IsFiniteSet(in_flight[p])
    /\ received \subseteq {m \in Messages : m.defect = "none"}

\* How often a message is in the queue or with the core, and how often with the
\* request for h.
Arrived(m)    == Count(m, events) + Count(m, to_core)
Waiting(m, h) == Count(m, waiting(outstanding_reqs, h))

\* With A copies on their way and W[h] at the request for h, a message that
\* arrived is in one place, and any other in none.
OnePlace(arrived, A, W) ==
    IF ~arrived
      THEN A = 0 /\ \A h \in Blocks : W[h] = 0
      ELSE \/ A = 1 /\ \A h \in Blocks : W[h] = 0
           \/ A = 0 /\ \E h \in Blocks : W[h] = 1 /\ \A g \in Blocks \ {h} : W[g] = 0

Places(m) == [h \in Blocks |-> Waiting(m, h)]

PlacesInv == \A m \in Messages : OnePlace(m \in received, Arrived(m), Places(m))

IInv == TypeOK /\ StoreIsClosed /\ PlacesInv

-----------------------------------------------------------------------------
\* Counting in sequences.
LEMMA CountType ==
  ASSUME NEW S, NEW s \in Seq(S), NEW m
  PROVE  /\ IsFiniteSet({i \in DOMAIN s : s[i] = m}) /\ Count(m, s) \in Nat
         /\ Count(m, s) = 0 <=> \A i \in 1 .. Len(s) : s[i] # m
<1> DEFINE P == {i \in DOMAIN s : s[i] = m}
<1>1. DOMAIN s = 1 .. Len(s) /\ Len(s) \in Nat
  OBVIOUS
<1>2. IsFiniteSet(1 .. Len(s)) /\ P \in SUBSET (1 .. Len(s))
  BY <1>1, FS_Interval
<1>3. IsFiniteSet(P)
  BY <1>2, FS_Subset
<1>4. Cardinality(P) \in Nat /\ (Cardinality(P) = 0 <=> P = {})
  BY <1>3, FS_CardinalityType, FS_EmptySet
<1> QED BY <1>1, <1>3, <1>4 DEF Count

LEMMA CountConcat ==
  ASSUME NEW S, NEW s \in Seq(S), NEW t \in Seq(S), NEW m
  PROVE  Count(m, s \o t) = Count(m, s) + Count(m, t)
<1> DEFINE P == {i \in DOMAIN s : s[i] = m}
           Q == {i \in DOMAIN t : t[i] = m}
           R == {i \in DOMAIN (s \o t) : (s \o t)[i] = m}
           T == {i \in R : i > Len(s)}
           f == [i \in Q |-> i + Len(s)]
<1>1. /\ s \o t \in Seq(S) /\ Len(s) \in Nat /\ Len(t) \in Nat
      /\ Len(s \o t) = Len(s) + Len(t) /\ DOMAIN s = 1 .. Len(s) /\ DOMAIN t = 1 .. Len(t)
      /\ DOMAIN (s \o t) = 1 .. Len(s) + Len(t)
      /\ \A i \in 1 .. Len(s) : (s \o t)[i] = s[i]
      /\ \A i \in 1 .. Len(t) : (s \o t)[i + Len(s)] = t[i]
  OBVIOUS
<1>2. IsFiniteSet(P) /\ IsFiniteSet(Q)
  BY CountType
<1>3. \A i \in T : i - Len(s) \in Q /\ i = (i - Len(s)) + Len(s)
  <2> SUFFICES ASSUME NEW i \in T PROVE i - Len(s) \in Q /\ i = (i - Len(s)) + Len(s)
    OBVIOUS
  <2>1. i \in 1 .. Len(s) + Len(t) /\ i > Len(s) /\ (s \o t)[i] = m
    BY <1>1
  <2>2. i - Len(s) \in 1 .. Len(t) /\ i = (i - Len(s)) + Len(s)
    BY <1>1, <2>1
  <2>3. t[i - Len(s)] = (s \o t)[(i - Len(s)) + Len(s)]
    BY <1>1, <2>2
  <2> QED BY <1>1, <2>1, <2>2, <2>3
<1>4. \A i \in Q : i + Len(s) \in T
  <2> SUFFICES ASSUME NEW i \in Q PROVE i + Len(s) \in T
    OBVIOUS
  <2>1. i \in 1 .. Len(t) /\ t[i] = m
    BY <1>1
  <2>2. i + Len(s) \in 1 .. Len(s) + Len(t) /\ i + Len(s) > Len(s)
    BY <1>1, <2>1
  <2>3. (s \o t)[i + Len(s)] = m
    BY <1>1, <2>1
  <2> QED BY <1>1, <2>2, <2>3
<1>5. f \in Bijection(Q, T)
  <2>1. f \in [Q -> T]
    BY <1>4
  <2>2. \A i, j \in Q : f[i] = f[j] => i = j
    BY <1>1
  <2>3. \A x \in T : \E i \in Q : f[i] = x
    BY <1>3
  <2> QED BY <2>1, <2>2, <2>3 DEF Bijection, Injection, Surjection, IsInjective
<1>6. ExistsBijection(Q, T)
  BY <1>5 DEF ExistsBijection
<1>7. IsFiniteSet(T) /\ Cardinality(T) = Cardinality(Q)
  BY <1>2, <1>6, FS_Bijection
<1>8. R = P \union T
  <2>1. ASSUME NEW i \in R PROVE i \in P \union T
    BY <1>1, <2>1
  <2>2. ASSUME NEW i \in P PROVE i \in R
    BY <1>1, <2>2
  <2> QED BY <2>1, <2>2
<1>9. P \cap T = {}
  BY <1>1
<1>10. Cardinality(R) = Cardinality(P) + Cardinality(T) - Cardinality(P \cap T)
  BY <1>2, <1>7, <1>8, FS_Union
<1>11. Cardinality(P \cap T) = 0 /\ Cardinality(P) \in Nat /\ Cardinality(Q) \in Nat
  BY <1>2, <1>9, FS_EmptySet, FS_CardinalityType
<1>12. Count(m, s \o t) = Cardinality(R) /\ Count(m, s) = Cardinality(P) /\ Count(m, t) = Cardinality(Q)
  BY DEF Count
<1> HIDE DEF P, Q, R, T
<1> QED BY <1>7, <1>10, <1>11, <1>12

LEMMA CountOne ==
  ASSUME NEW e, NEW m
  PROVE  Count(m, <<e>>) = IF e = m THEN 1 ELSE 0
<1>1. {i \in DOMAIN <<e>> : <<e>>[i] = m} = IF e = m THEN {1} ELSE {}
  OBVIOUS
<1> QED BY <1>1, FS_Singleton, FS_EmptySet DEF Count

LEMMA CountEmpty ==
  ASSUME NEW m
  PROVE  Count(m, << >>) = 0
<1>1. {i \in DOMAIN << >> : << >>[i] = m} = {}
  OBVIOUS
<1> QED BY <1>1, FS_EmptySet DEF Count

LEMMA CountAppend ==
  ASSUME NEW S, NEW s \in Seq(S), NEW e \in S, NEW m
  PROVE  Count(m, Append(s, e)) = Count(m, s) + IF e = m THEN 1 ELSE 0
<1>1. Append(s, e) = s \o <<e>> /\ <<e>> \in Seq(S)
  BY AppendIsConcat
<1>2. Count(m, Append(s, e)) = Count(m, s) + Count(m, <<e>>)
  BY <1>1, CountConcat
<1> QED BY <1>2, CountOne

LEMMA CountTail ==
  ASSUME NEW S, NEW s \in Seq(S), s # << >>, NEW m
  PROVE  Count(m, s) = Count(m, Tail(s)) + IF Head(s) = m THEN 1 ELSE 0
<1>1. Head(s) \in S /\ Tail(s) \in Seq(S) /\ <<Head(s)>> \in Seq(S)
  OBVIOUS
<1>2. s = <<Head(s)>> \o Tail(s)
  OBVIOUS
<1>3. Count(m, s) = Count(m, <<Head(s)>>) + Count(m, Tail(s))
  BY <1>1, <1>2, CountConcat
<1>4. Count(m, <<Head(s)>>) = (IF Head(s) = m THEN 1 ELSE 0)
  BY CountOne
<1>5. Count(m, Tail(s)) \in Nat
  BY <1>1, CountType
<1> QED BY <1>3, <1>4, <1>5

-----------------------------------------------------------------------------
\* The table of requests: what waits for g after events joined those for h, and
\* after the request for b is done.
Table(out) ==
    DOMAIN out \subseteq Blocks /\ \A h \in DOMAIN out : out[h] \in Seq(NetEvents)

LEMMA WaitingType ==
  ASSUME NEW out, Table(out), NEW h
  PROVE  waiting(out, h) \in Seq(NetEvents)
BY DEF Table, waiting

LEMMA AddRequest ==
  ASSUME NEW out, Table(out), NEW h \in Blocks, NEW es \in Seq(NetEvents)
  PROVE  /\ Table(add_fetch_request(out, h, es))
         /\ \A g : waiting(add_fetch_request(out, h, es), g) =
                     IF g = h THEN waiting(out, h) \o es ELSE waiting(out, g)
<1> DEFINE w   == waiting(out, h) \o es
           new == add_fetch_request(out, h, es)
<1>1. w \in Seq(NetEvents)
  BY WaitingType
<1>2. /\ DOMAIN new = {h} \union DOMAIN out
      /\ \A g \in DOMAIN new : new[g] = IF g = h THEN w ELSE out[g]
  BY DEF add_fetch_request
<1> HIDE DEF w, new
<1>3. Table(new)
  BY <1>1, <1>2 DEF Table
<1>4. \A g : waiting(new, g) = IF g = h THEN w ELSE waiting(out, g)
  BY <1>2 DEF waiting
<1> QED BY <1>3, <1>4 DEF w, new

LEMMA DeliverBlock ==
  ASSUME NEW out, Table(out), NEW b \in Blocks
  PROVE  /\ Table(deliver_block(out, b))
         /\ \A g : waiting(deliver_block(out, b), g) = IF g = b THEN << >> ELSE waiting(out, g)
BY DEF Table, deliver_block, waiting

-----------------------------------------------------------------------------
\* An event that goes from the queue to a request is still in one place,
LEMMA MoveOne ==
  ASSUME NEW rec \in BOOLEAN, NEW A \in Nat, NEW W \in [Blocks -> Nat], OnePlace(rec, A, W),
         NEW d \in 0 .. A, NEW h \in Blocks, NEW W2 \in [Blocks -> Nat],
         \A g \in Blocks : W2[g] = IF g = h THEN W[h] + d ELSE W[g]
  PROVE  OnePlace(rec, A - d, W2)
BY DEF OnePlace

\* so is one that a stored block sets free,
LEMMA MoveFree ==
  ASSUME NEW rec \in BOOLEAN, NEW A \in Nat, NEW W \in [Blocks -> Nat], OnePlace(rec, A, W),
         NEW b \in Blocks, NEW W2 \in [Blocks -> Nat],
         \A g \in Blocks : W2[g] = IF g = b THEN 0 ELSE W[g]
  PROVE  OnePlace(rec, A + W[b], W2)
BY DEF OnePlace

\* and so are the event and those that waited for its block, moved to the request
\* for a block it depends on.
LEMMA MoveAll ==
  ASSUME NEW rec \in BOOLEAN, NEW A \in Nat, NEW W \in [Blocks -> Nat], OnePlace(rec, A, W),
         NEW d \in 0 .. A, NEW b \in Blocks, NEW p \in Blocks, b # p, NEW W2 \in [Blocks -> Nat],
         \A g \in Blocks : W2[g] = IF g = p THEN W[p] + W[b] + d
                                   ELSE IF g = b THEN 0 ELSE W[g]
  PROVE  OnePlace(rec, A - d, W2)
BY DEF OnePlace

LEMMA PlacesType ==
  ASSUME TypeOK, NEW m
  PROVE  /\ Count(m, events) \in Nat /\ Count(m, to_core) \in Nat /\ Arrived(m) \in Nat
         /\ Places(m) \in [Blocks -> Nat]
         /\ \A h \in Blocks : Places(m)[h] = Count(m, waiting(outstanding_reqs, h))
<1>1. Count(m, events) \in Nat /\ Count(m, to_core) \in Nat
  BY CountType DEF TypeOK
<1>2. ASSUME NEW h \in Blocks PROVE Waiting(m, h) \in Nat
  <2>1. waiting(outstanding_reqs, h) \in Seq(NetEvents)
    BY WaitingType DEF TypeOK, Table
  <2> QED BY <2>1, CountType DEF Waiting
<1> QED BY <1>1, <1>2 DEF Arrived, Places, Waiting

LEMMA PlacesTypeNext ==
  ASSUME TypeOK', NEW m
  PROVE  Places(m)' \in [Blocks -> Nat]
<1>1. ASSUME NEW h \in Blocks PROVE Waiting(m, h)' \in Nat
  <2>1. waiting(outstanding_reqs', h) \in Seq(NetEvents)
    BY WaitingType DEF TypeOK, Table
  <2> QED BY <2>1, CountType DEF Waiting
<1> QED BY <1>1 DEF Places

\* A message is of one of the two types, and sound if its validation says so.
LEMMA MessageType ==
  ASSUME NEW m \in Messages
  PROVE  /\ m.type \in {"vote", "proposal"} /\ m.block \in Blocks /\ m.peer \in Peers
         /\ is_valid_replica(m) /\ NetEvent_validate(m) <=> m.defect = "none"
         /\ m.defect = "none" => m \in NetEvents
<1>1. PICK type \in {"vote", "proposal"} :
        m \in [type : {type}, block : Blocks, peer : Peers, defect : Defects(type)]
  BY MessagesAssumption
<1> QED BY <1>1 DEF Defects, is_valid_replica, NetEvent_validate, VoteNetEvent_ok,
                    validate_hotstuff, NetEvents

\* What a block depends on, if it is missing, is a block with a smaller number.
LEMMA MissingBlocks ==
  ASSUME TypeOK, NEW b \in Blocks
  PROVE  /\ missing_deps(b) \subseteq Blocks \ {b} /\ IsFiniteSet(missing_deps(b))
         /\ Parent[b] \notin block_cache => Parent[b] \in Blocks \ {b}
         /\ Justify[b] \notin block_cache => Justify[b] \in Blocks \ {b}
<1>1. b \in Nat /\ Parent[b] < b /\ Justify[b] < b
      /\ Parent[b] \in Blocks \union {Genesis} /\ Justify[b] \in Blocks \union {Genesis}
  BY BlocksAssumption, LinksAssumption
<1>2. Genesis \in block_cache
  BY DEF TypeOK
<1>3. Blocks \subseteq Nat /\ Genesis = 0
  BY BlocksAssumption DEF Genesis
<1>4. /\ Parent[b] \notin block_cache => Parent[b] \in Blocks \ {b}
      /\ Justify[b] \notin block_cache => Justify[b] \in Blocks \ {b}
  BY <1>1, <1>2, <1>3
<1>5. IsFiniteSet({Parent[b], Justify[b]})
  <2>1. IsFiniteSet({Parent[b]} \union {Justify[b]})
    BY FS_Singleton, FS_AddElement
  <2>2. {Parent[b], Justify[b]} = {Parent[b]} \union {Justify[b]}
    OBVIOUS
  <2> QED BY <2>1, <2>2
<1>6. IsFiniteSet(missing_deps(b))
  BY <1>5, FS_Difference DEF missing_deps
<1> QED BY <1>4, <1>6 DEF missing_deps

\* The worker of a peer is told more blocks to ask for.
LEMMA AddRequests ==
  ASSUME TypeOK, NEW p \in Peers, NEW H \in SUBSET Blocks, IsFiniteSet(H)
  PROVE  /\ add_requests(p, H) \in [Peers -> SUBSET Blocks]
         /\ \A q \in Peers : IsFiniteSet(add_requests(p, H)[q])
<1>1. reqs \in [Peers -> SUBSET Blocks] /\ \A q \in Peers : IsFiniteSet(reqs[q])
  BY DEF TypeOK
<1>2. IsFiniteSet(reqs[p] \union H)
  BY <1>1, FS_Union
<1> QED BY <1>1, <1>2 DEF add_requests

\* A step that moves no message.
LEMMA PlacesUnchanged ==
  ASSUME PlacesInv, UNCHANGED <<events, to_core, outstanding_reqs, received>>
  PROVE  PlacesInv'
<1> SUFFICES ASSUME NEW m \in Messages
             PROVE  OnePlace((m \in received)', Arrived(m)', Places(m)')
  BY DEF PlacesInv
<1>1. Arrived(m)' = Arrived(m) /\ Places(m)' = Places(m) /\ (m \in received)' = (m \in received)
  BY DEF Arrived, Places, Waiting, waiting
<1> QED BY <1>1 DEF PlacesInv

-----------------------------------------------------------------------------
LEMMA InitInv == Init => IInv
<1> SUFFICES ASSUME Init PROVE IInv
  OBVIOUS
<1>1. TypeOK
  BY FS_EmptySet DEF Init, TypeOK, BlockFetchWorkers
<1>2. StoreIsClosed
  BY DEF Init, StoreIsClosed
<1>3. ASSUME NEW m \in Messages PROVE OnePlace(m \in received, Arrived(m), Places(m))
  <2>1. Arrived(m) = 0 /\ \A h \in Blocks : Places(m)[h] = 0
    BY CountEmpty DEF Init, Arrived, Places, Waiting, waiting
  <2> QED BY <2>1 DEF Init, OnePlace
<1> QED BY <1>1, <1>2, <1>3 DEF IInv, PlacesInv

\* A vote goes to the core, or waits for the block it is about.
LEMMA VoteInv ==
  ASSUME IInv, on_vote
  PROVE  IInv'
<1> DEFINE e == Head(events)
<1>1. /\ events # << >> /\ e.type = "vote" /\ events' = Tail(events)
      /\ UNCHANGED <<block_cache, in_flight, received>>
  BY DEF on_vote
<1>2. TypeOK /\ Table(outstanding_reqs) /\ StoreIsClosed /\ PlacesInv
  BY DEF IInv, TypeOK, Table
<1>3. e \in NetEvents /\ e \in Events /\ e.block \in Blocks /\ e.peer \in Peers
      /\ e.defect = "none" /\ events' \in Seq(NetEvents)
  <2>1. events \in Seq(NetEvents)
    BY <1>2 DEF TypeOK
  <2>2. e \in NetEvents /\ Tail(events) \in Seq(NetEvents)
    BY <1>1, <2>1
  <2> QED BY <1>1, <2>2 DEF NetEvents, Events
<1>4. ASSUME NEW m
      PROVE  /\ Count(m, events) = Count(m, events') + (IF e = m THEN 1 ELSE 0)
             /\ Count(m, events') \in Nat
  <2>1. events \in Seq(NetEvents)
    BY <1>2 DEF TypeOK
  <2> QED BY <1>1, <1>3, <2>1, CountTail, CountType
<1> HIDE DEF e
<1>5. CASE e.block \in block_cache
  <2>1. to_core' = Append(to_core, e) /\ UNCHANGED <<outstanding_reqs, reqs>>
    BY <1>5 DEF on_vote, e, validate_and_add_event, Event_validate
  <2>2. to_core \in Seq(Events) /\ to_core' \in Seq(Events) /\ Len(to_core) \in Nat
    BY <1>2, <1>3, <2>1 DEF TypeOK
  <2>3. TypeOK'
    BY <1>1, <1>2, <1>3, <2>1, <2>2 DEF TypeOK
  <2>4. StoreIsClosed'
    <3>1. \A i \in DOMAIN to_core' : to_core'[i] = e \/ (i \in DOMAIN to_core /\ to_core'[i] = to_core[i])
      BY <1>3, <2>1, <2>2
    <3> QED BY <1>1, <1>2, <1>3, <1>5, <3>1 DEF StoreIsClosed
  <2>5. ASSUME NEW m \in Messages
        PROVE  OnePlace((m \in received)', Arrived(m)', Places(m)')
    <3>1. Count(m, to_core') = Count(m, to_core) + IF e = m THEN 1 ELSE 0
      BY <1>3, <2>1, <2>2, CountAppend
    <3>0. Count(m, to_core) \in Nat
      BY <2>2, CountType
    <3>2. Arrived(m)' = Arrived(m)
      BY <1>4, <3>0, <3>1 DEF Arrived
    <3>3. Places(m)' = Places(m)
      BY <2>1 DEF Places, Waiting, waiting
    <3> QED BY <1>1, <1>2, <3>2, <3>3 DEF PlacesInv
  <2> QED BY <2>3, <2>4, <2>5 DEF IInv, PlacesInv
<1>6. CASE e.block \notin block_cache
  <2>1. /\ outstanding_reqs' = add_fetch_request(outstanding_reqs, e.block, <<e>>)
        /\ reqs' = add_requests(e.peer, {e.block}) /\ UNCHANGED to_core
    BY <1>6 DEF on_vote, e
  <2>2. <<e>> \in Seq(NetEvents)
    BY <1>3
  <2>3. /\ Table(outstanding_reqs')
        /\ \A g : waiting(outstanding_reqs', g) =
                    IF g = e.block THEN waiting(outstanding_reqs, e.block) \o <<e>>
                    ELSE waiting(outstanding_reqs, g)
    <3> DEFINE h == e.block  es == <<e>>
    <3>1. h \in Blocks /\ es \in Seq(NetEvents)
      BY <1>3, <2>2
    <3> HIDE DEF h, es
    <3>2. /\ Table(add_fetch_request(outstanding_reqs, h, es))
          /\ \A g : waiting(add_fetch_request(outstanding_reqs, h, es), g) =
                      IF g = h THEN waiting(outstanding_reqs, h) \o es ELSE waiting(outstanding_reqs, g)
      BY <1>2, <3>1, AddRequest
    <3> QED BY <2>1, <3>2 DEF h, es
  <2>4. /\ reqs' \in [Peers -> SUBSET Blocks]
        /\ \A q \in Peers : IsFiniteSet(reqs'[q])
    BY <1>2, <1>3, <2>1, AddRequests, FS_Singleton
  <2>5. TypeOK'
    BY <1>1, <1>2, <1>3, <2>1, <2>3, <2>4 DEF TypeOK, Table
  <2>6. StoreIsClosed'
    BY <1>1, <1>2, <2>1 DEF StoreIsClosed
  <2>7. ASSUME NEW m \in Messages
        PROVE  OnePlace((m \in received)', Arrived(m)', Places(m)')
    <3> DEFINE d == IF e = m THEN 1 ELSE 0
    <3>1. Count(m, to_core) \in Nat /\ Arrived(m) \in Nat /\ Places(m) \in [Blocks -> Nat]
      BY <1>2, PlacesType
    <3>2. d \in 0 .. Arrived(m) /\ Arrived(m)' = Arrived(m) - d
      BY <1>4, <2>1, <3>1 DEF Arrived
    <3>3. ASSUME NEW g \in Blocks
          PROVE  Places(m)'[g] = IF g = e.block THEN Places(m)[e.block] + d ELSE Places(m)[g]
      <4>1. waiting(outstanding_reqs, e.block) \in Seq(NetEvents)
        BY <1>2, WaitingType
      <4>2. Count(m, waiting(outstanding_reqs, e.block) \o <<e>>)
              = Count(m, waiting(outstanding_reqs, e.block)) + Count(m, <<e>>)
        BY <2>2, <4>1, CountConcat
      <4>3. Count(m, <<e>>) = d
        BY CountOne
      <4> QED BY <1>3, <2>3, <4>2, <4>3 DEF Places, Waiting
    <3>4. (m \in received) \in BOOLEAN /\ OnePlace(m \in received, Arrived(m), Places(m))
      BY <1>2 DEF PlacesInv
    <3>5. Places(m)' \in [Blocks -> Nat]
      BY <2>5, PlacesTypeNext
    <3>6. OnePlace(m \in received, Arrived(m) - d, Places(m)')
      <4> HIDE DEF d
      <4> QED BY <1>3, <3>1, <3>2, <3>3, <3>4, <3>5, MoveOne
    <3> QED BY <1>1, <3>2, <3>6
  <2> QED BY <2>5, <2>6, <2>7 DEF IInv, PlacesInv
<1> QED BY <1>5, <1>6

\* A block whose links are there goes into the store and sets free what waits for it.
LEMMA StoreInv ==
  ASSUME IInv, on_block, missing_deps(Head(events).block) = {}
  PROVE  IInv'
<1> DEFINE e == Head(events)
           b == e.block
           deps == waiting(outstanding_reqs, b)
<1>a. /\ events # << >> /\ e.type # "vote" /\ block_cache' = block_cache \union {b}
      /\ events' = Tail(events) \o deps /\ outstanding_reqs' = deliver_block(outstanding_reqs, b)
      /\ UNCHANGED <<reqs, in_flight, received>>
  BY DEF on_block
<1>b. /\ e.type = "proposal" => to_core' = Append(to_core, e)
      /\ e.type # "proposal" => to_core' = to_core
  BY <1>a DEF on_block, validate_and_add_event, Event_validate
<1>1. TypeOK /\ Table(outstanding_reqs) /\ StoreIsClosed /\ PlacesInv
  BY DEF IInv, TypeOK, Table
<1>2. /\ e \in NetEvents /\ b \in Blocks /\ e.defect = "none"
      /\ Tail(events) \in Seq(NetEvents) /\ events \in Seq(NetEvents)
      /\ e.type = "proposal" => e \in Events
  <2>1. events \in Seq(NetEvents)
    BY <1>1 DEF TypeOK
  <2>2. e \in NetEvents /\ Tail(events) \in Seq(NetEvents)
    BY <1>a, <2>1
  <2> QED BY <1>a, <2>1, <2>2 DEF NetEvents, Events
<1> HIDE DEF e, b, deps
<1>4. deps \in Seq(NetEvents)
  BY <1>1, WaitingType DEF deps
<1>5. /\ Table(outstanding_reqs')
      /\ \A g : waiting(outstanding_reqs', g) = IF g = b THEN << >> ELSE waiting(outstanding_reqs, g)
  BY <1>a, <1>1, <1>2, DeliverBlock
<1>6. to_core \in Seq(Events) /\ to_core' \in Seq(Events)
  <2>1. to_core \in Seq(Events)
    BY <1>1 DEF TypeOK
  <2>2. CASE e.type = "proposal"
    <3>1. e \in Events /\ to_core' = Append(to_core, e)
      BY <1>2, <1>b, <2>2
    <3> QED BY <2>1, <3>1, AppendProperties
  <2>3. CASE e.type # "proposal"
    BY <1>b, <2>1, <2>3
  <2> QED BY <2>2, <2>3
<1>7. TypeOK'
  <2>1. events' \in Seq(NetEvents)
    BY <1>a, <1>2, <1>4
  <2> QED BY <1>a, <1>1, <1>2, <1>5, <1>6, <2>1 DEF TypeOK, Table
<1>8. StoreIsClosed'
  <2>1. \A i \in DOMAIN to_core' :
          (to_core'[i] = e /\ b \in block_cache') \/ (i \in DOMAIN to_core /\ to_core'[i] = to_core[i])
    <3>1. CASE e.type = "proposal"
      <4>1. e \in Events /\ to_core' = Append(to_core, e)
        BY <1>2, <1>b, <3>1
      <4> QED BY <1>a, <1>6, <4>1
    <3>2. CASE e.type # "proposal"
      BY <1>b, <3>2
    <3> QED BY <3>1, <3>2
  <2>2. Parent[b] \in block_cache' /\ Justify[b] \in block_cache'
    BY <1>a DEF missing_deps, e, b
  <2>3. \A c \in block_cache' \ {Genesis} : {Parent[c], Justify[c]} \subseteq block_cache'
    BY <1>a, <1>1, <2>2 DEF StoreIsClosed
  <2>4. \A i \in DOMAIN to_core : to_core[i].block \in block_cache' /\ to_core[i].defect = "none"
    BY <1>a, <1>1 DEF StoreIsClosed
  <2>5. \A i \in DOMAIN to_core' : to_core'[i].block \in block_cache' /\ to_core'[i].defect = "none"
    BY <1>2, <2>1, <2>4 DEF b
  <2> QED BY <2>3, <2>5 DEF StoreIsClosed
<1>9. ASSUME NEW m \in Messages
      PROVE  OnePlace((m \in received)', Arrived(m)', Places(m)')
  <2> DEFINE d == IF e = m THEN 1 ELSE 0
  <2>1. Count(m, to_core) \in Nat /\ Arrived(m) \in Nat /\ Places(m) \in [Blocks -> Nat]
        /\ Places(m)[b] = Count(m, deps) /\ Places(m)' \in [Blocks -> Nat]
    BY <1>1, <1>2, <1>7, PlacesType, PlacesTypeNext DEF deps
  <2>2. Count(m, events') = Count(m, Tail(events)) + Count(m, deps)
    BY <1>a, <1>2, <1>4, CountConcat
  <2>3. Count(m, events) = Count(m, Tail(events)) + d /\ Count(m, Tail(events)) \in Nat
    BY <1>a, <1>2, CountTail, CountType DEF e
  <2>4. Count(m, to_core') = Count(m, to_core) + d
    <3>1. CASE e.type = "proposal"
      <4>1. e \in Events /\ to_core' = Append(to_core, e)
        BY <1>b, <1>2, <3>1
      <4> QED BY <1>6, <4>1, CountAppend
    <3>2. CASE e.type # "proposal"
      <4>1. e # m
        BY <1>a, <3>2, MessageType
      <4> QED BY <1>b, <2>1, <3>2, <4>1
    <3> QED BY <3>1, <3>2
  <2>5. Arrived(m)' = Arrived(m) + Places(m)[b]
    <3> DEFINE q == Count(m, Tail(events))  c == Count(m, to_core)  w == Count(m, deps)
    <3>1. /\ d \in Nat /\ q \in Nat /\ c \in Nat /\ w \in Nat /\ Places(m)[b] = w
          /\ Arrived(m)' = (q + w) + (c + d) /\ Arrived(m) = (q + d) + c
      BY <1>2, <2>1, <2>2, <2>3, <2>4 DEF Arrived
    <3> HIDE DEF d, q, c, w
    <3> QED BY <3>1
  <2>6. \A g \in Blocks : Places(m)'[g] = IF g = b THEN 0 ELSE Places(m)[g]
    BY <1>5, CountEmpty DEF Places, Waiting
  <2>7. (m \in received) \in BOOLEAN /\ OnePlace(m \in received, Arrived(m), Places(m))
    BY <1>1 DEF PlacesInv
  <2>8. OnePlace(m \in received, Arrived(m) + Places(m)[b], Places(m)')
    BY <1>2, <2>1, <2>6, <2>7, MoveFree
  <2> QED BY <1>a, <2>5, <2>8
<1> QED BY <1>7, <1>8, <1>9 DEF IInv, PlacesInv

\* A block that is not to be stored yet waits, with what waits for it, for a block
\* it depends on: the parent if that is missing, else the block that justifies it.
LEMMA DependInv ==
  ASSUME IInv, on_block, missing_deps(Head(events).block) # {}
  PROVE  IInv'
<1> DEFINE e == Head(events)
           b == e.block
           deps == waiting(outstanding_reqs, b)
           rest == deliver_block(outstanding_reqs, b)
           es == Append(deps, e)
           to == IF Parent[b] \in block_cache THEN Justify[b] ELSE Parent[b]
<1>1. /\ events # << >> /\ e.type # "vote" /\ events' = Tail(events)
      /\ outstanding_reqs' = wait_for_deps(rest, b, es)
      /\ reqs' = add_requests(e.peer, missing_deps(b))
      /\ UNCHANGED <<block_cache, to_core, in_flight, received>>
  BY DEF on_block
<1>2. TypeOK /\ Table(outstanding_reqs) /\ StoreIsClosed /\ PlacesInv
  BY DEF IInv, TypeOK, Table
<1>3. /\ e \in NetEvents /\ b \in Blocks /\ e.peer \in Peers
      /\ Tail(events) \in Seq(NetEvents) /\ events \in Seq(NetEvents)
  <2>1. events \in Seq(NetEvents)
    BY <1>2 DEF TypeOK
  <2>2. e \in NetEvents /\ Tail(events) \in Seq(NetEvents)
    BY <1>1, <2>1
  <2> QED BY <1>1, <2>1, <2>2 DEF NetEvents
<1>4. missing_deps(b) # {}
  OBVIOUS
<1> HIDE DEF e, b
<1>5. deps \in Seq(NetEvents) /\ es \in Seq(NetEvents)
  BY <1>2, <1>3, WaitingType
<1>6. /\ Table(rest)
      /\ \A g : waiting(rest, g) = IF g = b THEN << >> ELSE waiting(outstanding_reqs, g)
  BY <1>2, <1>3, DeliverBlock
<1> HIDE DEF deps, rest, es
<1>7. to \in Blocks \ {b}
  BY <1>2, <1>3, <1>4, MissingBlocks DEF missing_deps
<1>8. /\ Table(outstanding_reqs')
      /\ \A g : \/ waiting(outstanding_reqs', g) = (IF g = to THEN waiting(rest, to) \o es
                                                     ELSE waiting(rest, g))
                \/ /\ g # to
                   /\ waiting(outstanding_reqs', g) = waiting(rest, g) \o << >>
  <2>1. CASE Parent[b] \in block_cache
    <3>1. Justify[b] \notin block_cache
      BY <1>4, <2>1 DEF missing_deps
    <3>2. outstanding_reqs' = add_fetch_request(rest, to, es)
      BY <1>1, <2>1, <3>1 DEF wait_for_deps
    <3> HIDE DEF to
    <3>3. to \in Blocks
      BY <1>7
    <3>4. /\ Table(add_fetch_request(rest, to, es))
          /\ \A g : waiting(add_fetch_request(rest, to, es), g) =
                      IF g = to THEN waiting(rest, to) \o es ELSE waiting(rest, g)
      BY <1>5, <1>6, <3>3, AddRequest
    <3> QED BY <3>2, <3>4, Zenon
  <2>2. CASE Parent[b] \notin block_cache /\ Justify[b] \in block_cache
    <3>1. outstanding_reqs' = add_fetch_request(rest, to, es)
      BY <1>1, <2>2 DEF wait_for_deps
    <3> HIDE DEF to
    <3>2. to \in Blocks
      BY <1>7
    <3>3. /\ Table(add_fetch_request(rest, to, es))
          /\ \A g : waiting(add_fetch_request(rest, to, es), g) =
                      IF g = to THEN waiting(rest, to) \o es ELSE waiting(rest, g)
      BY <1>5, <1>6, <3>2, AddRequest
    <3> QED BY <3>1, <3>3, Zenon
  <2>3. CASE Parent[b] \notin block_cache /\ Justify[b] \notin block_cache
    <3> DEFINE atP == add_fetch_request(rest, to, es)
               j   == Justify[b]
               new == add_fetch_request(atP, j, << >>)
    <3>1. outstanding_reqs' = new
      BY <1>1, <2>3 DEF wait_for_deps
    <3>2. to \in Blocks /\ j \in Blocks
      BY <1>2, <1>3, <1>7, <2>3, MissingBlocks
    <3> HIDE DEF to, j
    <3>3. /\ Table(atP)
          /\ \A g : waiting(atP, g) = IF g = to THEN waiting(rest, to) \o es ELSE waiting(rest, g)
      BY <1>5, <1>6, <3>2, AddRequest
    <3> HIDE DEF atP
    <3>4. << >> \in Seq(NetEvents)
      OBVIOUS
    <3>5. /\ Table(new)
          /\ \A g : waiting(new, g) = IF g = j THEN waiting(atP, j) \o << >> ELSE waiting(atP, g)
      BY <3>2, <3>3, <3>4, AddRequest
    <3> HIDE DEF new
    <3>6. waiting(rest, to) \o es \in Seq(NetEvents)
      BY <1>5, <1>6, WaitingType
    <3>7. (waiting(rest, to) \o es) \o << >> = waiting(rest, to) \o es
      BY <3>6
    <3>8. ASSUME NEW g
          PROVE  \/ waiting(new, g) = (IF g = to THEN waiting(rest, to) \o es ELSE waiting(rest, g))
                 \/ g # to /\ waiting(new, g) = waiting(rest, g) \o << >>
      <4>1. CASE g = to
        BY <3>3, <3>5, <3>7, <4>1
      <4>2. CASE g # to
        BY <3>3, <3>5, <4>2
      <4> QED BY <4>1, <4>2
    <3> QED BY <3>1, <3>5, <3>8
  <2> QED BY <2>1, <2>2, <2>3
<1> HIDE DEF to
<1>9. TypeOK'
  <2>1. missing_deps(b) \in SUBSET Blocks /\ IsFiniteSet(missing_deps(b))
    BY <1>2, <1>3, MissingBlocks
  <2>2. reqs' \in [Peers -> SUBSET Blocks] /\ \A q \in Peers : IsFiniteSet(reqs'[q])
    BY <1>1, <1>2, <1>3, <2>1, AddRequests
  <2> QED BY <1>1, <1>2, <1>3, <1>8, <2>2 DEF TypeOK, Table
<1>10. StoreIsClosed'
  BY <1>1, <1>2 DEF StoreIsClosed
<1>11. ASSUME NEW m \in Messages
       PROVE  OnePlace((m \in received)', Arrived(m)', Places(m)')
  <2> DEFINE d == IF e = m THEN 1 ELSE 0
  <2>1. Count(m, to_core) \in Nat /\ Arrived(m) \in Nat /\ Places(m) \in [Blocks -> Nat]
        /\ Places(m)[b] = Count(m, deps) /\ Places(m)' \in [Blocks -> Nat]
    BY <1>2, <1>3, <1>9, PlacesType, PlacesTypeNext DEF deps
  <2>2. Count(m, events) = Count(m, Tail(events)) + d /\ Count(m, Tail(events)) \in Nat
    BY <1>1, <1>3, CountTail, CountType DEF e
  <2>3. d \in 0 .. Arrived(m) /\ Arrived(m)' = Arrived(m) - d
    BY <1>1, <2>1, <2>2 DEF Arrived
  <2>4. Count(m, es) = Count(m, deps) + d
    BY <1>3, <1>5, CountAppend DEF es
  <2>5. ASSUME NEW g \in Blocks
        PROVE  Places(m)'[g] = IF g = to THEN Places(m)[to] + Places(m)[b] + d
                               ELSE IF g = b THEN 0 ELSE Places(m)[g]
    <3>1. waiting(rest, g) \in Seq(NetEvents) /\ waiting(rest, to) \in Seq(NetEvents)
      BY <1>6, WaitingType
    <3>2. Count(m, waiting(rest, g)) = IF g = b THEN 0 ELSE Places(m)[g]
      BY <1>6, CountEmpty DEF Places, Waiting
    <3>3. CASE g = to
      <4>1. waiting(outstanding_reqs', g) = waiting(rest, g) \o es
        BY <1>8, <3>3
      <4>2. Count(m, waiting(outstanding_reqs', g)) = Count(m, waiting(rest, g)) + Count(m, es)
        BY <1>5, <3>1, <4>1, CountConcat
      <4>3. Count(m, waiting(rest, g)) = Places(m)[g] /\ g # b
        BY <1>7, <3>2, <3>3
      <4>4. Places(m)'[g] = Count(m, waiting(outstanding_reqs', g))
        BY DEF Places, Waiting
      <4>5. Places(m)[g] \in Nat /\ Places(m)[b] \in Nat /\ d \in Nat
        BY <1>3, <2>1
      <4> HIDE DEF d
      <4> QED BY <2>1, <2>4, <3>3, <4>2, <4>3, <4>4, <4>5
    <3>4. CASE g # to
      <4>1. \/ waiting(outstanding_reqs', g) = waiting(rest, g)
            \/ waiting(outstanding_reqs', g) = waiting(rest, g) \o << >>
        BY <1>8, <3>4
      <4>2. waiting(rest, g) \o << >> = waiting(rest, g)
        BY <3>1
      <4>3. Places(m)'[g] = Count(m, waiting(outstanding_reqs', g))
        BY DEF Places, Waiting
      <4> QED BY <3>2, <3>4, <4>1, <4>2, <4>3
    <3> QED BY <3>3, <3>4
  <2>6. (m \in received) \in BOOLEAN /\ OnePlace(m \in received, Arrived(m), Places(m))
    BY <1>2 DEF PlacesInv
  <2>7. OnePlace(m \in received, Arrived(m) - d, Places(m)')
    <3> DEFINE W2 == Places(m)'
               A  == Arrived(m)
               W  == Places(m)
    <3>1. /\ A \in Nat /\ d \in 0 .. A /\ W \in [Blocks -> Nat] /\ W2 \in [Blocks -> Nat]
          /\ b \in Blocks /\ to \in Blocks /\ b # to
          /\ \A g \in Blocks : W2[g] = IF g = to THEN W[to] + W[b] + d
                                      ELSE IF g = b THEN 0 ELSE W[g]
      BY <1>3, <1>7, <2>1, <2>3, <2>5
    <3>2. OnePlace(m \in received, A, W)
      BY <2>6
    <3> HIDE DEF d, W2, A, W
    <3>3. OnePlace(m \in received, A - d, W2)
      BY <2>6, <3>1, <3>2, MoveAll
    <3> QED BY <3>3 DEF A, W2
  <2> QED BY <1>1, <2>3, <2>7
<1> QED BY <1>9, <1>10, <1>11 DEF IInv, PlacesInv

\* A message that arrives is new, and is queued if it is sound.
LEMMA ReceiveInv ==
  ASSUME IInv, NEW m \in Messages, receive(m)
  PROVE  IInv'
<1>1. /\ m \notin received /\ is_valid_replica(m)
      /\ UNCHANGED <<block_cache, outstanding_reqs, reqs, in_flight, to_core>>
  BY DEF receive
<1>2. TypeOK /\ StoreIsClosed /\ PlacesInv /\ events \in Seq(NetEvents)
  BY DEF IInv, TypeOK
<1>3. StoreIsClosed'
  BY <1>1, <1>2 DEF StoreIsClosed
<1>4. CASE ~NetEvent_validate(m)
  <2>1. UNCHANGED <<events, received>>
    BY <1>4 DEF receive, validate_and_add_net_event
  <2>2. TypeOK'
    BY <1>1, <1>2, <2>1 DEF TypeOK
  <2>3. PlacesInv'
    BY <1>1, <1>2, <2>1, PlacesUnchanged
  <2> QED BY <1>3, <2>2, <2>3 DEF IInv
<1>5. CASE NetEvent_validate(m)
  <2>1. events' = Append(events, m) /\ received' = received \union {m}
    BY <1>5 DEF receive, validate_and_add_net_event
  <2>2. m \in NetEvents /\ m.defect = "none"
    BY <1>1, <1>5, MessageType
  <2>3. events' \in Seq(NetEvents)
    BY <1>2, <2>1, <2>2
  <2>4. TypeOK'
    BY <1>1, <1>2, <2>1, <2>2, <2>3 DEF TypeOK
  <2>5. ASSUME NEW n \in Messages
        PROVE  OnePlace((n \in received)', Arrived(n)', Places(n)')
    <3>1. Count(n, events') = Count(n, events) + IF m = n THEN 1 ELSE 0
      BY <1>2, <2>1, <2>2, CountAppend
    <3>2. Places(n)' = Places(n)
      BY <1>1 DEF Places, Waiting, waiting
    <3>3. Count(n, events) \in Nat /\ Count(n, to_core) \in Nat /\ to_core' = to_core
      BY <1>1, <1>2, PlacesType
    <3>4. OnePlace(n \in received, Arrived(n), Places(n))
      BY <1>2 DEF PlacesInv
    <3>5. CASE n = m
      <4>1. Arrived(n) = 0 /\ \A h \in Blocks : Places(n)[h] = 0
        BY <1>1, <3>4, <3>5 DEF OnePlace
      <4>2. Arrived(n)' = 1
        BY <3>1, <3>3, <3>5, <4>1 DEF Arrived
      <4> QED BY <2>1, <3>2, <3>5, <4>1, <4>2 DEF OnePlace
    <3>6. CASE n # m
      <4>1. Arrived(n)' = Arrived(n)
        BY <3>1, <3>3, <3>6 DEF Arrived
      <4>2. (n \in received)' = (n \in received)
        BY <2>1, <3>6
      <4> QED BY <3>2, <3>4, <4>1, <4>2
    <3> QED BY <3>5, <3>6
  <2> QED BY <1>3, <2>4, <2>5 DEF IInv, PlacesInv
<1> QED BY <1>4, <1>5

\* The replica's own proposal goes past the queue to the core.
LEMMA ProposeInv ==
  ASSUME IInv, NEW b \in Own, do_propose(b)
  PROVE  IInv'
<1> DEFINE e == ProposalEvent(b, Self)
<1>1. /\ b \in Blocks /\ missing_deps(b) = {} /\ block_cache' = block_cache \union {b}
      /\ UNCHANGED <<events, outstanding_reqs, reqs, in_flight, received>>
  BY BlocksAssumption DEF do_propose
<1>2. to_core' = Append(to_core, e)
  BY <1>1 DEF do_propose, MockClientForSelf_propose, validate_and_add_event, Event_validate,
              ProposalEvent
<1>3. e \in Events /\ e.block = b /\ e.peer = Self /\ e.defect = "none"
  BY <1>1 DEF ProposalEvent, Events
<1>4. TypeOK /\ StoreIsClosed /\ PlacesInv /\ to_core \in Seq(Events)
  BY DEF IInv, TypeOK
<1> HIDE DEF e
<1>5. to_core' \in Seq(Events)
  BY <1>2, <1>3, <1>4
<1>6. TypeOK'
  BY <1>1, <1>4, <1>5 DEF TypeOK
<1>7. StoreIsClosed'
  <2>1. \A i \in DOMAIN to_core' : to_core'[i] = e \/ (i \in DOMAIN to_core /\ to_core'[i] = to_core[i])
    BY <1>2, <1>3, <1>4
  <2>2. Parent[b] \in block_cache /\ Justify[b] \in block_cache
    BY <1>1 DEF missing_deps
  <2>3. \A c \in block_cache' \ {Genesis} : {Parent[c], Justify[c]} \subseteq block_cache'
    BY <1>1, <1>4, <2>2 DEF StoreIsClosed
  <2>4. \A i \in DOMAIN to_core' : to_core'[i].block \in block_cache' /\ to_core'[i].defect = "none"
    BY <1>1, <1>3, <1>4, <2>1 DEF StoreIsClosed
  <2> QED BY <2>3, <2>4 DEF StoreIsClosed
<1>8. ASSUME NEW m \in Messages
      PROVE  OnePlace((m \in received)', Arrived(m)', Places(m)')
  <2>1. e # m
    BY <1>3, MessageType, SelfAssumption
  <2>2. Count(m, to_core') = Count(m, to_core) + IF e = m THEN 1 ELSE 0
    BY <1>2, <1>3, <1>4, CountAppend
  <2>3. Arrived(m)' = Arrived(m) /\ Places(m)' = Places(m)
    BY <1>1, <1>4, <2>1, <2>2, PlacesType DEF Arrived, Places, Waiting, waiting
  <2> QED BY <1>1, <1>4, <2>3 DEF PlacesInv
<1> QED BY <1>6, <1>7, <1>8 DEF IInv, PlacesInv

\* What a worker fetches are blocks, no messages.
LEMMA FetchInv ==
  ASSUME IInv, NEW p \in Peers, fetch(p)
  PROVE  IInv'
<1> DEFINE found == {b \in in_flight[p] \intersect peer_store(p) :
                       NetEvent_validate(BlockReceiveNetEvent(b, p))}
<1>1. PICK ans \in InAnyOrder(found) :
             events' = events \o [i \in DOMAIN ans |-> BlockReceiveNetEvent(ans[i], p)]
  BY DEF fetch
<1>2. /\ in_flight' = [in_flight EXCEPT ![p] = {}]
      /\ UNCHANGED <<block_cache, outstanding_reqs, reqs, received, to_core>>
  BY DEF fetch
<1>3. TypeOK /\ StoreIsClosed /\ PlacesInv /\ events \in Seq(NetEvents)
  BY DEF IInv, TypeOK
<1>4. found \in SUBSET Blocks /\ IsFiniteSet(found)
  <2>1. in_flight[p] \in SUBSET Blocks /\ IsFiniteSet(in_flight[p]) /\ found \in SUBSET in_flight[p]
    BY <1>3 DEF TypeOK
  <2> QED BY <2>1, FS_Subset
<1>5. Cardinality(found) \in Nat
  BY <1>4, FS_CardinalityType
<1> HIDE DEF found
<1> DEFINE n   == Cardinality(found)
           new == [i \in DOMAIN ans |-> BlockReceiveNetEvent(ans[i], p)]
<1>6. ans \in [1 .. n -> found]
  BY <1>1 DEF InAnyOrder
<1>7. \A i \in 1 .. n : BlockReceiveNetEvent(ans[i], p) \in NetEvents
  BY <1>4, <1>6 DEF BlockReceiveNetEvent, NetEvents
<1>8. new \in Seq(NetEvents) /\ Len(new) = n /\ \A i \in 1 .. n : new[i].type = "block"
  <2>1. new \in [1 .. n -> NetEvents]
    BY <1>6, <1>7
  <2>2. n \in Nat
    BY <1>5
  <2>3. new \in Seq(NetEvents) /\ Len(new) = n
    <3> HIDE DEF new, n
    <3> QED BY <2>1, <2>2
  <2>4. \A i \in 1 .. n : new[i].type = "block"
    BY <1>6 DEF BlockReceiveNetEvent
  <2> QED BY <2>3, <2>4
<1> HIDE DEF n, new
<1>9. events' = events \o new
  BY <1>1 DEF new
<1>10. TypeOK'
  <2>1. events' \in Seq(NetEvents)
    BY <1>3, <1>8, <1>9
  <2>2. in_flight' \in [Peers -> SUBSET Blocks] /\ \A q \in Peers : IsFiniteSet(in_flight'[q])
    BY <1>2, <1>3, FS_EmptySet DEF TypeOK
  <2> QED BY <1>2, <1>3, <2>1, <2>2 DEF TypeOK
<1>11. StoreIsClosed'
  BY <1>2, <1>3 DEF StoreIsClosed
<1>12. ASSUME NEW m \in Messages
       PROVE  OnePlace((m \in received)', Arrived(m)', Places(m)')
  <2>1. Count(m, events') = Count(m, events) + Count(m, new)
    BY <1>3, <1>8, <1>9, CountConcat
  <2>2. \A i \in 1 .. Len(new) : new[i] # m
    BY <1>8, MessageType
  <2>3. Count(m, new) = 0
    BY <1>8, <2>2, CountType
  <2>4. Arrived(m)' = Arrived(m) /\ Places(m)' = Places(m)
    BY <1>2, <1>3, <2>1, <2>3, PlacesType DEF Arrived, Places, Waiting, waiting
  <2> QED BY <1>2, <1>3, <2>4 DEF PlacesInv
<1> QED BY <1>10, <1>11, <1>12 DEF IInv, PlacesInv

\* The worker takes its requests, or puts them back when the call failed.
LEMMA WorkerInv ==
  ASSUME IInv, NEW p \in Peers, extract_reqs(p) \/ readd_request(p)
  PROVE  IInv'
<1>1. UNCHANGED <<block_cache, events, outstanding_reqs, received, to_core>>
  BY DEF extract_reqs, readd_request
<1>2. TypeOK /\ StoreIsClosed /\ PlacesInv
  BY DEF IInv
<1>3. /\ reqs' \in [Peers -> SUBSET Blocks] /\ in_flight' \in [Peers -> SUBSET Blocks]
      /\ \A q \in Peers : IsFiniteSet(reqs'[q]) /\ IsFiniteSet(in_flight'[q])
  <2>1. IsFiniteSet({}) /\ IsFiniteSet(reqs[p] \union in_flight[p])
    BY <1>2, FS_EmptySet, FS_Union DEF TypeOK
  <2> QED BY <1>2, <2>1 DEF TypeOK, extract_reqs, readd_request
<1>4. TypeOK' /\ StoreIsClosed'
  BY <1>1, <1>2, <1>3 DEF TypeOK, StoreIsClosed
<1>5. PlacesInv'
  BY <1>1, <1>2, PlacesUnchanged
<1> QED BY <1>4, <1>5 DEF IInv

\* The invariant is inductive.
LEMMA StepInv == IInv /\ [Next]_vars => IInv'
<1> SUFFICES ASSUME IInv, [Next]_vars PROVE IInv'
  OBVIOUS
<1>1. ASSUME NEW m \in Messages, receive(m) PROVE IInv'
  BY <1>1, ReceiveInv
<1>2. CASE on_vote
  BY <1>2, VoteInv
<1>3. CASE on_block
  BY <1>3, StoreInv, DependInv
<1>4. ASSUME NEW b \in Own, do_propose(b) PROVE IInv'
  BY <1>4, ProposeInv
<1>5. ASSUME NEW p \in Peers, extract_reqs(p) \/ fetch(p) \/ readd_request(p) PROVE IInv'
  BY <1>5, WorkerInv, FetchInv
<1>6. CASE UNCHANGED vars
  <2>1. PlacesInv'
    BY <1>6, PlacesUnchanged DEF vars, IInv
  <2> QED BY <1>6, <2>1 DEF vars, IInv, TypeOK, StoreIsClosed
<1> QED BY <1>1, <1>2, <1>3, <1>4, <1>5, <1>6 DEF Next

\* The invariant holds in every reachable state.
LEMMA Invariant == Spec => []IInv
<1> QED BY InitInv, StepInv, PTL DEF Spec

-----------------------------------------------------------------------------
\* Type correctness: every event in a queue or a request has passed its validation,
\* and the workers only ever ask for blocks.
THEOREM TypeCorrect == Spec => []TypeOK
<1>1. IInv => TypeOK
  BY DEF IInv
<1> QED BY <1>1, Invariant, PTL

\* The core can follow the links of every event it is handed, and no unsound message
\* gets past validate_and_add_event, for every tree of blocks.
THEOREM StoreClosed == Spec => []StoreIsClosed
<1>1. IInv => StoreIsClosed
  BY DEF IInv
<1> QED BY <1>1, Invariant, PTL

\* While on_event and deliver_block move events between the queue, the requests and
\* the core, no message that arrived is dropped or doubled.
THEOREM Conservation == Spec => []MessagesConserved
<1> SUFFICES ASSUME IInv PROVE MessagesConserved
  BY Invariant, PTL
<1> SUFFICES ASSUME NEW m \in received
             PROVE  \/ /\ Count(m, events) + Count(m, to_core) = 1
                       /\ \A h \in DOMAIN outstanding_reqs : Count(m, outstanding_reqs[h]) = 0
                    \/ /\ Count(m, events) + Count(m, to_core) = 0
                       /\ \E h \in DOMAIN outstanding_reqs :
                            /\ Count(m, outstanding_reqs[h]) = 1
                            /\ \A g \in DOMAIN outstanding_reqs \ {h} :
                                  Count(m, outstanding_reqs[g]) = 0
  BY DEF MessagesConserved
<1>1. m \in Messages /\ DOMAIN outstanding_reqs \subseteq Blocks
  BY DEF IInv, TypeOK
<1>2. OnePlace(m \in received, Arrived(m), Places(m))
  BY <1>1 DEF IInv, PlacesInv
<1>3. \A h \in Blocks : Places(m)[h] = IF h \in DOMAIN outstanding_reqs
                                         THEN Count(m, outstanding_reqs[h]) ELSE 0
  BY CountEmpty DEF Places, Waiting, waiting
<1> QED BY <1>1, <1>2, <1>3 DEF OnePlace, Arrived
=============================================================================
