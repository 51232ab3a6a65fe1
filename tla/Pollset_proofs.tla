--------------------------- MODULE Pollset_proofs ---------------------------
(***************************************************************************)
(* Proofs about Pollset, for every usage of the loop: the two views of the *)
(* descriptors agree whatever callbacks do, and poll() looks at entries    *)
(* that exist.                                                             *)
(*                                                                         *)
(* consolidate() is a loop over a table that shrinks as it goes.  It is    *)
(* reasoned about by induction on its steps: the entries above the one it  *)
(* is at are alive, and there is at least one.                             *)
(***************************************************************************)
EXTENDS Pollset, SequenceTheorems, FiniteSetTheorems, WellFoundedInduction, TLAPS

-----------------------------------------------------------------------------
(***************************************************************************)
(* Induction.                                                              *)
(***************************************************************************)
LessThan == {p \in Nat \X Nat : p[1] < p[2]}

LEMMA LessThanWellFounded == IsWellFoundedOn(LessThan, Nat)
  BY NatLessThanWellFounded, Zenon DEF OpToRel, LessThan

\* A set of numbers that is not empty has a least one.
LEMMA LeastNumber ==
  ASSUME NEW S \in SUBSET Nat, S # {}
  PROVE  \E n \in S : \A m \in S : n <= m
<1>1. PICK n \in S : \A m \in S : <<m, n>> \notin LessThan
  BY LessThanWellFounded, WFMin
<1>2. ASSUME NEW m \in S PROVE n <= m
  <2>1. m \in Nat /\ n \in Nat
    OBVIOUS
  <2>2. ~(m < n)
    <3>1. SUFFICES ASSUME m < n PROVE <<m, n>> \in LessThan
      BY <1>1
    <3> QED BY <2>1, <3>1 DEF LessThan
  <2> QED BY <2>1, <2>2
<1> QED BY <1>2

LEMMA StepByStep ==
  ASSUME NEW S, 0 \in S, \A n \in Nat : n \in S => n + 1 \in S
  PROVE  Nat \subseteq S
<1> SUFFICES ASSUME Nat \ S # {} PROVE FALSE
  OBVIOUS
<1>1. PICK n \in Nat \ S : \A m \in Nat \ S : n <= m
  BY LeastNumber
<1>2. n # 0 /\ n - 1 \in Nat
  BY <1>1
<1>3. n - 1 \in S
  BY <1>1, <1>2
<1> QED BY <1>1, <1>2, <1>3

LEMMA GreatestNumber ==
  ASSUME NEW k \in Nat, NEW S \in SUBSET (1 .. k), S # {}
  PROVE  \E n \in S : \A m \in S : m <= n
<1> DEFINE T == {k - n : n \in S}
<1>1. T \in SUBSET Nat /\ T # {}
  <2>1. \A n \in S : k - n \in Nat
    OBVIOUS
  <2> QED BY <2>1
<1>2. PICK l \in T : \A m \in T : l <= m
  BY <1>1, LeastNumber
<1>3. PICK n \in S : l = k - n
  BY <1>2
<1>4. ASSUME NEW m \in S PROVE m <= n
  <2>1. k - m \in T
    OBVIOUS
  <2>2. l <= k - m
    BY <1>2, <2>1
  <2> QED BY <1>3, <2>2
<1> QED BY <1>4

-----------------------------------------------------------------------------
(***************************************************************************)
(* The table.                                                              *)
(***************************************************************************)
Fds   == {SelfPipe} \union UNION {u.fds : u \in Usages}
Entry == [fd : Fds, events : SUBSET Dirs, revents : SUBSET (Reading \union Writing)]
State == [idx : Nat, cb : [Dirs -> Kinds \union {"none"}]]

Agree(t) ==
    /\ \A f \in DOMAIN t.cbs :
         LET c == t.cbs[f] IN
         /\ c.idx \in DOMAIN t.fds /\ t.fds[c.idx].fd = f
         /\ t.fds[c.idx].events = {d \in Dirs : c.cb[d] # "none"}
    /\ \A n \in DOMAIN t.fds :
         t.fds[n].fd \in DOMAIN t.cbs /\ t.cbs[t.fds[n].fd].idx = n

\* A table in which the two views agree and which has the self-pipe.
TableOK(t) ==
    /\ t = [fds |-> t.fds, cbs |-> t.cbs]
    /\ t.fds \in Seq(Entry)
    /\ DOMAIN t.cbs \subseteq Fds /\ t.cbs \in [DOMAIN t.cbs -> State]
    /\ Agree(t)
    /\ SelfPipe \in DOMAIN t.cbs /\ t.cbs[SelfPipe].cb = only("Read", "always")

\* What ::poll has reported is still there.
SameReports(t, u) == Len(t.fds) <= Len(u.fds) /\ Ready(u.fds) = Ready(t.fds)

LEMMA Replaced ==
  ASSUME NEW S, NEW s \in Seq(S), NEW i \in 1 .. Len(s), NEW e \in S,
         NEW v, v = [s EXCEPT ![i] = e]
  PROVE  /\ v \in Seq(S) /\ Len(v) = Len(s) /\ v[i] = e
         /\ \A n \in 1 .. Len(s) : n # i => v[n] = s[n]
  OBVIOUS

LEMMA FunctionIsSeq ==
  ASSUME NEW S, NEW k \in Nat, NEW s \in [1 .. k -> S]
  PROVE  s \in Seq(S) /\ Len(s) = k
  OBVIOUS

LEMMA FdsType ==
  ASSUME NEW t, TableOK(t)
  PROVE  /\ t.fds \in Seq(Entry) /\ Len(t.fds) \in Nat /\ DOMAIN t.fds = 1 .. Len(t.fds)
         /\ \A n \in DOMAIN t.fds : t.fds[n] \in Entry
  BY DEF TableOK

LEMMA CbsType ==
  ASSUME NEW t, TableOK(t)
  PROVE  /\ DOMAIN t.cbs \subseteq Fds /\ t.cbs \in [DOMAIN t.cbs -> State]
         /\ \A g \in DOMAIN t.cbs : t.cbs[g] \in State
         /\ SelfPipe \in DOMAIN t.cbs /\ t.cbs[SelfPipe].cb = only("Read", "always")
  BY DEF TableOK

\* Every descriptor has an entry, and every entry is the one of its descriptor.
LEMMA CbFacts ==
  ASSUME NEW t, TableOK(t), NEW g \in DOMAIN t.cbs
  PROVE  /\ t.cbs[g].idx \in DOMAIN t.fds /\ t.fds[t.cbs[g].idx].fd = g
         /\ t.fds[t.cbs[g].idx].events = {d \in Dirs : t.cbs[g].cb[d] # "none"}
  BY DEF TableOK, Agree

LEMMA EntryFacts ==
  ASSUME NEW t, TableOK(t), NEW n \in DOMAIN t.fds
  PROVE  t.fds[n].fd \in DOMAIN t.cbs /\ t.cbs[t.fds[n].fd].idx = n
  BY DEF TableOK, Agree

\* The callbacks of a descriptor change, and its entry with them.
LEMMA EditOK ==
  ASSUME NEW t, TableOK(t), NEW f \in DOMAIN t.cbs \ {SelfPipe},
         NEW cb \in [Dirs -> Kinds \union {"none"}], NEW e \in Entry,
         e.fd = f, e.revents = t.fds[t.cbs[f].idx].revents,
         e.events = {d \in Dirs : cb[d] # "none"},
         NEW u, u = [fds |-> [t.fds EXCEPT ![t.cbs[f].idx] = e],
                     cbs |-> [t.cbs EXCEPT ![f] = [idx |-> t.cbs[f].idx, cb |-> cb]]]
  PROVE  TableOK(u) /\ SameReports(t, u)
<1> DEFINE i == t.cbs[f].idx
           c == [idx |-> i, cb |-> cb]
<1>1. i \in DOMAIN t.fds /\ t.fds[i].fd = f /\ i \in Nat /\ c \in State
  BY CbFacts, FdsType, CbsType DEF State
<1>2. c.idx = i /\ c.cb = cb
  OBVIOUS
<1>3. u.fds = [t.fds EXCEPT ![i] = e] /\ u.cbs = [t.cbs EXCEPT ![f] = c]
      /\ u = [fds |-> u.fds, cbs |-> u.cbs]
  OBVIOUS
<1> HIDE DEF c, i
<1>4. /\ u.fds \in Seq(Entry) /\ DOMAIN u.fds = DOMAIN t.fds /\ Len(u.fds) = Len(t.fds)
      /\ u.fds[i] = e /\ \A n \in DOMAIN t.fds \ {i} : u.fds[n] = t.fds[n]
  <2>1. t.fds \in Seq(Entry) /\ i \in 1 .. Len(t.fds)
    BY <1>1, FdsType
  <2>2. /\ u.fds \in Seq(Entry) /\ Len(u.fds) = Len(t.fds) /\ u.fds[i] = e
        /\ \A n \in 1 .. Len(t.fds) : n # i => u.fds[n] = t.fds[n]
    <3> DEFINE s == t.fds
               v == u.fds
    <3>1. s \in Seq(Entry) /\ i \in 1 .. Len(s) /\ v = [s EXCEPT ![i] = e]
      BY <1>3, <2>1
    <3> HIDE DEF s, v
    <3>2. /\ v \in Seq(Entry) /\ Len(v) = Len(s) /\ v[i] = e
          /\ \A n \in 1 .. Len(s) : n # i => v[n] = s[n]
      BY <3>1, Replaced
    <3> QED BY <3>2 DEF s, v
  <2> QED BY <2>1, <2>2, FdsType
<1>5. /\ DOMAIN u.cbs = DOMAIN t.cbs /\ u.cbs \in [DOMAIN u.cbs -> State]
      /\ u.cbs[f] = c /\ \A g \in DOMAIN t.cbs \ {f} : u.cbs[g] = t.cbs[g]
  BY <1>1, <1>3, CbsType
<1>6. ASSUME NEW g \in DOMAIN u.cbs
      PROVE  /\ u.cbs[g].idx \in DOMAIN u.fds /\ u.fds[u.cbs[g].idx].fd = g
             /\ u.fds[u.cbs[g].idx].events = {d \in Dirs : u.cbs[g].cb[d] # "none"}
  <2>1. CASE g = f
    BY <1>1, <1>2, <1>4, <1>5, <2>1
  <2>2. CASE g # f
    <3>1. u.cbs[g] = t.cbs[g] /\ t.cbs[g].idx \in DOMAIN t.fds /\ t.fds[t.cbs[g].idx].fd = g
      BY <1>5, <2>2, CbFacts
    <3>2. t.cbs[g].idx # i
      BY <1>1, <2>2, <3>1
    <3>3. u.fds[t.cbs[g].idx] = t.fds[t.cbs[g].idx]
      BY <1>4, <3>1, <3>2
    <3>4. t.fds[t.cbs[g].idx].events = {d \in Dirs : t.cbs[g].cb[d] # "none"}
      BY <1>5, CbFacts
    <3> QED BY <1>4, <3>1, <3>3, <3>4
  <2> QED BY <2>1, <2>2
<1>7. ASSUME NEW n \in DOMAIN u.fds
      PROVE  u.fds[n].fd \in DOMAIN u.cbs /\ u.cbs[u.fds[n].fd].idx = n
  <2>1. CASE n = i
    BY <1>2, <1>4, <1>5, <2>1
  <2>2. CASE n # i
    <3>1. u.fds[n] = t.fds[n] /\ t.fds[n].fd \in DOMAIN t.cbs /\ t.cbs[t.fds[n].fd].idx = n
      BY <1>4, <2>2, EntryFacts
    <3>2. t.fds[n].fd # f
      BY <2>2, <3>1 DEF i
    <3> QED BY <1>5, <3>1, <3>2
  <2> QED BY <2>1, <2>2
<1>8. Agree(u)
  BY <1>6, <1>7 DEF Agree
<1>9. SelfPipe \in DOMAIN u.cbs /\ u.cbs[SelfPipe].cb = only("Read", "always")
  BY <1>5, CbsType
<1>10. TableOK(u)
  BY <1>3, <1>4, <1>5, <1>8, <1>9, CbsType DEF TableOK
<1>11. \A n \in DOMAIN t.fds : u.fds[n].revents = t.fds[n].revents
  BY <1>4 DEF i
<1>12. SameReports(t, u)
  BY <1>4, <1>11, FdsType DEF SameReports, Ready
<1> QED BY <1>10, <1>12

LEMMA FdCbOK ==
  ASSUME NEW t, TableOK(t), NEW f \in Fds \ {SelfPipe}, NEW d \in Dirs, NEW k \in Kinds
  PROVE  TableOK(fd_cb(t, f, d, k)) /\ SameReports(t, fd_cb(t, f, d, k))
<1> DEFINE u == fd_cb(t, f, d, k)
<1>1. CASE f \in DOMAIN t.cbs
  <2> DEFINE i  == t.cbs[f].idx
             cb == [t.cbs[f].cb EXCEPT ![d] = k]
             e  == [t.fds[i] EXCEPT !.events = @ \union {d}]
  <2>1. i \in DOMAIN t.fds /\ t.fds[i] \in Entry /\ t.fds[i].fd = f /\ t.cbs[f] \in State
        /\ t.fds[i].events = {x \in Dirs : t.cbs[f].cb[x] # "none"}
    BY <1>1, CbFacts, FdsType, CbsType
  <2>2. /\ e \in Entry /\ e.fd = f /\ e.revents = t.fds[i].revents
        /\ e.events = t.fds[i].events \union {d}
    BY <2>1 DEF Entry
  <2>3. cb \in [Dirs -> Kinds \union {"none"}] /\ k # "none"
        /\ cb[d] = k /\ \A x \in Dirs \ {d} : cb[x] = t.cbs[f].cb[x]
    BY <2>1 DEF State, Kinds
  <2>4. e.events = {x \in Dirs : cb[x] # "none"}
    BY <2>1, <2>2, <2>3
  <2>5. [t.cbs[f] EXCEPT !.cb[d] = k] = [idx |-> i, cb |-> cb]
    BY <2>1 DEF State
  <2>6. u = [fds |-> [t.fds EXCEPT ![i] = e],
             cbs |-> [t.cbs EXCEPT ![f] = [idx |-> i, cb |-> cb]]]
    BY <1>1, <2>5 DEF fd_cb
  <2> HIDE DEF cb, e, u
  <2> QED BY <1>1, <2>2, <2>3, <2>4, <2>6, EditOK DEF u
<1>2. CASE f \notin DOMAIN t.cbs
  <2> DEFINE e == [fd |-> f, events |-> {d}, revents |-> {}]
             c == [idx |-> Len(t.fds) + 1, cb |-> only(d, k)]
  <2>1. t.fds \in Seq(Entry) /\ t.cbs \in [DOMAIN t.cbs -> State] /\ Len(t.fds) \in Nat
        /\ DOMAIN t.fds = 1 .. Len(t.fds)
    BY DEF TableOK
  <2>2. u = [fds |-> Append(t.fds, e),
             cbs |-> [g \in DOMAIN t.cbs \union {f} |-> IF g = f THEN c ELSE t.cbs[g]]]
    BY <1>2 DEF fd_cb
  <2>3. e \in Entry /\ c \in State /\ {x \in Dirs : c.cb[x] # "none"} = {d}
    BY <2>1 DEF Entry, State, only, Kinds
  <2> HIDE DEF e, c
  <2>4. /\ u.fds \in Seq(Entry) /\ Len(u.fds) = Len(t.fds) + 1
        /\ \A n \in DOMAIN t.fds : u.fds[n] = t.fds[n]
        /\ u.fds[Len(t.fds) + 1] = e /\ DOMAIN u.fds = 1 .. Len(t.fds) + 1
    BY <2>1, <2>2, <2>3
  <2>5. /\ DOMAIN u.cbs = DOMAIN t.cbs \union {f} /\ u.cbs \in [DOMAIN t.cbs \union {f} -> State]
        /\ \A g \in DOMAIN t.cbs : u.cbs[g] = t.cbs[g]
        /\ u.cbs[f] = c
    BY <1>2, <2>1, <2>2, <2>3
  <2> HIDE DEF u
  <2>6. Agree(u)
    <3>1. \A g \in DOMAIN t.cbs :
            /\ u.cbs[g].idx \in DOMAIN u.fds /\ u.fds[u.cbs[g].idx].fd = g
            /\ u.fds[u.cbs[g].idx].events = {x \in Dirs : u.cbs[g].cb[x] # "none"}
      <4> TAKE g \in DOMAIN t.cbs
      <4>1. u.cbs[g] = t.cbs[g] /\ t.cbs[g].idx \in DOMAIN t.fds /\ t.fds[t.cbs[g].idx].fd = g
        BY <2>5, CbFacts
      <4>2. u.fds[t.cbs[g].idx] = t.fds[t.cbs[g].idx] /\ t.cbs[g].idx \in DOMAIN u.fds
        BY <2>1, <2>4, <4>1
      <4>3. t.fds[t.cbs[g].idx].events = {x \in Dirs : t.cbs[g].cb[x] # "none"}
        BY CbFacts
      <4> QED BY <4>1, <4>2, <4>3
    <3>2. /\ u.cbs[f].idx \in DOMAIN u.fds /\ u.fds[u.cbs[f].idx].fd = f
          /\ u.fds[u.cbs[f].idx].events = {x \in Dirs : u.cbs[f].cb[x] # "none"}
      BY <2>1, <2>3, <2>4, <2>5 DEF e, c
    <3>3. \A n \in DOMAIN t.fds : u.fds[n].fd \in DOMAIN u.cbs /\ u.cbs[u.fds[n].fd].idx = n
      <4> TAKE n \in DOMAIN t.fds
      <4>1. t.fds[n].fd \in DOMAIN t.cbs /\ t.cbs[t.fds[n].fd].idx = n
        BY EntryFacts
      <4> QED BY <2>4, <2>5, <4>1
    <3>4. u.fds[Len(t.fds) + 1].fd \in DOMAIN u.cbs /\ u.cbs[u.fds[Len(t.fds) + 1].fd].idx = Len(t.fds) + 1
      BY <2>4, <2>5 DEF e, c
    <3>5. DOMAIN u.fds = DOMAIN t.fds \union {Len(t.fds) + 1}
      BY <2>1, <2>4
    <3>6. \A g \in DOMAIN u.cbs :
            /\ u.cbs[g].idx \in DOMAIN u.fds /\ u.fds[u.cbs[g].idx].fd = g
            /\ u.fds[u.cbs[g].idx].events = {x \in Dirs : u.cbs[g].cb[x] # "none"}
      BY <2>5, <3>1, <3>2
    <3>7. \A n \in DOMAIN u.fds : u.fds[n].fd \in DOMAIN u.cbs /\ u.cbs[u.fds[n].fd].idx = n
      BY <3>3, <3>4, <3>5
    <3> QED BY <3>6, <3>7 DEF Agree
  <2>7. TableOK(u)
    BY <2>2, <2>4, <2>5, <2>6 DEF TableOK
  <2>8. SameReports(t, u)
    <3>1. u.fds[Len(t.fds) + 1].revents = {}
      BY <2>4 DEF e
    <3>2. DOMAIN u.fds = DOMAIN t.fds \union {Len(t.fds) + 1}
      BY <2>1, <2>4
    <3> QED BY <2>1, <2>4, <3>1, <3>2 DEF SameReports, Ready
  <2> QED BY <2>7, <2>8 DEF u
<1> QED BY <1>1, <1>2

LEMMA FdCbNullOK ==
  ASSUME NEW t, TableOK(t), NEW f \in Fds \ {SelfPipe}, NEW ds \in SUBSET Dirs
  PROVE  TableOK(fd_cb_null(t, f, ds)) /\ SameReports(t, fd_cb_null(t, f, ds))
<1> DEFINE u == fd_cb_null(t, f, ds)
<1>1. CASE f \notin DOMAIN t.cbs
  BY <1>1 DEF fd_cb_null, SameReports, TableOK
<1>2. CASE f \in DOMAIN t.cbs
  <2> DEFINE i  == t.cbs[f].idx
             cb == [x \in Dirs |-> IF x \in ds THEN "none" ELSE t.cbs[f].cb[x]]
             e  == [t.fds[i] EXCEPT !.events = @ \ ds]
  <2>1. i \in DOMAIN t.fds /\ t.fds[i] \in Entry /\ t.fds[i].fd = f /\ t.cbs[f] \in State
        /\ t.fds[i].events = {x \in Dirs : t.cbs[f].cb[x] # "none"}
    BY <1>2, CbFacts, FdsType, CbsType
  <2>2. /\ e \in Entry /\ e.fd = f /\ e.revents = t.fds[i].revents
        /\ e.events = t.fds[i].events \ ds
    BY <2>1 DEF Entry
  <2>3. cb \in [Dirs -> Kinds \union {"none"}]
        /\ \A x \in Dirs : cb[x] = IF x \in ds THEN "none" ELSE t.cbs[f].cb[x]
    BY <2>1 DEF State
  <2>4. e.events = {x \in Dirs : cb[x] # "none"}
    BY <2>1, <2>2, <2>3
  <2>5. [t.cbs[f] EXCEPT !.cb = [x \in Dirs |-> IF x \in ds THEN "none" ELSE @[x]]]
          = [idx |-> i, cb |-> cb]
    BY <2>1 DEF State
  <2>6. u = [fds |-> [t.fds EXCEPT ![i] = e],
             cbs |-> [t.cbs EXCEPT ![f] = [idx |-> i, cb |-> cb]]]
    BY <1>2, <2>5 DEF fd_cb_null
  <2> HIDE DEF cb, e, u
  <2> QED BY <1>2, <2>2, <2>3, <2>4, <2>6, EditOK DEF u
<1> QED BY <1>1, <1>2

LEMMA TakeOutOK ==
  ASSUME NEW t, TableOK(t), NEW f \in DOMAIN t.cbs, NEW d \in Dirs
  PROVE  TableOK(take_out(t, f, d)) /\ SameReports(t, take_out(t, f, d))
<1>1. CASE t.cbs[f].cb[d] = "once"
  <2>1. f \in Fds \ {SelfPipe}
    BY <1>1 DEF TableOK, only
  <2> QED BY <1>1, <2>1, FdCbNullOK DEF take_out
<1>2. CASE t.cbs[f].cb[d] # "once"
  BY <1>2 DEF take_out, SameReports, TableOK
<1> QED BY <1>1, <1>2

-----------------------------------------------------------------------------
(***************************************************************************)
(* consolidate().                                                          *)
(***************************************************************************)
Alive(t, n) == t.fds[n].events # {}

LEMMA SelfPipeAlive ==
  ASSUME NEW t, TableOK(t)
  PROVE  t.cbs[SelfPipe].idx \in DOMAIN t.fds /\ Alive(t, t.cbs[SelfPipe].idx)
<1>1. t.fds[t.cbs[SelfPipe].idx].events = {d \in Dirs : only("Read", "always")[d] # "none"}
      /\ t.cbs[SelfPipe].idx \in DOMAIN t.fds
  BY CbFacts, CbsType
<1>2. only("Read", "always")["Read"] = "always" /\ "Read" \in Dirs /\ "always" # "none"
  BY DEF only, Dirs
<1>3. "Read" \in t.fds[t.cbs[SelfPipe].idx].events
  BY <1>1, <1>2
<1> QED BY <1>1, <1>3 DEF Alive

\* A step of the second loop, the entries above i being alive.
LEMMA FillHoleOK ==
  ASSUME NEW t, TableOK(t), NEW i \in 1 .. Len(t.fds) - 1,
         \A n \in i + 1 .. Len(t.fds) : Alive(t, n),
         NEW u, u = fill_hole(t, i)
  PROVE  TableOK(u) /\ i <= Len(u.fds) /\ \A n \in i .. Len(u.fds) : Alive(u, n)
<1> DEFINE L == Len(t.fds)
           s == t.fds
<1>0. s \in Seq(Entry) /\ L \in Nat /\ L = Len(s) /\ DOMAIN s = 1 .. L
      /\ i \in 1 .. L /\ i \in Nat /\ i < L
      /\ \A n \in 1 .. L : s[n] \in Entry
  BY FdsType
<1>1. CASE t.fds[i].events # {}
  <2>1. u = t
    BY <1>1 DEF fill_hole
  <2>2. \A n \in i .. L : n = i \/ n \in i + 1 .. L
    BY <1>0
  <2> QED BY <1>0, <1>1, <2>1, <2>2 DEF Alive
<1>2. CASE t.fds[i].events = {}
  <2> DEFINE h == s[i].fd
             g == s[L].fd
             w == [s EXCEPT ![i] = s[L]]
             c == [t.cbs[g] EXCEPT !.idx = i]
  <2>1. /\ h \in DOMAIN t.cbs /\ t.cbs[h].idx = i
        /\ g \in DOMAIN t.cbs /\ t.cbs[g].idx = L /\ g # h
    BY <1>0, EntryFacts
  <2>2. h # SelfPipe
    BY <1>2, <2>1, SelfPipeAlive DEF Alive
  <2>3. u.fds = SubSeq(w, 1, L - 1) /\ u.cbs = [Without(t, h) EXCEPT ![g] = c]
        /\ u = [fds |-> u.fds, cbs |-> u.cbs]
    <3>1. w \in Seq(Entry) /\ Len(w) = L
      BY <1>0
    <3>2. g \in DOMAIN Without(t, h) /\ Without(t, h)[g] = t.cbs[g]
      BY <2>1 DEF Without
    <3> QED BY <1>2, <3>1, <3>2 DEF fill_hole, Front, Last
  <2>4. /\ w \in Seq(Entry) /\ Len(w) = L /\ w[i] = s[L]
        /\ \A n \in 1 .. L : n # i => w[n] = s[n]
    BY <1>0, Replaced
  <2> HIDE DEF w, s, L
  <2>5. /\ u.fds \in Seq(Entry) /\ Len(u.fds) = L - 1 /\ DOMAIN u.fds = 1 .. L - 1
        /\ u.fds[i] = s[L] /\ \A n \in 1 .. L - 1 : n # i => u.fds[n] = s[n]
    BY <1>0, <2>3, <2>4
  <2>6. /\ c \in State /\ c.idx = i /\ c.cb = t.cbs[g].cb
    BY <1>0, <2>1, CbsType DEF State
  <2> HIDE DEF c
  <2>7. /\ DOMAIN u.cbs = DOMAIN t.cbs \ {h} /\ u.cbs \in [DOMAIN u.cbs -> State]
        /\ u.cbs[g] = c /\ \A x \in DOMAIN t.cbs \ {g, h} : u.cbs[x] = t.cbs[x]
    BY <2>1, <2>3, <2>6, CbsType DEF Without
  <2> HIDE DEF g, h
  <2>8. ASSUME NEW x \in DOMAIN u.cbs
        PROVE  /\ u.cbs[x].idx \in DOMAIN u.fds /\ u.fds[u.cbs[x].idx].fd = x
               /\ u.fds[u.cbs[x].idx].events = {d \in Dirs : u.cbs[x].cb[d] # "none"}
    <3>1. CASE x = g
      <4>1. u.cbs[x].idx = i /\ u.cbs[x].cb = t.cbs[g].cb /\ u.fds[i] = s[L]
        BY <2>5, <2>6, <2>7, <3>1
      <4>2. s[L].fd = g /\ s[L].events = {d \in Dirs : t.cbs[g].cb[d] # "none"}
        BY <2>1, CbFacts DEF s, g
      <4> QED BY <1>0, <2>5, <3>1, <4>1, <4>2
    <3>2. CASE x # g
      <4>1. /\ u.cbs[x] = t.cbs[x] /\ t.cbs[x].idx \in 1 .. L /\ s[t.cbs[x].idx].fd = x
            /\ s[t.cbs[x].idx].events = {d \in Dirs : t.cbs[x].cb[d] # "none"}
        BY <1>0, <2>7, <3>2, CbFacts DEF s
      <4>2. t.cbs[x].idx # i /\ t.cbs[x].idx # L
        BY <2>7, <3>2, <4>1 DEF g, h
      <4>3. t.cbs[x].idx \in 1 .. L - 1 /\ u.fds[t.cbs[x].idx] = s[t.cbs[x].idx]
        BY <1>0, <2>5, <4>1, <4>2
      <4> QED BY <2>5, <4>1, <4>3
    <3> QED BY <3>1, <3>2
  <2>9. ASSUME NEW n \in DOMAIN u.fds
        PROVE  u.fds[n].fd \in DOMAIN u.cbs /\ u.cbs[u.fds[n].fd].idx = n
    <3>1. CASE n = i
      BY <2>1, <2>5, <2>6, <2>7, <3>1 DEF g
    <3>2. CASE n # i
      <4>1. n \in 1 .. L /\ n # L /\ u.fds[n] = s[n]
        BY <1>0, <2>5, <3>2
      <4>2. s[n].fd \in DOMAIN t.cbs /\ t.cbs[s[n].fd].idx = n
        BY <1>0, <4>1, EntryFacts DEF s
      <4>3. s[n].fd # g /\ s[n].fd # h
        BY <2>1, <3>2, <4>1, <4>2
      <4> QED BY <2>7, <4>1, <4>2, <4>3
    <3> QED BY <3>1, <3>2
  <2>10. Agree(u)
    BY <2>8, <2>9 DEF Agree
  <2>11. SelfPipe \in DOMAIN u.cbs /\ u.cbs[SelfPipe].cb = only("Read", "always")
    BY <2>2, <2>6, <2>7, CbsType
  <2>12. TableOK(u)
    BY <2>3, <2>5, <2>7, <2>10, <2>11, CbsType DEF TableOK
  <2>13. ASSUME NEW n \in i .. Len(u.fds) PROVE Alive(u, n)
    <3>1. s[L].events # {}
      <4>1. L \in i + 1 .. Len(t.fds)
        BY <1>0 DEF L
      <4> QED BY <4>1 DEF Alive, s
    <3>2. CASE n = i
      BY <2>5, <3>1, <3>2 DEF Alive
    <3>3. CASE n # i
      <4>1. n \in i + 1 .. Len(t.fds) /\ u.fds[n] = s[n]
        <5>1. n \in i .. L - 1
          BY <2>5
        <5>2. n \in 1 .. L - 1 /\ n \in i + 1 .. L
          BY <1>0, <3>3, <5>1
        <5> QED BY <2>5, <3>3, <5>2 DEF L
      <4> QED BY <4>1 DEF Alive, s
    <3> QED BY <3>2, <3>3
  <2> QED BY <1>0, <2>5, <2>12, <2>13
<1> QED BY <1>1, <1>2

\* The first loop: what is left ends with a live entry.
LEMMA TrimOK ==
  ASSUME NEW t, TableOK(t), NEW u, u = trim(t)
  PROVE  TableOK(u) /\ Len(u.fds) \in Nat \ {0} /\ Alive(u, Len(u.fds))
<1> DEFINE s == t.fds
           l == LastAlive(t)
<1>0. s \in Seq(Entry) /\ Len(s) \in Nat /\ DOMAIN s = 1 .. Len(s)
      /\ \A n \in 1 .. Len(s) : s[n] \in Entry
  BY FdsType
<1>1. /\ l \in 1 .. Len(s) /\ s[l].events # {}
      /\ \A m \in l + 1 .. Len(s) : s[m].events = {}
  <2> DEFINE A == {n \in 1 .. Len(s) : s[n].events # {}}
  <2>1. A # {} /\ A \in SUBSET (1 .. Len(s))
    BY <1>0, SelfPipeAlive DEF Alive
  <2>2. PICK n \in A : \A m \in A : m <= n
    <3> HIDE DEF A, s
    <3> QED BY <1>0, <2>1, GreatestNumber
  <2>3. \A m \in n + 1 .. Len(s) : s[m].events = {}
    <3> TAKE m \in n + 1 .. Len(s)
    <3>1. m \in 1 .. Len(s) /\ ~(m <= n)
      BY <1>0
    <3> QED BY <2>2, <3>1
  <2>4. \E k \in 1 .. Len(t.fds) :
          t.fds[k].events # {} /\ \A m \in k + 1 .. Len(t.fds) : t.fds[m].events = {}
    BY <2>2, <2>3
  <2> QED BY <2>4 DEF LastAlive
<1> DEFINE kept == SubSeq(s, 1, l)
<1> HIDE DEF l
<1>2. kept \in Seq(Entry) /\ Len(kept) = l /\ DOMAIN kept = 1 .. l
      /\ \A n \in 1 .. l : kept[n] = s[n]
  <2> HIDE DEF s
  <2> QED BY <1>0, <1>1
<1>3. u.fds = kept /\ u.cbs = [f \in {kept[n].fd : n \in DOMAIN kept} |-> t.cbs[f]]
      /\ u = [fds |-> u.fds, cbs |-> u.cbs]
  BY DEF trim, l
<1> HIDE DEF kept
<1>4. ASSUME NEW n \in 1 .. l
      PROVE  n \in DOMAIN t.fds /\ s[n].fd \in DOMAIN t.cbs /\ t.cbs[s[n].fd].idx = n
  <2>1. n \in DOMAIN t.fds
    BY <1>0, <1>1
  <2> QED BY <2>1, EntryFacts
<1> DEFINE D == {s[n].fd : n \in 1 .. l}
<1>5. DOMAIN u.cbs = D /\ D \subseteq DOMAIN t.cbs /\ \A f \in D : u.cbs[f] = t.cbs[f]
  BY <1>2, <1>3, <1>4
<1>6. u.cbs \in [DOMAIN u.cbs -> State]
  <2>1. u.cbs = [f \in D |-> t.cbs[f]]
    BY <1>2, <1>3
  <2>2. \A f \in D : t.cbs[f] \in State
    BY <1>5, CbsType
  <2> HIDE DEF D
  <2> QED BY <1>5, <2>1, <2>2
<1> HIDE DEF s
<1>7. ASSUME NEW f \in DOMAIN u.cbs
      PROVE  /\ u.cbs[f].idx \in DOMAIN u.fds /\ u.fds[u.cbs[f].idx].fd = f
             /\ u.fds[u.cbs[f].idx].events = {d \in Dirs : u.cbs[f].cb[d] # "none"}
  <2>1. PICK n \in 1 .. l : f = s[n].fd
    BY <1>5
  <2>2. f \in DOMAIN t.cbs /\ t.cbs[f].idx = n /\ u.cbs[f] = t.cbs[f]
    BY <1>4, <1>5, <2>1
  <2>3. s[n].events = {d \in Dirs : t.cbs[f].cb[d] # "none"}
    BY <2>2, CbFacts DEF s
  <2>4. n \in DOMAIN u.fds /\ u.fds[n] = s[n]
    BY <1>2, <1>3
  <2> QED BY <2>1, <2>2, <2>3, <2>4
<1>8. ASSUME NEW n \in DOMAIN u.fds
      PROVE  u.fds[n].fd \in DOMAIN u.cbs /\ u.cbs[u.fds[n].fd].idx = n
  BY <1>2, <1>3, <1>4, <1>5
<1>9. SelfPipe \in DOMAIN u.cbs /\ u.cbs[SelfPipe].cb = only("Read", "always")
  <2> DEFINE i == t.cbs[SelfPipe].idx
  <2>1. i \in 1 .. Len(s) /\ s[i].events # {} /\ s[i].fd = SelfPipe
    BY <1>0, SelfPipeAlive, CbFacts, CbsType DEF Alive, s
  <2>2. i \in 1 .. l
    BY <1>0, <1>1, <2>1
  <2> QED BY <1>5, <2>1, <2>2, CbsType
<1>10. Agree(u)
  BY <1>7, <1>8 DEF Agree
<1>11. TableOK(u)
  BY <1>2, <1>3, <1>5, <1>6, <1>9, <1>10, CbsType DEF TableOK
<1> QED BY <1>1, <1>2, <1>3, <1>11 DEF Alive

\* The second loop after up to m steps, on a table of L entries.
Filled(m, L, T, g) ==
    [i \in 0 .. m |-> IF i = 0 THEN T ELSE fill_hole(g[i - 1], L - i)]

LEMMA FilledExists ==
  ASSUME NEW k \in Nat, NEW L, NEW T
  PROVE  \E g : g = Filled(k, L, T, g)
<1> DEFINE S == {m \in Nat : \E g : g = Filled(m, L, T, g)}
<1>1. 0 \in S
  <2> DEFINE g == [i \in 0 .. 0 |-> T]
  <2>1. g = Filled(0, L, T, g)
    BY DEF Filled
  <2> QED BY <2>1
<1>2. ASSUME NEW m \in Nat, m \in S PROVE m + 1 \in S
  <2>1. PICK g : g = Filled(m, L, T, g)
    BY <1>2
  <2> DEFINE h == [i \in 0 .. m + 1 |-> IF i <= m THEN g[i] ELSE fill_hole(g[m], L - i)]
  <2>2. \A i \in 0 .. m : h[i] = g[i]
    OBVIOUS
  <2>3. h[m + 1] = fill_hole(g[m], L - (m + 1))
    OBVIOUS
  <2>4. \A i \in 0 .. m : g[i] = IF i = 0 THEN T ELSE fill_hole(g[i - 1], L - i)
    BY <2>1 DEF Filled
  <2>5. DOMAIN h = 0 .. m + 1 /\ h = [i \in 0 .. m + 1 |-> h[i]]
    OBVIOUS
  <2> HIDE DEF h
  <2>6. ASSUME NEW i \in 0 .. m + 1
        PROVE  h[i] = IF i = 0 THEN T ELSE fill_hole(h[i - 1], L - i)
    <3>1. CASE i = m + 1
      <4>1. m \in 0 .. m /\ i # 0 /\ i - 1 = m
        BY <3>1
      <4>2. h[i - 1] = g[m]
        BY <2>2, <4>1
      <4> QED BY <2>3, <3>1, <4>1, <4>2
    <3>2. CASE i \in 0 .. m
      <4>1. CASE i = 0
        BY <2>2, <2>4, <3>2, <4>1
      <4>2. CASE i # 0
        <5>1. i - 1 \in 0 .. m
          BY <3>2, <4>2
        <5> QED BY <2>2, <2>4, <3>2, <4>2, <5>1
      <4> QED BY <4>1, <4>2
    <3> QED BY <3>1, <3>2
  <2>7. h = Filled(m + 1, L, T, h)
    BY <2>5, <2>6 DEF Filled
  <2> QED BY <2>7
<1>3. Nat \subseteq S
  <2> HIDE DEF S
  <2> QED BY <1>1, <1>2, StepByStep
<1> QED BY <1>3

\* consolidate() keeps the two views in agreement and leaves no dead entry.
LEMMA ConsolidateOK ==
  ASSUME NEW t, TableOK(t), NEW u, u = consolidate(t)
  PROVE  TableOK(u) /\ \A n \in DOMAIN u.fds : Alive(u, n)
<1> DEFINE T == trim(t)
           L == Len(T.fds)
           k == L - 1
           g == CHOOSE f : f = Filled(k, L, T, f)
<1>1. TableOK(T) /\ k \in Nat /\ L = k + 1 /\ L = Len(T.fds) /\ Alive(T, L)
  BY TrimOK
<1>2. u = g[k]
  BY DEF consolidate, Filled
<1> HIDE DEF T, L, k
<1>3. g = Filled(k, L, T, g)
  BY <1>1, FilledExists
<1> HIDE DEF g
<1>4. \A i \in 0 .. k : g[i] = IF i = 0 THEN T ELSE fill_hole(g[i - 1], L - i)
  BY <1>3 DEF Filled
<1> DEFINE Good(i) == /\ TableOK(g[i]) /\ L - i <= Len(g[i].fds)
                      /\ \A n \in L - i .. Len(g[i].fds) : Alive(g[i], n)
           S == {i \in Nat : i <= k => Good(i)}
<1>5. 0 \in S
  <2>1. g[0] = T
    BY <1>1, <1>4
  <2>2. ASSUME NEW n \in L - 0 .. Len(T.fds) PROVE Alive(T, n)
    <3>1. n = Len(T.fds)
      BY <1>1
    <3> QED BY <1>1, <3>1
  <2>3. L - 0 <= Len(T.fds)
    BY <1>1
  <2> QED BY <1>1, <2>1, <2>2, <2>3
<1>6. ASSUME NEW i \in Nat, i \in S PROVE i + 1 \in S
  <2> SUFFICES ASSUME i + 1 <= k PROVE Good(i + 1)
    OBVIOUS
  <2> DEFINE j == L - (i + 1)
  <2>1. Good(i)
    BY <1>1, <1>6
  <2>2. g[i + 1] = fill_hole(g[i], j)
    <3>1. i + 1 \in 0 .. k /\ i + 1 # 0 /\ (i + 1) - 1 = i
      BY <1>1
    <3> QED BY <1>4, <3>1
  <2>3. Len(g[i].fds) \in Nat
    BY <2>1, FdsType
  <2>4. j \in 1 .. Len(g[i].fds) - 1 /\ j + 1 = L - i
    BY <1>1, <2>1, <2>3
  <2>5. \A n \in j + 1 .. Len(g[i].fds) : Alive(g[i], n)
    BY <2>1, <2>4
  <2> HIDE DEF j
  <2>6. TableOK(g[i + 1]) /\ j <= Len(g[i + 1].fds)
        /\ \A n \in j .. Len(g[i + 1].fds) : Alive(g[i + 1], n)
    BY <2>1, <2>2, <2>4, <2>5, FillHoleOK
  <2> QED BY <2>6 DEF j
<1>7. Nat \subseteq S
  <2> HIDE DEF S
  <2> QED BY <1>5, <1>6, StepByStep
<1>8. Good(k)
  BY <1>1, <1>7
<1>9. L - k = 1
  BY <1>1
<1>10. DOMAIN u.fds = 1 .. Len(u.fds)
  BY <1>2, <1>8, FdsType
<1> QED BY <1>2, <1>8, <1>9, <1>10

-----------------------------------------------------------------------------
(***************************************************************************)
(* What a callback and ::poll do to the table.                             *)
(***************************************************************************)
LEMMA CallOK ==
  ASSUME NEW t, TableOK(t), usage \in Usages, call(t)
  PROVE  TableOK(table') /\ SameReports(t, table')
<1>0. TableOK(t) /\ SameReports(t, t)
  BY FdsType DEF SameReports
<1>1. ASSUME NEW f \in usage.fds PROVE f \in Fds \ {SelfPipe}
  BY <1>1, UsagesAssumption DEF Fds
<1>2. CASE table' = t
  BY <1>0, <1>2
<1>3. CASE call_fd(t)
  <2>1. PICK f \in usage.fds :
          \/ \E d \in Dirs, k \in Kinds : table' = fd_cb(t, f, d, k)
          \/ \E ds \in SUBSET Dirs \ {{}} : table' = fd_cb_null(t, f, ds)
    BY <1>3 DEF call_fd
  <2>2. f \in Fds \ {SelfPipe}
    BY <1>1
  <2>3. CASE \E d \in Dirs, k \in Kinds : table' = fd_cb(t, f, d, k)
    BY <2>2, <2>3, FdCbOK
  <2>4. CASE \E ds \in SUBSET Dirs \ {{}} : table' = fd_cb_null(t, f, ds)
    BY <2>2, <2>4, FdCbNullOK
  <2> QED BY <2>1, <2>3, <2>4
<1> QED BY <1>2, <1>3 DEF call, call_timeout, call_signal

\* What the entries report changes, and nothing else.
LEMMA ReportsOK ==
  ASSUME NEW t, TableOK(t), NEW fds,
         DOMAIN fds = DOMAIN t.fds, fds \in Seq(Entry),
         \A n \in DOMAIN t.fds : fds[n].fd = t.fds[n].fd /\ fds[n].events = t.fds[n].events
  PROVE  TableOK([t EXCEPT !.fds = fds])
<1> DEFINE u == [t EXCEPT !.fds = fds]
<1>1. u.fds = fds /\ u.cbs = t.cbs /\ u = [fds |-> u.fds, cbs |-> u.cbs]
  <2>1. t = [fds |-> t.fds, cbs |-> t.cbs]
    BY DEF TableOK
  <2> QED BY <2>1
<1> HIDE DEF u
<1>2. ASSUME NEW f \in DOMAIN u.cbs
      PROVE  /\ u.cbs[f].idx \in DOMAIN u.fds /\ u.fds[u.cbs[f].idx].fd = f
             /\ u.fds[u.cbs[f].idx].events = {d \in Dirs : u.cbs[f].cb[d] # "none"}
  <2>1. /\ t.cbs[f].idx \in DOMAIN t.fds /\ t.fds[t.cbs[f].idx].fd = f
        /\ t.fds[t.cbs[f].idx].events = {d \in Dirs : t.cbs[f].cb[d] # "none"}
    BY <1>1, CbFacts
  <2> QED BY <1>1, <2>1
<1>3. ASSUME NEW n \in DOMAIN u.fds
      PROVE  u.fds[n].fd \in DOMAIN u.cbs /\ u.cbs[u.fds[n].fd].idx = n
  <2>1. t.fds[n].fd \in DOMAIN t.cbs /\ t.cbs[t.fds[n].fd].idx = n
    BY <1>1, EntryFacts
  <2> QED BY <1>1, <2>1
<1>4. Agree(u)
  BY <1>2, <1>3 DEF Agree
<1>5. TableOK(u)
  BY <1>1, <1>4, CbsType DEF TableOK
<1> QED BY <1>5 DEF u

\* New reports R(n) for the entries.
LEMMA SetReportsOK ==
  ASSUME NEW t, TableOK(t), NEW R, NEW fds,
         \A n \in DOMAIN t.fds : R[n] \subseteq Reading \union Writing,
         fds = [n \in DOMAIN t.fds |-> [t.fds[n] EXCEPT !.revents = R[n]]]
  PROVE  /\ TableOK([t EXCEPT !.fds = fds])
         /\ DOMAIN fds = DOMAIN t.fds /\ fds \in Seq(Entry) /\ Len(fds) = Len(t.fds)
<1>1. Len(t.fds) \in Nat /\ DOMAIN t.fds = 1 .. Len(t.fds)
      /\ \A n \in DOMAIN t.fds : t.fds[n] \in Entry
  BY FdsType
<1>2. ASSUME NEW n \in DOMAIN t.fds
      PROVE  fds[n] \in Entry /\ fds[n].fd = t.fds[n].fd /\ fds[n].events = t.fds[n].events
  <2>1. t.fds[n] \in Entry /\ R[n] \subseteq Reading \union Writing
    BY <1>1
  <2>2. fds[n] = [t.fds[n] EXCEPT !.revents = R[n]]
    OBVIOUS
  <2> QED BY <2>1, <2>2 DEF Entry
<1>3. DOMAIN fds = 1 .. Len(t.fds) /\ fds \in [1 .. Len(t.fds) -> Entry]
  BY <1>1, <1>2
<1>4. fds \in Seq(Entry) /\ Len(fds) = Len(t.fds)
  BY <1>1, <1>3, FunctionIsSeq
<1> QED BY <1>1, <1>2, <1>3, <1>4, ReportsOK

-----------------------------------------------------------------------------
(***************************************************************************)
(* The loop.                                                               *)
(***************************************************************************)

\* The entries poll() has not come to and that have something to report: there
\* are as many as r says.
InEntry == {"write", "drain", "swap", "asyncs"}

RoundInv ==
    /\ phase = "read" =>
         /\ at \in Nat \ {0}
         /\ left = Cardinality({n \in Ready(table.fds) : n >= at})
    /\ phase \in InEntry =>
         /\ at \in DOMAIN table.fds
         /\ left = Cardinality({n \in Ready(table.fds) : n > at})

LoopInv == usage \in Usages /\ TableOK(table) /\ RoundInv

LEMMA ReadyType ==
  ASSUME NEW t, TableOK(t)
  PROVE  /\ Ready(t.fds) \subseteq 1 .. Len(t.fds) /\ Ready(t.fds) \subseteq Nat
         /\ \A S \in SUBSET Ready(t.fds) : IsFiniteSet(S) /\ Cardinality(S) \in Nat
<1>1. Len(t.fds) \in Nat /\ Ready(t.fds) \subseteq 1 .. Len(t.fds)
  BY FdsType DEF Ready
<1>2. IsFiniteSet(1 .. Len(t.fds))
  BY <1>1, FS_Interval
<1>3. \A S \in SUBSET Ready(t.fds) : IsFiniteSet(S)
  BY <1>1, <1>2, FS_Subset
<1> QED BY <1>1, <1>3, FS_CardinalityType

LEMMA InitInv == Init => LoopInv
<1> SUFFICES ASSUME Init PROVE LoopInv
  OBVIOUS
<1> DEFINE e == [fd |-> SelfPipe, events |-> {"Read"}, revents |-> {}]
           c == [idx |-> 1, cb |-> only("Read", "always")]
<1>1. table = [fds |-> <<e>>, cbs |-> [f \in {SelfPipe} |-> c]] /\ usage \in Usages /\ phase = "idle"
  BY DEF Init
<1>2. e \in Entry /\ e.fd = SelfPipe /\ e.events = {"Read"}
  BY DEF Entry, Dirs, Fds
<1>3. c \in State /\ c.idx = 1 /\ c.cb = only("Read", "always")
  BY DEF State, only, Kinds, Dirs
<1>4. {d \in Dirs : only("Read", "always")[d] # "none"} = {"Read"}
  BY DEF only, Dirs
<1> HIDE DEF e, c
<1>5. /\ table.fds = <<e>> /\ table.cbs = [f \in {SelfPipe} |-> c]
      /\ table = [fds |-> table.fds, cbs |-> table.cbs]
  BY <1>1
<1>6. table.fds \in Seq(Entry) /\ DOMAIN table.fds = {1} /\ table.fds[1] = e
  BY <1>2, <1>5
<1>7. DOMAIN table.cbs = {SelfPipe} /\ table.cbs[SelfPipe] = c /\ table.cbs \in [{SelfPipe} -> State]
  BY <1>3, <1>5
<1>8. Agree(table)
  BY <1>2, <1>3, <1>4, <1>6, <1>7 DEF Agree
<1>9. TableOK(table)
  BY <1>3, <1>5, <1>6, <1>7, <1>8 DEF TableOK, Fds
<1> QED BY <1>1, <1>9 DEF LoopInv, RoundInv, InEntry

\* A callback that runs while poll() is at an entry.
LEMMA RoundKept ==
  ASSUME TableOK(table), TableOK(table'), SameReports(table, table'), at \in DOMAIN table.fds
  PROVE  at \in DOMAIN table'.fds /\ Ready(table'.fds) = Ready(table.fds)
<1>1. /\ DOMAIN table.fds = 1 .. Len(table.fds) /\ DOMAIN table'.fds = 1 .. Len(table'.fds)
      /\ Len(table.fds) \in Nat /\ Len(table'.fds) \in Nat
  BY FdsType
<1> QED BY <1>1 DEF SameReports

\* A callback is about to run: of the entry poll() is at, taken out when it is
\* to run once.
LEMMA TakeOutAndCall ==
  ASSUME LoopInv, at \in DOMAIN table.fds, NEW d \in Dirs,
         call(take_out(table, table.fds[at].fd, d))
  PROVE  TableOK(table') /\ SameReports(table, table')
<1>1. table.fds[at].fd \in DOMAIN table.cbs
  BY EntryFacts DEF LoopInv
<1>2. /\ TableOK(take_out(table, table.fds[at].fd, d))
      /\ SameReports(table, take_out(table, table.fds[at].fd, d))
  BY <1>1, TakeOutOK DEF LoopInv
<1>3. /\ TableOK(table')
      /\ SameReports(take_out(table, table.fds[at].fd, d), table')
  BY <1>2, CallOK DEF LoopInv
<1> DEFINE v == take_out(table, table.fds[at].fd, d)
<1>4. Len(table.fds) \in Nat /\ Len(v.fds) \in Nat /\ Len(table'.fds) \in Nat
  BY <1>2, <1>3, FdsType DEF LoopInv
<1> HIDE DEF v
<1>5. SameReports(table, v) /\ SameReports(v, table')
  BY <1>2, <1>3 DEF v
<1> QED BY <1>3, <1>4, <1>5 DEF SameReports

LEMMA PollWaitsInv ==
  ASSUME LoopInv, poll_waits
  PROVE  LoopInv'
<1>1. PICK R \in SUBSET MayReport :
        LET fds == reported(R \union MustReport) IN
        /\ table' = [table EXCEPT !.fds = fds]
        /\ left' = Cardinality(Ready(fds))
  BY DEF poll_waits
<1> DEFINE Q == R \union MustReport
           fds == reported(Q)
           W == [n \in DOMAIN table.fds |-> {c \in Reading \union Writing : <<n, c>> \in Q}]
<1>2. table' = [table EXCEPT !.fds = fds] /\ left' = Cardinality(Ready(fds))
  BY <1>1
<1> HIDE DEF Q
<1>3. fds = [n \in DOMAIN table.fds |-> [table.fds[n] EXCEPT !.revents = W[n]]]
      /\ \A n \in DOMAIN table.fds : W[n] \subseteq Reading \union Writing
  BY DEF reported
<1> HIDE DEF fds, W
<1>4. TableOK(table) /\ usage \in Usages
  BY DEF LoopInv
<1>5. TableOK(table') /\ table'.fds = fds
  <2>1. TableOK([table EXCEPT !.fds = fds])
    BY <1>3, <1>4, SetReportsOK
  <2>2. table = [fds |-> table.fds, cbs |-> table.cbs]
    BY <1>4 DEF TableOK
  <2> QED BY <1>2, <2>1, <2>2
<1>6. {n \in Ready(table'.fds) : n >= 1} = Ready(table'.fds)
  BY <1>5, ReadyType
<1>7. at' = 1 /\ phase' = "read" /\ usage' = usage
  BY DEF poll_waits
<1>8. RoundInv'
  BY <1>2, <1>5, <1>6, <1>7 DEF RoundInv, InEntry
<1> QED BY <1>4, <1>5, <1>7, <1>8 DEF LoopInv

LEMMA PollReadsInv ==
  ASSUME LoopInv, poll_reads
  PROVE  LoopInv'
<1> DEFINE From  == {n \in Ready(table.fds) : n >= at}
           After == {n \in Ready(table.fds) : n > at}
<1>1. TableOK(table) /\ usage \in Usages /\ at \in Nat \ {0} /\ left = Cardinality(From) /\ left > 0
  BY DEF LoopInv, RoundInv, poll_reads
<1>2. Ready(table.fds) \subseteq 1 .. Len(table.fds) /\ Ready(table.fds) \subseteq Nat
      /\ IsFiniteSet(After) /\ Cardinality(After) \in Nat
      /\ Len(table.fds) \in Nat /\ DOMAIN table.fds = 1 .. Len(table.fds)
  BY <1>1, ReadyType, FdsType
<1>3. From # {}
  BY <1>1, FS_EmptySet
<1>4. at \in DOMAIN table.fds
  BY <1>1, <1>2, <1>3
<1>5. left' = Cardinality(After)
  <2>1. CASE table.fds[at].revents # {}
    <3>1. From = After \union {at} /\ at \notin After
      BY <1>1, <1>2, <1>4, <2>1 DEF Ready
    <3> HIDE DEF From, After
    <3>2. left = Cardinality(After) + 1
      BY <1>1, <1>2, <3>1, FS_AddElement
    <3>3. left' = left - 1
      BY <2>1 DEF poll_reads
    <3> QED BY <1>2, <3>2, <3>3
  <2>2. CASE table.fds[at].revents = {}
    <3>1. From = After
      BY <1>1, <1>2, <1>4, <2>2 DEF Ready
    <3>2. left' = left
      BY <2>2 DEF poll_reads
    <3> QED BY <1>1, <3>1, <3>2
  <2> QED BY <2>1, <2>2
<1>6. TableOK(table') /\ SameReports(table, table')
  <2>1. CASE table' = table
    BY <1>1, <1>2, <2>1 DEF SameReports
  <2>2. CASE call(take_out(table, table.fds[at].fd, "Read"))
    BY <1>4, <2>2, TakeOutAndCall DEF Dirs
  <2> QED BY <2>1, <2>2 DEF poll_reads
<1>7. at \in DOMAIN table'.fds /\ Ready(table'.fds) = Ready(table.fds)
  BY <1>1, <1>4, <1>6, RoundKept
<1>8. at' = at /\ usage' = usage /\ phase' \in {"drain", "write"}
  BY DEF poll_reads
<1>9. RoundInv'
  BY <1>5, <1>7, <1>8 DEF RoundInv, InEntry
<1> QED BY <1>1, <1>6, <1>8, <1>9 DEF LoopInv

LEMMA PollWritesInv ==
  ASSUME LoopInv, poll_writes
  PROVE  LoopInv'
<1>1. /\ TableOK(table) /\ usage \in Usages /\ at \in DOMAIN table.fds
      /\ left = Cardinality({n \in Ready(table.fds) : n > at})
  BY DEF LoopInv, RoundInv, InEntry, poll_writes
<1>2. Len(table.fds) \in Nat /\ at \in Nat \ {0} /\ Ready(table.fds) \subseteq Nat
  BY <1>1, FdsType, ReadyType
<1>3. TableOK(table') /\ SameReports(table, table')
  <2>1. CASE table' = table
    BY <1>1, <1>2, <2>1 DEF SameReports
  <2>2. CASE call(take_out(table, table.fds[at].fd, "Write"))
    BY <1>1, <2>2, TakeOutAndCall DEF Dirs
  <2> QED BY <2>1, <2>2 DEF poll_writes
<1>4. Ready(table'.fds) = Ready(table.fds)
  BY <1>1, <1>3, RoundKept
<1>5. at' = at + 1 /\ phase' = "read" /\ left' = left /\ usage' = usage
  BY DEF poll_writes
<1>6. at' \in Nat \ {0}
      /\ {n \in Ready(table'.fds) : n >= at'} = {n \in Ready(table.fds) : n > at}
  BY <1>2, <1>4, <1>5
<1>7. left' = Cardinality({n \in Ready(table'.fds) : n >= at'})
  BY <1>1, <1>5, <1>6
<1>8. RoundInv'
  BY <1>5, <1>6, <1>7 DEF RoundInv, InEntry
<1> QED BY <1>1, <1>3, <1>5, <1>8 DEF LoopInv

\* poll() returns with a table that has no dead entry.
LEMMA PollReturns ==
  ASSUME LoopInv, poll_returns
  PROVE  LoopInv' /\ \A n \in DOMAIN table'.fds : Alive(table', n)
<1> DEFINE W == [n \in DOMAIN table.fds |-> {}]
           fds == [n \in DOMAIN table.fds |-> [table.fds[n] EXCEPT !.revents = {}]]
           t == [table EXCEPT !.fds = fds]
<1>1. TableOK(table) /\ usage \in Usages
  BY DEF LoopInv
<1>2. fds = [n \in DOMAIN table.fds |-> [table.fds[n] EXCEPT !.revents = W[n]]]
      /\ \A n \in DOMAIN table.fds : W[n] \subseteq Reading \union Writing
  OBVIOUS
<1>3. table' = consolidate(t) /\ usage' = usage /\ phase' = "idle"
  <2>1. table = [fds |-> table.fds, cbs |-> table.cbs]
    BY <1>1 DEF TableOK
  <2> QED BY <2>1 DEF poll_returns
<1> HIDE DEF W, fds
<1>4. TableOK(t)
  BY <1>1, <1>2, SetReportsOK
<1> HIDE DEF t
<1>5. TableOK(table') /\ \A n \in DOMAIN table'.fds : Alive(table', n)
  BY <1>3, <1>4, ConsolidateOK
<1> QED BY <1>1, <1>3, <1>5 DEF LoopInv, RoundInv, InEntry

LEMMA NextInv == LoopInv /\ [Next]_vars => LoopInv'
<1> SUFFICES ASSUME LoopInv, [Next]_vars PROVE LoopInv'
  OBVIOUS
<1>0. TableOK(table) /\ usage \in Usages
  BY DEF LoopInv
<1>1. CASE poll_waits
  BY <1>1, PollWaitsInv
<1>2. CASE poll_reads
  BY <1>2, PollReadsInv
<1>3. CASE poll_writes
  BY <1>3, PollWritesInv
<1>4. CASE poll_returns
  BY <1>4, PollReturns
\* Steps outside the descriptors' part of poll().
<1>5. ASSUME table' = table, usage' = usage, phase' \notin {"read"} \union InEntry PROVE LoopInv'
  BY <1>0, <1>5 DEF LoopInv, RoundInv, InEntry
<1>6. CASE poll_ends
  BY <1>5, <1>6 DEF poll_ends, InEntry
<1>7. CASE run_timeouts
  BY <1>5, <1>7 DEF run_timeouts, goto_timeout, InEntry
<1>8. CASE erase_timeout \/ erase_again
  BY <1>5, <1>8 DEF erase_timeout, erase_again, goto_timeout, InEntry
<1>9. CASE collect_signals
  BY <1>5, <1>9 DEF collect_signals, InEntry
<1>10. CASE signals_end
  BY <1>5, <1>10 DEF signals_end, InEntry
<1>11. CASE \E s \in usage.signals : handle_signal(s)
  BY <1>5, <1>11 DEF handle_signal, InEntry
\* Steps that leave the round where it is.
<1>12. ASSUME UNCHANGED <<table, usage, at, left>>,
              phase' = phase \/ (phase \in InEntry /\ phase' \in InEntry)
       PROVE  LoopInv'
  BY <1>0, <1>12 DEF LoopInv, RoundInv, InEntry
<1>13. CASE drain_pipe
  BY <1>12, <1>13 DEF drain_pipe, InEntry
<1>14. CASE take_asyncs
  BY <1>12, <1>14 DEF take_asyncs, InEntry
<1>15. CASE asyncs_end
  BY <1>12, <1>15 DEF asyncs_end, InEntry
<1>16. CASE tick \/ other_handles \/ (\E c \in usage.injects : inject_cb(c))
  BY <1>12, <1>16 DEF tick, other_handles, inject_cb, loopVars
<1>17. CASE \E s \in usage.signals :
              signal_handler(s) \/ signal_handler_wakes(s) \/ signal_handler_leaves(s) \/ steal(s)
  BY <1>12, <1>17 DEF signal_handler, signal_handler_wakes, signal_handler_leaves, steal, loopVars
<1>18. CASE UNCHANGED vars
  BY <1>12, <1>18 DEF vars, loopVars
\* Callbacks.
<1>19. ASSUME call(table) PROVE TableOK(table') /\ SameReports(table, table')
  BY <1>0, <1>19, CallOK
<1>20. CASE run_async
  <2>1. phase = "asyncs" /\ UNCHANGED <<usage, phase, at, left>> /\ call(table)
    BY <1>20 DEF run_async, loopVars
  <2>2. at \in DOMAIN table.fds /\ left = Cardinality({n \in Ready(table.fds) : n > at})
    BY <2>1 DEF LoopInv, RoundInv, InEntry
  <2>3. TableOK(table') /\ at \in DOMAIN table'.fds /\ Ready(table'.fds) = Ready(table.fds)
    BY <1>0, <1>19, <2>1, <2>2, RoundKept
  <2>4. RoundInv'
    BY <2>1, <2>2, <2>3 DEF RoundInv, InEntry
  <2> QED BY <1>0, <2>1, <2>3, <2>4 DEF LoopInv
<1>21. ASSUME call(table), usage' = usage, phase' \notin {"read"} \union InEntry PROVE LoopInv'
  BY <1>0, <1>19, <1>21 DEF LoopInv, RoundInv, InEntry
<1>22. CASE run_timeout
  BY <1>21, <1>22 DEF run_timeout, InEntry
<1>23. CASE run_signal_cb
  BY <1>21, <1>23 DEF run_signal_cb, InEntry
<1>24. CASE between_polls
  BY <1>21, <1>24 DEF between_polls, InEntry, loopVars
<1> QED
  BY <1>1, <1>2, <1>3, <1>4, <1>6, <1>7, <1>8, <1>9, <1>10, <1>11, <1>13, <1>14, <1>15, <1>16,
     <1>17, <1>18, <1>20, <1>22, <1>23, <1>24 DEF Next, Loop

\* What holds in every state of every run of the loop.
THEOREM LoopInvariant == Spec => []LoopInv
  BY InitInv, NextInv, PTL DEF Spec

\* The descriptors the loop watches and the callbacks it has for them agree in
\* every state, for every set of descriptors and whatever callbacks do to them
\* in the middle of a round: the at() of poll() and of fd_cb never throws, and
\* the assertions of fd_cb_helper and ~fd_state hold.
THEOREM Consistent == Spec => []TableIsConsistent
<1>1. LoopInv => TableIsConsistent
  BY DEF LoopInv, TableOK, Agree, TableIsConsistent
<1> QED BY <1>1, LoopInvariant, PTL

\* poll() reads an entry of pollfds_ only below its size, also when callbacks
\* add and remove descriptors between two of its reads: r counts exactly the
\* entries that are still to come and have something to report.
EntryExists ==
    (phase = "read" /\ left > 0) \/ phase = "write" => at \in DOMAIN table.fds

THEOREM InBounds == Spec => []EntryExists
<1>1. LoopInv => EntryExists
  <2> SUFFICES ASSUME LoopInv PROVE EntryExists
    OBVIOUS
  <2>1. CASE phase = "write"
    BY <2>1 DEF LoopInv, RoundInv, InEntry, EntryExists
  <2>2. CASE phase = "read" /\ left > 0
    <3> DEFINE From == {n \in Ready(table.fds) : n >= at}
    <3>1. TableOK(table) /\ at \in Nat \ {0} /\ left = Cardinality(From)
      BY <2>2 DEF LoopInv, RoundInv
    <3>2. Ready(table.fds) \subseteq 1 .. Len(table.fds) /\ Len(table.fds) \in Nat
          /\ DOMAIN table.fds = 1 .. Len(table.fds)
      BY <3>1, ReadyType, FdsType
    <3>3. From # {}
      BY <2>2, <3>1, FS_EmptySet
    <3> QED BY <3>1, <3>2, <3>3 DEF EntryExists
  <2> QED BY <2>1, <2>2 DEF EntryExists
<1> QED BY <1>1, LoopInvariant, PTL

\* Whatever the callbacks of a round took out, poll() returns with a table in
\* which every entry has a callback and every callback an entry: ::poll is never
\* again asked about a descriptor nobody watches.
NoDeadEntry == phase = "consolidate" /\ phase' = "idle" =>
    \A n \in DOMAIN table'.fds :
        \E d \in Dirs : table'.cbs[table'.fds[n].fd].cb[d] # "none"

THEOREM Consolidated == Spec => [][NoDeadEntry]_vars
<1>1. LoopInv /\ [Next]_vars => [NoDeadEntry]_vars
  <2> SUFFICES ASSUME LoopInv, Next, phase = "consolidate", phase' = "idle" PROVE NoDeadEntry
    BY DEF NoDeadEntry
  <2>1. poll_returns
    BY DEF Next, Loop, poll_waits, poll_ends, poll_reads, poll_writes, drain_pipe, take_asyncs,
           run_async, asyncs_end, run_timeouts, run_timeout, erase_timeout, erase_again,
           collect_signals, signals_end, run_signal_cb, handle_signal, between_polls, tick, other_handles,
           inject_cb, signal_handler, signal_handler_wakes, signal_handler_leaves, steal, loopVars
  <2>2. TableOK(table') /\ \A n \in DOMAIN table'.fds : Alive(table', n)
    BY <2>1, PollReturns DEF LoopInv
  <2>3. ASSUME NEW n \in DOMAIN table'.fds
        PROVE  \E d \in Dirs : table'.cbs[table'.fds[n].fd].cb[d] # "none"
    <3>1. table'.fds[n].fd \in DOMAIN table'.cbs /\ table'.cbs[table'.fds[n].fd].idx = n
      BY <2>2, EntryFacts
    <3>2. table'.fds[n].events = {d \in Dirs : table'.cbs[table'.fds[n].fd].cb[d] # "none"}
      BY <2>2, <3>1, CbFacts
    <3> QED BY <2>2, <3>2 DEF Alive
  <2> QED BY <2>3 DEF NoDeadEntry
<1> QED BY <1>1, LoopInvariant, PTL DEF Spec

-----------------------------------------------------------------------------
(***************************************************************************)
(* Wake-ups: what another thread or a signal handler leaves for the loop   *)
(* is announced by a byte in the self-pipe until the loop is past the      *)
(* point where it would go to sleep.                                       *)
(***************************************************************************)
WakeTypes ==
    /\ pipe \in Seq({Normal, Signal})
    /\ flags \in [usage.signals -> 0 .. 2]
    /\ owner \in [usage.signals -> {"loop", "other", "none"}]
    /\ handler \in [usage.signals -> {"out", "wake", "leave"}]

InjectInv ==
    /\ async_cbs # << >> => async_pending
    /\ async_pending => phase = "swap" \/ Normal \in Range(pipe)

InSignals == {"signals", "callback"}

\* The round of run_subtype_handlers that is going on, or the next one, will
\* look at s.
Noticed(s) == IF phase \in InSignals THEN s \in handling ELSE signal_pending

SignalOK(s) ==
    /\ handler[s] # "out" => flags[s] = 1
    /\ owner[s] = "loop" /\ flags[s] # 0 => handler[s] = "wake" \/ Signal \in Range(pipe) \/ Noticed(s)
    /\ owner[s] = "other" /\ flags[s] # 0 => handler[s] = "wake" \/ woken

WakeInv == WakeTypes /\ InjectInv /\ \A s \in usage.signals : SignalOK(s)

LEMMA RangeOfAppend ==
  ASSUME NEW S, NEW s \in Seq(S), NEW x \in S
  PROVE  Append(s, x) \in Seq(S) /\ Range(Append(s, x)) = Range(s) \union {x}
<1>1. /\ Append(s, x) \in Seq(S) /\ Len(Append(s, x)) = Len(s) + 1 /\ Len(s) \in Nat
      /\ DOMAIN s = 1 .. Len(s) /\ DOMAIN Append(s, x) = 1 .. Len(s) + 1
      /\ Append(s, x)[Len(s) + 1] = x /\ \A n \in 1 .. Len(s) : Append(s, x)[n] = s[n]
  OBVIOUS
<1>2. 1 .. Len(s) + 1 = (1 .. Len(s)) \union {Len(s) + 1}
  BY <1>1
<1> QED BY <1>1, <1>2 DEF Range

LEMMA InitWake == Init => WakeInv
<1> SUFFICES ASSUME Init PROVE WakeInv
  OBVIOUS
<1>1. WakeTypes
  BY DEF Init, WakeTypes
<1>2. InjectInv
  BY DEF Init, InjectInv
<1>3. ASSUME NEW s \in usage.signals PROVE SignalOK(s)
  BY DEF Init, SignalOK
<1> QED BY <1>1, <1>2, <1>3 DEF WakeInv

\* A step that leaves the signals alone and stays in, or out of, the round of
\* run_subtype_handlers.
LEMMA SignalsKept ==
  ASSUME WakeInv, UNCHANGED <<usage, flags, owner, handler, signal_pending, handling, woken>>,
         pipe' \in Seq({Normal, Signal}), Range(pipe) \subseteq Range(pipe'),
         phase \in InSignals <=> phase' \in InSignals
  PROVE  WakeTypes' /\ \A s \in usage'.signals : SignalOK(s)'
<1>1. WakeTypes'
  BY DEF WakeInv, WakeTypes
<1>2. ASSUME NEW s \in usage.signals PROVE SignalOK(s)'
  BY DEF WakeInv, SignalOK, Noticed
<1> QED BY <1>1, <1>2

\* A callback, whatever it does.
LEMMA CallKeepsWakes ==
  ASSUME WakeInv, NEW t, call(t), usage' = usage, phase \in InSignals <=> phase' \in InSignals
  PROVE  /\ WakeTypes' /\ \A s \in usage'.signals : SignalOK(s)'
         /\ Range(pipe) \subseteq Range(pipe')
<1>0. WakeTypes /\ \A s \in usage.signals : SignalOK(s)
  BY DEF WakeInv
<1>1. CASE UNCHANGED <<pipe, flags, owner, handler, signal_pending, handling, woken>>
  <2>1. pipe' \in Seq({Normal, Signal}) /\ Range(pipe) \subseteq Range(pipe')
    BY <1>0, <1>1 DEF WakeTypes
  <2> QED BY <1>1, <2>1, SignalsKept
<1>2. ASSUME NEW r \in usage.signals, signal_cb(r)
      PROVE  /\ WakeTypes' /\ \A s \in usage'.signals : SignalOK(s)'
             /\ Range(pipe) \subseteq Range(pipe')
  <2>1. /\ owner' = [owner EXCEPT ![r] = "loop"]
        /\ pipe' = IF owner[r] # "loop" /\ flags[r] # 0 THEN Append(pipe, Signal) ELSE pipe
        /\ UNCHANGED <<flags, handler, signal_pending, handling, woken>>
    BY <1>2 DEF signal_cb
  <2>2. /\ pipe' \in Seq({Normal, Signal}) /\ Range(pipe) \subseteq Range(pipe')
        /\ owner[r] # "loop" /\ flags[r] # 0 => Signal \in Range(pipe')
    <3>1. pipe \in Seq({Normal, Signal}) /\ Signal \in {Normal, Signal}
      BY <1>0 DEF WakeTypes
    <3>2. Append(pipe, Signal) \in Seq({Normal, Signal})
          /\ Range(Append(pipe, Signal)) = Range(pipe) \union {Signal}
      BY <3>1, RangeOfAppend
    <3> QED BY <2>1, <3>1, <3>2
  <2>3. WakeTypes'
    BY <1>0, <2>1, <2>2 DEF WakeTypes
  <2>4. ASSUME NEW s \in usage.signals PROVE SignalOK(s)'
    <3>1. SignalOK(s) /\ Noticed(s)' = Noticed(s)
      BY <1>0, <2>1 DEF Noticed
    <3>2. CASE s = r
      <4>1. owner'[s] = "loop"
        BY <1>0, <2>1, <3>2 DEF WakeTypes
      <4>2. flags'[s] # 0 => handler'[s] = "wake" \/ Signal \in Range(pipe') \/ Noticed(s)'
        BY <2>1, <2>2, <3>1, <3>2 DEF SignalOK
      <4> QED BY <2>1, <3>1, <4>1, <4>2 DEF SignalOK
    <3>3. CASE s # r
      <4>1. owner'[s] = owner[s]
        BY <1>0, <2>1, <3>3 DEF WakeTypes
      <4> QED BY <2>1, <2>2, <3>1, <4>1 DEF SignalOK
    <3> QED BY <3>2, <3>3
  <2> QED BY <2>2, <2>3, <2>4
<1>3. ASSUME NEW r \in usage.signals, erase_signal_cb(r)
      PROVE  /\ WakeTypes' /\ \A s \in usage'.signals : SignalOK(s)'
             /\ Range(pipe) \subseteq Range(pipe')
  <2>1. /\ flags[r] # 1 /\ owner' = [owner EXCEPT ![r] = "none"] /\ flags' = [flags EXCEPT ![r] = 0]
        /\ UNCHANGED <<pipe, handler, signal_pending, handling, woken>>
    BY <1>3 DEF erase_signal_cb
  <2>2. WakeTypes'
    BY <1>0, <2>1 DEF WakeTypes
  <2>3. ASSUME NEW s \in usage.signals PROVE SignalOK(s)'
    <3>1. SignalOK(s) /\ Noticed(s)' = Noticed(s)
      BY <1>0, <2>1 DEF Noticed
    <3>2. CASE s = r
      <4>1. owner'[s] = "none" /\ flags'[s] = 0 /\ handler'[s] = "out"
        BY <1>0, <2>1, <3>1, <3>2 DEF WakeTypes, SignalOK
      <4> QED BY <4>1 DEF SignalOK
    <3>3. CASE s # r
      <4>1. owner'[s] = owner[s] /\ flags'[s] = flags[s]
        BY <1>0, <2>1, <3>3 DEF WakeTypes
      <4> QED BY <2>1, <3>1, <4>1 DEF SignalOK
    <3> QED BY <3>2, <3>3
  <2> QED BY <2>1, <2>2, <2>3
<1> QED BY <1>1, <1>2, <1>3 DEF call, call_fd, call_timeout, call_signal, signalVars

LEMMA InjectKept ==
  ASSUME InjectInv, UNCHANGED <<async_cbs, async_pending>>, Range(pipe) \subseteq Range(pipe'),
         phase = "swap" => phase' = "swap"
  PROVE  InjectInv'
  BY DEF InjectInv

\* The steps of the loop that run a callback or leave the signals alone.
LEMMA LoopKeepsWakes ==
  ASSUME WakeInv,
         \/ poll_waits \/ poll_ends \/ poll_reads \/ poll_writes \/ take_asyncs \/ run_async
         \/ asyncs_end \/ run_timeouts \/ run_timeout \/ erase_timeout \/ erase_again
         \/ run_signal_cb
         \/ poll_returns \/ between_polls \/ tick
  PROVE  WakeInv'
<1>0. WakeTypes /\ InjectInv
  BY DEF WakeInv
<1>1. ASSUME UNCHANGED <<usage, pipe, async_cbs, async_pending, signalVars>>,
             phase = "swap" => phase' = "swap", phase \in InSignals <=> phase' \in InSignals
      PROVE  WakeInv'
  <2>1. WakeTypes' /\ \A s \in usage'.signals : SignalOK(s)'
    BY <1>0, <1>1, SignalsKept DEF signalVars, WakeTypes
  <2>2. InjectInv'
    BY <1>0, <1>1, InjectKept
  <2> QED BY <2>1, <2>2 DEF WakeInv
<1>2. ASSUME NEW t, call(t), UNCHANGED <<usage, async_cbs, async_pending>>,
             phase = "swap" => phase' = "swap", phase \in InSignals <=> phase' \in InSignals
      PROVE  WakeInv'
  <2>1. /\ WakeTypes' /\ \A s \in usage'.signals : SignalOK(s)'
        /\ Range(pipe) \subseteq Range(pipe')
    BY <1>2, CallKeepsWakes
  <2>2. InjectInv'
    BY <1>0, <1>2, <2>1, InjectKept
  <2> QED BY <2>1, <2>2 DEF WakeInv
<1>3. CASE poll_waits
  BY <1>1, <1>3 DEF poll_waits, asyncVars, InSignals
<1>4. CASE poll_ends
  BY <1>1, <1>4 DEF poll_ends, asyncVars, InSignals
<1>5. CASE poll_reads
  <2>1. phase = "read" /\ phase' \in {"drain", "write"} /\ UNCHANGED <<usage, async_cbs, async_pending>>
    BY <1>5 DEF poll_reads, asyncVars
  <2>2. \/ call(take_out(table, table.fds[at].fd, "Read"))
        \/ UNCHANGED <<pipe, signalVars>>
    BY <1>5 DEF poll_reads
  <2> QED BY <1>1, <1>2, <2>1, <2>2 DEF InSignals
<1>6. CASE poll_writes
  <2>1. phase = "write" /\ phase' = "read" /\ UNCHANGED <<usage, async_cbs, async_pending>>
    BY <1>6 DEF poll_writes, asyncVars
  <2>2. \/ call(take_out(table, table.fds[at].fd, "Write"))
        \/ UNCHANGED <<pipe, signalVars>>
    BY <1>6 DEF poll_writes
  <2> QED BY <1>1, <1>2, <2>1, <2>2 DEF InSignals
<1>7. CASE take_asyncs
  <2>1. /\ phase = "swap" /\ phase' = "asyncs" /\ async_pending' = FALSE /\ async_cbs' = << >>
        /\ UNCHANGED <<usage, pipe, signalVars>>
    BY <1>7 DEF take_asyncs
  <2>2. WakeTypes' /\ \A s \in usage'.signals : SignalOK(s)'
    BY <1>0, <2>1, SignalsKept DEF signalVars, WakeTypes, InSignals
  <2>3. InjectInv'
    BY <2>1 DEF InjectInv
  <2> QED BY <2>2, <2>3 DEF WakeInv
<1>8. CASE run_async
  BY <1>2, <1>8 DEF run_async, loopVars
<1>9. CASE asyncs_end
  BY <1>1, <1>9 DEF asyncs_end, asyncVars, InSignals
<1>10. CASE run_timeouts
  BY <1>1, <1>10 DEF run_timeouts, goto_timeout, asyncVars, InSignals
<1>11. CASE run_timeout
  BY <1>2, <1>11 DEF run_timeout, asyncVars, InSignals
<1>12. CASE erase_timeout \/ erase_again
  BY <1>1, <1>12 DEF erase_timeout, erase_again, goto_timeout, asyncVars, InSignals
<1>13. CASE run_signal_cb
  BY <1>2, <1>13 DEF run_signal_cb, asyncVars, InSignals
<1>14. CASE poll_returns
  BY <1>1, <1>14 DEF poll_returns, asyncVars, InSignals
<1>15. CASE between_polls
  BY <1>2, <1>15 DEF between_polls, loopVars, asyncVars
<1>16. CASE tick
  BY <1>1, <1>16 DEF tick, loopVars, asyncVars
<1> QED
  BY <1>3, <1>4, <1>5, <1>6, <1>7, <1>8, <1>9, <1>10, <1>11, <1>12, <1>13, <1>14, <1>15, <1>16

\* run_pending_asyncs empties the pipe, run_subtype_handlers looks at the flags.
LEMMA RoundKeepsWakes ==
  ASSUME WakeInv,
         drain_pipe \/ collect_signals \/ signals_end \/ \E s \in usage.signals : handle_signal(s)
  PROVE  WakeInv'
<1>0. WakeTypes /\ InjectInv /\ \A s \in usage.signals : SignalOK(s)
  BY DEF WakeInv
<1>1. CASE drain_pipe
  <2>1. /\ phase = "drain" /\ phase' = "swap" /\ pipe' = << >>
        /\ signal_pending' = (signal_pending \/ Signal \in Range(pipe))
        /\ UNCHANGED <<usage, flags, owner, handler, handling, woken, async_cbs, async_pending>>
    BY <1>1 DEF drain_pipe, asyncVars
  <2>2. WakeTypes'
    BY <1>0, <2>1 DEF WakeTypes
  <2>3. InjectInv'
    BY <1>0, <2>1 DEF InjectInv
  <2>4. ASSUME NEW s \in usage.signals PROVE SignalOK(s)'
    BY <1>0, <2>1 DEF SignalOK, Noticed, InSignals
  <2> QED BY <2>1, <2>2, <2>3, <2>4 DEF WakeInv
<1>2. CASE collect_signals
  <2>1. /\ phase = "subtype" /\ phase' \in {"signals", "consolidate"}
        /\ phase' = "signals" =>
             handling' = {s \in usage.signals : owner[s] = "loop" /\ flags[s] # 0}
        /\ UNCHANGED <<usage, pipe, flags, owner, handler, signal_pending, woken,
                       async_cbs, async_pending>>
    BY <1>2 DEF collect_signals, asyncVars
  <2>2. WakeTypes' /\ InjectInv'
    BY <1>0, <2>1 DEF WakeTypes, InjectInv
  <2>3. ASSUME NEW s \in usage.signals PROVE SignalOK(s)'
    BY <1>0, <2>1 DEF SignalOK, Noticed, InSignals
  <2> QED BY <2>1, <2>2, <2>3 DEF WakeInv
<1>3. CASE signals_end
  <2>1. /\ phase = "signals" /\ phase' = "consolidate" /\ handling = {}
        /\ UNCHANGED <<usage, pipe, flags, owner, handler, woken, async_cbs, async_pending>>
    BY <1>3 DEF signals_end, asyncVars
  <2>2. WakeTypes' /\ InjectInv'
    BY <1>0, <2>1 DEF WakeTypes, InjectInv
  <2>3. ASSUME NEW s \in usage.signals PROVE SignalOK(s)'
    BY <1>0, <2>1 DEF SignalOK, Noticed, InSignals
  <2> QED BY <2>1, <2>2, <2>3 DEF WakeInv
<1>4. ASSUME NEW r \in usage.signals, handle_signal(r) PROVE WakeInv'
  <2>1. /\ phase = "signals" /\ phase' \in InSignals
        /\ owner[r] = "loop" => flags[r] # 1
        /\ handling' = handling \ {r}
        /\ flags' = IF owner[r] = "loop" THEN [flags EXCEPT ![r] = 0] ELSE flags
        /\ UNCHANGED <<usage, pipe, owner, handler, signal_pending, woken,
                       async_cbs, async_pending>>
    BY <1>4 DEF handle_signal, asyncVars, InSignals
  <2>2. WakeTypes'
    BY <1>0, <2>1 DEF WakeTypes
  <2>3. InjectInv'
    BY <1>0, <2>1 DEF InjectInv, InSignals
  <2>4. ASSUME NEW s \in usage.signals PROVE SignalOK(s)'
    <3>1. SignalOK(s) /\ phase \in InSignals
      BY <1>0, <2>1 DEF InSignals
    <3>2. CASE s = r /\ owner[r] = "loop"
      <4>1. flags'[s] = 0 /\ handler[s] = "out"
        BY <1>0, <2>1, <3>1, <3>2 DEF WakeTypes, SignalOK
      <4> QED BY <2>1, <4>1 DEF SignalOK
    <3>3. CASE s # r \/ owner[r] # "loop"
      <4>1. flags'[s] = flags[s] /\ (s # r \/ owner[s] # "loop")
        BY <1>0, <2>1, <3>3 DEF WakeTypes
      <4> QED BY <2>1, <3>1, <4>1 DEF SignalOK, Noticed
    <3> QED BY <3>2, <3>3
  <2> QED BY <2>1, <2>2, <2>3, <2>4 DEF WakeInv
<1> QED BY <1>1, <1>2, <1>3, <1>4

\* The other threads, at any moment.
LEMMA OthersKeepWakes ==
  ASSUME WakeInv,
         \/ other_handles \/ \E c \in usage.injects : inject_cb(c)
         \/ \E s \in usage.signals :
              signal_handler(s) \/ signal_handler_wakes(s) \/ signal_handler_leaves(s) \/ steal(s)
  PROVE  WakeInv'
<1>0. WakeTypes /\ InjectInv /\ \A s \in usage.signals : SignalOK(s)
  BY DEF WakeInv
<1>1. CASE other_handles
  <2>1. /\ \A s \in usage.signals : owner[s] = "other" => flags[s] # 1
        /\ flags' = [s \in usage.signals |-> IF owner[s] = "other" THEN 0 ELSE flags[s]]
        /\ UNCHANGED <<usage, phase, pipe, owner, handler, signal_pending, handling,
                       async_cbs, async_pending>>
    BY <1>1 DEF other_handles, loopVars, asyncVars
  <2>2. WakeTypes' /\ InjectInv'
    BY <1>0, <2>1 DEF WakeTypes, InjectInv
  <2>3. ASSUME NEW s \in usage.signals PROVE SignalOK(s)'
    <3>1. SignalOK(s) /\ flags'[s] = IF owner[s] = "other" THEN 0 ELSE flags[s]
      BY <1>0, <2>1
    <3>2. owner[s] = "other" => handler[s] = "out"
      BY <2>1, <3>1 DEF SignalOK
    <3> QED BY <2>1, <3>1, <3>2 DEF SignalOK, Noticed
  <2> QED BY <2>1, <2>2, <2>3 DEF WakeInv
<1>2. ASSUME NEW c \in usage.injects, inject_cb(c) PROVE WakeInv'
  <2>1. /\ async_pending' = TRUE
        /\ pipe' = IF async_pending THEN pipe ELSE Append(pipe, Normal)
        /\ UNCHANGED <<usage, phase, flags, owner, handler, signal_pending, handling, woken>>
    BY <1>2 DEF inject_cb, loopVars, signalVars
  <2>2. pipe \in Seq({Normal, Signal}) /\ Normal \in {Normal, Signal}
    BY <1>0 DEF WakeTypes
  <2>3. /\ pipe' \in Seq({Normal, Signal}) /\ Range(pipe) \subseteq Range(pipe')
        /\ ~async_pending => Normal \in Range(pipe')
    <3>1. Append(pipe, Normal) \in Seq({Normal, Signal})
          /\ Range(Append(pipe, Normal)) = Range(pipe) \union {Normal}
      BY <2>2, RangeOfAppend
    <3> QED BY <2>1, <2>2, <3>1
  <2>4. WakeTypes' /\ \A s \in usage'.signals : SignalOK(s)'
    BY <2>1, <2>3, SignalsKept
  <2>5. InjectInv'
    BY <1>0, <2>1, <2>3 DEF InjectInv
  <2> QED BY <2>4, <2>5 DEF WakeInv
<1>3. ASSUME NEW r \in usage.signals, signal_handler(r) PROVE WakeInv'
  <2>1. /\ handler[r] = "out"
        /\ IF flags[r] # 0
             THEN UNCHANGED <<flags, handler>>
             ELSE flags' = [flags EXCEPT ![r] = 1] /\ handler' = [handler EXCEPT ![r] = "wake"]
        /\ UNCHANGED <<usage, phase, pipe, owner, signal_pending, handling, woken,
                       async_cbs, async_pending>>
    BY <1>3 DEF signal_handler, loopVars, asyncVars
  <2>2. WakeTypes' /\ InjectInv'
    BY <1>0, <2>1 DEF WakeTypes, InjectInv
  <2>3. ASSUME NEW s \in usage.signals PROVE SignalOK(s)'
    <3>1. SignalOK(s) /\ Noticed(s)' = Noticed(s)
      BY <1>0, <2>1 DEF Noticed
    <3>2. CASE s = r /\ flags[r] = 0
      <4>1. flags'[s] = 1 /\ handler'[s] = "wake"
        BY <1>0, <2>1, <3>2 DEF WakeTypes
      <4> QED BY <4>1 DEF SignalOK
    <3>3. CASE s # r \/ flags[r] # 0
      <4>1. flags'[s] = flags[s] /\ handler'[s] = handler[s]
        BY <1>0, <2>1, <3>3 DEF WakeTypes
      <4> QED BY <2>1, <3>1, <4>1 DEF SignalOK
    <3> QED BY <3>2, <3>3
  <2> QED BY <2>1, <2>2, <2>3 DEF WakeInv
<1>4. ASSUME NEW r \in usage.signals, signal_handler_wakes(r) PROVE WakeInv'
  <2>1. /\ handler[r] = "wake" /\ handler' = [handler EXCEPT ![r] = "leave"]
        /\ pipe' = IF owner[r] = "loop" THEN Append(pipe, Signal) ELSE pipe
        /\ woken' = (woken \/ owner[r] = "other")
        /\ UNCHANGED <<usage, phase, flags, owner, signal_pending, handling,
                       async_cbs, async_pending>>
    BY <1>4 DEF signal_handler_wakes, loopVars, asyncVars
  <2>2. pipe \in Seq({Normal, Signal}) /\ Signal \in {Normal, Signal}
    BY <1>0 DEF WakeTypes
  <2>3. /\ pipe' \in Seq({Normal, Signal}) /\ Range(pipe) \subseteq Range(pipe')
        /\ owner[r] = "loop" => Signal \in Range(pipe')
    <3>1. Append(pipe, Signal) \in Seq({Normal, Signal})
          /\ Range(Append(pipe, Signal)) = Range(pipe) \union {Signal}
      BY <2>2, RangeOfAppend
    <3> QED BY <2>1, <2>2, <3>1
  <2>4. WakeTypes'
    BY <1>0, <2>1, <2>3 DEF WakeTypes
  <2>5. InjectInv'
    BY <1>0, <2>1, <2>3, InjectKept
  <2>6. ASSUME NEW s \in usage.signals PROVE SignalOK(s)'
    <3>1. SignalOK(s) /\ Noticed(s)' = Noticed(s)
      BY <1>0, <2>1 DEF Noticed
    <3>2. CASE s = r
      BY <2>1, <2>3, <3>1, <3>2 DEF SignalOK
    <3>3. CASE s # r
      <4>1. handler'[s] = handler[s]
        BY <1>0, <2>1, <3>3 DEF WakeTypes
      <4> QED BY <2>1, <2>3, <3>1, <4>1 DEF SignalOK
    <3> QED BY <3>2, <3>3
  <2> QED BY <2>1, <2>4, <2>5, <2>6 DEF WakeInv
<1>5. ASSUME NEW r \in usage.signals, signal_handler_leaves(r) PROVE WakeInv'
  <2>1. /\ handler[r] = "leave" /\ handler' = [handler EXCEPT ![r] = "out"]
        /\ flags' = [flags EXCEPT ![r] = 2]
        /\ UNCHANGED <<usage, phase, pipe, owner, signal_pending, handling, woken,
                       async_cbs, async_pending>>
    BY <1>5 DEF signal_handler_leaves, loopVars, asyncVars
  <2>2. WakeTypes' /\ InjectInv'
    BY <1>0, <2>1 DEF WakeTypes, InjectInv
  <2>3. ASSUME NEW s \in usage.signals PROVE SignalOK(s)'
    <3>1. SignalOK(s) /\ Noticed(s)' = Noticed(s)
      BY <1>0, <2>1 DEF Noticed
    <3>2. CASE s = r
      <4>1. flags[s] = 1 /\ handler'[s] = "out"
        BY <1>0, <2>1, <3>1, <3>2 DEF SignalOK, WakeTypes
      <4> QED BY <2>1, <3>1, <3>2, <4>1 DEF SignalOK
    <3>3. CASE s # r
      <4>1. flags'[s] = flags[s] /\ handler'[s] = handler[s]
        BY <1>0, <2>1, <3>3 DEF WakeTypes
      <4> QED BY <2>1, <3>1, <4>1 DEF SignalOK
    <3> QED BY <3>2, <3>3
  <2> QED BY <2>1, <2>2, <2>3 DEF WakeInv
<1>6. ASSUME NEW r \in usage.signals, steal(r) PROVE WakeInv'
  <2>1. /\ owner' = [owner EXCEPT ![r] = "other"] /\ woken' = (woken \/ flags[r] # 0)
        /\ UNCHANGED <<usage, phase, pipe, flags, handler, signal_pending, handling,
                       async_cbs, async_pending>>
    BY <1>6 DEF steal, loopVars, asyncVars
  <2>2. WakeTypes' /\ InjectInv'
    BY <1>0, <2>1 DEF WakeTypes, InjectInv
  <2>3. ASSUME NEW s \in usage.signals PROVE SignalOK(s)'
    <3>1. SignalOK(s) /\ Noticed(s)' = Noticed(s)
      BY <1>0, <2>1 DEF Noticed
    <3>2. CASE s = r
      <4>1. owner'[s] = "other"
        BY <1>0, <2>1, <3>2 DEF WakeTypes
      <4> QED BY <2>1, <3>1, <3>2, <4>1 DEF SignalOK
    <3>3. CASE s # r
      <4>1. owner'[s] = owner[s]
        BY <1>0, <2>1, <3>3 DEF WakeTypes
      <4> QED BY <2>1, <3>1, <4>1 DEF SignalOK
    <3> QED BY <3>2, <3>3
  <2> QED BY <2>1, <2>2, <2>3 DEF WakeInv
<1> QED BY <1>1, <1>2, <1>3, <1>4, <1>5, <1>6

LEMMA NextWake == WakeInv /\ [Next]_vars => WakeInv'
<1> SUFFICES ASSUME WakeInv, [Next]_vars PROVE WakeInv'
  OBVIOUS
<1>1. CASE UNCHANGED vars
  BY <1>1 DEF vars, loopVars, asyncVars, signalVars, WakeInv, WakeTypes, InjectInv, SignalOK, Noticed
<1>2. CASE Next
  BY <1>2, LoopKeepsWakes, RoundKeepsWakes, OthersKeepWakes DEF Next, Loop
<1> QED BY <1>1, <1>2

\* What run_pending_asyncs notes about signals is dealt with before poll() returns.
PendingInv == signal_pending => phase \notin {"idle", "consolidate"}

LEMMA InitPending == Init => PendingInv
  BY DEF Init, PendingInv

LEMMA NextPending == PendingInv /\ [Next]_vars => PendingInv'
<1> SUFFICES ASSUME PendingInv, [Next]_vars PROVE PendingInv'
  OBVIOUS
<1>1. ASSUME NEW t, call(t) PROVE signal_pending' = signal_pending
  BY <1>1 DEF call, call_fd, call_timeout, call_signal, signal_cb, erase_signal_cb, signalVars
<1>2. CASE drain_pipe \/ collect_signals \/ signals_end
  BY <1>2 DEF drain_pipe, collect_signals, signals_end, PendingInv
<1>3. CASE poll_reads \/ poll_writes
  BY <1>3 DEF poll_reads, poll_writes, PendingInv
<1>4. CASE run_timeout \/ run_signal_cb
  BY <1>4 DEF run_timeout, run_signal_cb, PendingInv
<1>5. CASE run_async \/ between_polls
  BY <1>1, <1>5 DEF run_async, between_polls, loopVars, PendingInv
<1>6. CASE poll_waits \/ poll_ends \/ take_asyncs \/ asyncs_end \/ poll_returns
  BY <1>6 DEF poll_waits, poll_ends, take_asyncs, asyncs_end, poll_returns, signalVars, PendingInv
<1>7. CASE run_timeouts \/ erase_timeout \/ erase_again
  BY <1>7 DEF run_timeouts, erase_timeout, erase_again, goto_timeout, PendingInv
<1>8. CASE \E s \in usage.signals : handle_signal(s)
  BY <1>8 DEF handle_signal, PendingInv
<1>9. CASE tick \/ other_handles \/ \E c \in usage.injects : inject_cb(c)
  BY <1>9 DEF tick, other_handles, inject_cb, loopVars, signalVars, PendingInv
<1>10. CASE \E s \in usage.signals :
              signal_handler(s) \/ signal_handler_wakes(s) \/ signal_handler_leaves(s) \/ steal(s)
  BY <1>10 DEF signal_handler, signal_handler_wakes, signal_handler_leaves, steal, loopVars, PendingInv
<1>11. CASE UNCHANGED vars
  BY <1>11 DEF vars, loopVars, signalVars, PendingInv
<1> QED BY <1>2, <1>3, <1>4, <1>5, <1>6, <1>7, <1>8, <1>9, <1>10, <1>11 DEF Next, Loop

\* What the self-pipe is for holds in every state of every run of the loop.
THEOREM WakeInvariant == Spec => [](WakeInv /\ PendingInv)
  BY InitWake, NextWake, InitPending, NextPending, PTL DEF Spec

\* No injected callback is lost to a race: while one waits, there is a byte in
\* the self-pipe, so that ::poll does not block, or run_pending_asyncs has just
\* emptied the pipe and is about to take the callbacks.  inject_cb writes a byte
\* only when async_pending_ is not yet set.
NoLostInjection == async_cbs # << >> => phase = "swap" \/ Normal \in Range(pipe)

THEOREM InjectionsAnnounced == Spec => []NoLostInjection
<1>1. WakeInv => NoLostInjection
  BY DEF WakeInv, InjectInv, NoLostInjection
<1> QED BY <1>1, WakeInvariant, PTL

\* When the loop goes to sleep, every caught signal it owns is announced in the
\* pipe or about to be, by the handler that caught it; and one that another
\* pollset owns by then is announced there: the flag is written before the pipe,
\* and the owner may change in between.
NoLostSignal ==
    \A s \in usage.signals : flags[s] # 0 =>
        /\ phase = "idle" /\ owner[s] = "loop" => handler[s] = "wake" \/ Signal \in Range(pipe)
        /\ owner[s] = "other" => handler[s] = "wake" \/ woken

THEOREM SignalsAnnounced == Spec => []NoLostSignal
<1>1. WakeInv /\ PendingInv => NoLostSignal
  BY DEF WakeInv, PendingInv, SignalOK, Noticed, InSignals, NoLostSignal
<1> QED BY <1>1, WakeInvariant, PTL

-----------------------------------------------------------------------------
(***************************************************************************)
(* Timeouts.                                                               *)
(***************************************************************************)
\* The multimap's first element.
LEMMA FirstOK ==
  ASSUME NEW S \in SUBSET (Nat \X Nat), S # {}
  PROVE  First(S) \in S /\ \A y \in S \ {First(S)} : Before(First(S), y)
<1>1. \A x \in S : x[1] \in Nat /\ x[2] \in Nat /\ x = <<x[1], x[2]>>
  OBVIOUS
<1> DEFINE D == {x[1] : x \in S}
<1>2. D \in SUBSET Nat /\ D # {}
  BY <1>1
<1>3. PICK d \in D : \A e \in D : d <= e
  <2> HIDE DEF D
  <2> QED BY <1>2, LeastNumber
<1> DEFINE N == {x[2] : x \in {y \in S : y[1] = d}}
<1>4. N \in SUBSET Nat /\ N # {}
  BY <1>1, <1>3
<1>5. PICK n \in N : \A m \in N : n <= m
  <2> HIDE DEF N
  <2> QED BY <1>4, LeastNumber
<1>6. PICK x \in S : x[1] = d /\ x[2] = n
  BY <1>5
<1>7. ASSUME NEW y \in S \ {x} PROVE Before(x, y)
  <2>1. y[1] \in Nat /\ y[2] \in Nat /\ y = <<y[1], y[2]>> /\ x = <<x[1], x[2]>>
        /\ x[1] \in Nat /\ x[2] \in Nat
    BY <1>1
  <2>2. d <= y[1]
    BY <1>3
  <2>3. y[1] = d => n <= y[2]
    BY <1>5
  <2>4. y[1] = d => n # y[2]
    BY <1>6, <2>1
  <2> QED BY <1>6, <2>1, <2>2, <2>3, <2>4 DEF Before
<1>8. \E z \in S : \A y \in S \ {z} : Before(z, y)
  BY <1>7
<1> QED BY <1>8 DEF First

TimeInv ==
    /\ usage \in Usages /\ time_cbs \in SUBSET (Nat \X Nat) /\ timeouts \in Nat
    /\ now \in Nat /\ clock \in Nat /\ clock <= now
    /\ phase \in {"timeout", "erase"} => current \in Nat \X Nat /\ current[1] <= clock
    /\ phase = "timeout" => current \in time_cbs

LEMMA InitTime == Init => TimeInv
  BY DEF Init, TimeInv

\* What callbacks do to the timeouts.
LEMMA CallKeepsTimeouts ==
  ASSUME TimeInv, NEW t, call(t)
  PROVE  time_cbs' \in SUBSET (Nat \X Nat) /\ timeouts' \in Nat /\ now' = now
<1>1. CASE UNCHANGED timeVars
  BY <1>1 DEF TimeInv, timeVars
<1>2. CASE call_timeout(t)
  <2>1. PICK ms \in usage.dues :
          \/ timeout_at(ms)
          \/ \E x \in time_cbs : timeout_reschedule_at(x, ms) \/ timeout_cancel(x)
    BY <1>2 DEF call_timeout
  <2>2. ms \in Nat
    BY UsagesAssumption DEF TimeInv
  <2> QED
    BY <2>1, <2>2 DEF timeout_at, timeout_reschedule_at, timeout_cancel, TimeInv
<1> QED BY <1>1, <1>2 DEF call, call_fd, call_signal

\* The iterator of run_timeouts goes to the first timeout that is due: all that
\* are due are there or further on.
LEMMA GotoTimeout ==
  ASSUME NEW S \in SUBSET (Nat \X Nat), NEW time \in Nat, goto_timeout(S, time)
  PROVE  /\ phase' \in {"subtype", "timeout"}
         /\ phase' = "timeout" => current' \in S /\ current'[1] <= time
         /\ \A x \in S : x[1] <= time =>
              phase' = "timeout" /\ (x = current' \/ Before(current', x))
<1> DEFINE due == {x \in S : x[1] <= time}
<1>1. CASE due = {}
  BY <1>1 DEF goto_timeout
<1>2. CASE due # {}
  <2>1. phase' = "timeout" /\ current' = First(due)
    BY <1>2 DEF goto_timeout
  <2>2. First(due) \in due /\ \A y \in due \ {First(due)} : Before(First(due), y)
    <3>1. due \in SUBSET (Nat \X Nat)
      OBVIOUS
    <3> HIDE DEF due
    <3> QED BY <1>2, <3>1, FirstOK
  <2> QED BY <2>1, <2>2
<1> QED BY <1>1, <1>2

LEMMA NextTime == TimeInv /\ [Next]_vars => TimeInv'
<1> SUFFICES ASSUME TimeInv, [Next]_vars PROVE TimeInv'
  OBVIOUS
<1>1. ASSUME UNCHANGED <<usage, timeVars>>, clock' = clock \/ clock' = 0,
             phase' \notin {"timeout", "erase"} \/ UNCHANGED <<phase, current, clock>>
      PROVE  TimeInv'
  BY <1>1 DEF TimeInv, timeVars
<1>2. ASSUME NEW t, call(t), UNCHANGED <<usage, clock>>, phase' \notin {"timeout", "erase"}
      PROVE  TimeInv'
  BY <1>2, CallKeepsTimeouts DEF TimeInv
<1>3. CASE poll_reads
  BY <1>1, <1>2, <1>3 DEF poll_reads
<1>4. CASE poll_writes
  BY <1>1, <1>2, <1>4 DEF poll_writes
<1>5. CASE run_async
  BY <1>2, <1>5 DEF run_async, loopVars
<1>6. CASE between_polls
  BY <1>2, <1>6 DEF between_polls, loopVars
<1>7. CASE run_signal_cb
  BY <1>2, <1>7 DEF run_signal_cb
<1>8. CASE run_timeout
  BY <1>8, CallKeepsTimeouts DEF run_timeout, TimeInv
<1>9. CASE run_timeouts
  BY <1>9, GotoTimeout DEF run_timeouts, TimeInv, timeVars
<1>10. CASE erase_timeout
  <2> DEFINE S == {x \in time_cbs : Before(current, x)}
  <2>1. S \in SUBSET (Nat \X Nat) /\ clock \in Nat /\ goto_timeout(S, clock)
    BY <1>10 DEF erase_timeout, TimeInv
  <2>2. phase' \in {"subtype", "timeout"}
        /\ (phase' = "timeout" => current' \in S /\ current'[1] <= clock)
    <3> HIDE DEF S
    <3> QED BY <2>1, GotoTimeout
  <2>3. current \in time_cbs /\ time_cbs' = time_cbs \ {current}
    BY <1>10 DEF erase_timeout
  <2>4. current[1] \in Nat /\ current[2] \in Nat
    BY <2>3 DEF TimeInv
  <2>5. current \notin S
    BY <2>4 DEF Before
  <2> QED BY <1>10, <2>2, <2>3, <2>5 DEF erase_timeout, TimeInv
<1>11. CASE poll_waits \/ poll_ends \/ poll_returns \/ erase_again
  BY <1>1, <1>11 DEF poll_waits, poll_ends, poll_returns, erase_again
<1>12. CASE drain_pipe \/ take_asyncs \/ asyncs_end
  BY <1>1, <1>12 DEF drain_pipe, take_asyncs, asyncs_end
<1>13. CASE collect_signals \/ signals_end \/ \E s \in usage.signals : handle_signal(s)
  BY <1>1, <1>13 DEF collect_signals, signals_end, handle_signal
<1>14. CASE tick
  BY <1>14 DEF tick, loopVars, TimeInv
<1>15. CASE other_handles \/ \E c \in usage.injects : inject_cb(c)
  BY <1>1, <1>15 DEF other_handles, inject_cb, loopVars
<1>16. CASE \E s \in usage.signals :
              signal_handler(s) \/ signal_handler_wakes(s) \/ signal_handler_leaves(s) \/ steal(s)
  BY <1>1, <1>16 DEF signal_handler, signal_handler_wakes, signal_handler_leaves, steal, loopVars
<1>17. CASE UNCHANGED vars
  BY <1>1, <1>17 DEF vars, loopVars
<1> QED
  BY <1>3, <1>4, <1>5, <1>6, <1>7, <1>8, <1>9, <1>10, <1>11, <1>12, <1>13, <1>14, <1>15, <1>16,
     <1>17 DEF Next, Loop

\* The callback run_timeouts calls is that of a pending timeout whose time has
\* come, whatever timeouts the callbacks before it have set, cancelled and moved.
IteratorIsValid == phase = "timeout" => current \in time_cbs /\ current[1] <= now

THEOREM TimeoutsOnTime == Spec => []IteratorIsValid
<1>1. TimeInv => IteratorIsValid
  <2> SUFFICES ASSUME TimeInv, phase = "timeout"
               PROVE  current \in time_cbs /\ current[1] <= now
    BY DEF IteratorIsValid
  <2>1. current \in time_cbs /\ current[1] \in Nat
    BY DEF TimeInv
  <2> QED BY <2>1 DEF TimeInv
<1> QED BY <1>1, InitTime, NextTime, PTL DEF Spec

\* What this round of run_timeouts has still to run.
DueAhead(x) ==
    \/ phase = "timeouts" /\ x[1] <= now
    \/ phase \in {"timeout", "erase"} /\ x[1] <= clock /\ (x = current \/ Before(current, x))

\* A timeout that is due when a round of run_timeouts begins, or is set ahead of
\* the iterator during it, stays ahead until a callback cancels or moves it or it
\* has run, and is then erased once: callbacks that set, cancel and move others
\* never make the round pass it over.  The round only fails to go on when a
\* callback has taken out its own timeout.
NoneIsPassedOver ==
    \A x \in time_cbs : DueAhead(x) =>
      \/ x \in time_cbs' /\ DueAhead(x)'
      \/ phase = "timeout" /\ x \notin time_cbs'
      \/ phase = "erase" /\ IF current \in time_cbs THEN x = current /\ x \notin time_cbs'
                            ELSE phase' = "undefined"

THEOREM RoundIsComplete == Spec => [][NoneIsPassedOver]_vars
<1>1. TimeInv /\ [Next]_vars => [NoneIsPassedOver]_vars
  <2> SUFFICES ASSUME TimeInv, Next, NEW x \in time_cbs, DueAhead(x)
               PROVE  \/ x \in time_cbs' /\ DueAhead(x)'
                      \/ phase = "timeout" /\ x \notin time_cbs'
                      \/ phase = "erase" /\ IF current \in time_cbs
                                            THEN x = current /\ x \notin time_cbs'
                                            ELSE phase' = "undefined"
    BY DEF NoneIsPassedOver
  <2>1. phase \in {"timeouts", "timeout", "erase"} /\ x[1] \in Nat /\ x[2] \in Nat
    BY DEF DueAhead, TimeInv
  <2>2. ASSUME UNCHANGED <<time_cbs, loopVars>>, now' \in Nat, now <= now'
        PROVE  x \in time_cbs' /\ DueAhead(x)'
    BY <2>1, <2>2 DEF DueAhead, loopVars, TimeInv
  <2>3. CASE run_timeouts
    <3>1. time_cbs \in SUBSET (Nat \X Nat) /\ now \in Nat /\ goto_timeout(time_cbs, now)
      BY <2>3 DEF run_timeouts, TimeInv
    <3>2. x[1] <= now
      BY <2>3 DEF DueAhead, run_timeouts
    <3>3. phase' = "timeout" /\ (x = current' \/ Before(current', x))
      BY <3>1, <3>2, GotoTimeout
    <3>4. clock' = now /\ time_cbs' = time_cbs
      BY <2>3 DEF run_timeouts, timeVars
    <3> QED BY <3>2, <3>3, <3>4 DEF DueAhead, Before
  <2>4. CASE run_timeout
    BY <2>4 DEF run_timeout, DueAhead, Before
  <2>5. CASE erase_timeout
    <3>1. CASE x = current
      BY <2>5, <3>1 DEF erase_timeout
    <3>2. CASE x # current
      <4> DEFINE S == {y \in time_cbs : Before(current, y)}
      <4>1. S \in SUBSET (Nat \X Nat) /\ clock \in Nat /\ goto_timeout(S, clock)
        BY <2>5 DEF erase_timeout, TimeInv
      <4>2. x \in S /\ x[1] <= clock
        BY <2>5, <3>2 DEF DueAhead, erase_timeout
      <4>3. phase' = "timeout" /\ (x = current' \/ Before(current', x))
        <5> HIDE DEF S
        <5> QED BY <4>1, <4>2, GotoTimeout
      <4>4. clock' = clock /\ time_cbs' = time_cbs \ {current}
        BY <2>5 DEF erase_timeout
      <4> QED BY <3>2, <4>2, <4>3, <4>4 DEF DueAhead, Before
    <3> QED BY <3>1, <3>2
  <2>6. CASE erase_again
    BY <2>6 DEF erase_again
  <2>7. CASE tick
    BY <2>2, <2>7 DEF tick, TimeInv
  <2>8. CASE other_handles \/ \E c \in usage.injects : inject_cb(c)
    BY <2>2, <2>8 DEF other_handles, inject_cb, timeVars, TimeInv
  <2>9. CASE \E s \in usage.signals :
               signal_handler(s) \/ signal_handler_wakes(s) \/ signal_handler_leaves(s) \/ steal(s)
    BY <2>2, <2>9 DEF signal_handler, signal_handler_wakes, signal_handler_leaves, steal, timeVars,
       TimeInv
  <2>10. CASE poll_waits \/ poll_ends \/ poll_reads \/ poll_writes \/ drain_pipe \/ take_asyncs
              \/ run_async \/ asyncs_end \/ collect_signals \/ signals_end \/ run_signal_cb
              \/ poll_returns \/ between_polls \/ \E s \in usage.signals : handle_signal(s)
    BY <2>1, <2>10 DEF poll_waits, poll_ends, poll_reads, poll_writes, drain_pipe, take_asyncs,
       run_async, asyncs_end, collect_signals, signals_end, run_signal_cb, poll_returns,
       between_polls, handle_signal
  <2> QED
    BY <2>3, <2>4, <2>5, <2>6, <2>7, <2>8, <2>9, <2>10 DEF Next, Loop
<1> QED BY <1>1, InitTime, NextTime, PTL DEF Spec
=============================================================================
