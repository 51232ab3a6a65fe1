--------------------------- MODULE NetworkEvents ---------------------------
(***************************************************************************)
(* How messages reach the consensus core of one replica: the               *)
(* NetworkEventQueue, the BlockStore, the BlockFetchManager with its       *)
(* requests, and one BlockFetchWorker per peer.                            *)
(*                                                                         *)
(* A vote or a proposal may name blocks the replica does not have.  Its    *)
(* event then waits with a request for a missing block, and is put back in *)
(* the queue when that block arrives.  The threads that act are the ones   *)
(* of the servers (receive), of the queue (on_event), of the workers       *)
(* (fetch) and the one that proposes (do_propose).                         *)
(*                                                                         *)
(* A message may have one defect that makes the replica drop it.  A peer   *)
(* that sends a sound message has the block it names, and what that block  *)
(* depends on, in its own store, and the blocks are recent enough not to   *)
(* be flushed from its memory (see Storage).                               *)
(***************************************************************************)
EXTENDS Integers, Sequences, FiniteSets

CONSTANTS
    Blocks,         \* block hashes, numbered so that a block follows what it names
    Parent,         \* Parent[b], Justify[b]: the blocks b names
    Justify,
    Self, Peers,    \* this replica, the other replicas
    Messages,       \* the votes and proposals the peers send, each once
    Own             \* the blocks this replica proposes

Genesis == 0

\* What can be wrong with a message: it names a sender that is no replica, a vote
\* is not signed by the voter, a body does not have the hash in the header, the
\* certificate in the header has no quorum.  A vote has no body and no header, and
\* a proposal no signature of its own.
Defects(type) ==
    {"none", "sender"} \union (IF type = "vote" THEN {"signature"} ELSE {"body", "certificate"})

ASSUME SelfAssumption == Self \notin Peers
ASSUME BlocksAssumption == Blocks \subseteq Nat \ {Genesis} /\ Own \subseteq Blocks
ASSUME LinksAssumption ==
    \A b \in Blocks : /\ {Parent[b], Justify[b]} \subseteq Blocks \union {Genesis}
                      /\ Parent[b] < b /\ Justify[b] < b
ASSUME MessagesAssumption ==
    \A m \in Messages : \E type \in {"vote", "proposal"} :
        m \in [type : {type}, block : Blocks, peer : Peers, defect : Defects(type)]

VARIABLES
    block_cache,        \* the blocks in the store
    events,             \* the queue of network events
    outstanding_reqs,   \* requested hash -> the events that wait for it
    reqs,               \* reqs[p]: what the worker of p is to ask for
    in_flight,          \* in_flight[p]: what the worker of p is asking for
    received,           \* the messages that have arrived and were not dropped
    to_core             \* the events handed to the core's queue

\* Each worker starts with nothing to ask for.
BlockFetchWorkers == [p \in Peers |-> {}]

vars == <<block_cache, events, outstanding_reqs, reqs, in_flight, received, to_core>>

Init ==
    /\ block_cache = {Genesis} /\ events = << >> /\ outstanding_reqs = << >>
    /\ reqs = BlockFetchWorkers /\ in_flight = BlockFetchWorkers
    /\ received = {} /\ to_core = << >>

-----------------------------------------------------------------------------
(***************************************************************************)
(* What the two queues accept.                                             *)
(***************************************************************************)
is_valid_replica(m)   == m.defect # "sender"
VoteNetEvent_ok(e)    == e.defect # "signature"
validate_hotstuff(e)  == e.defect \notin {"body", "certificate"}
NetEvent_validate(e)  == IF e.type = "vote" THEN VoteNetEvent_ok(e) ELSE validate_hotstuff(e)

validate_and_add_net_event(q, e) == IF NetEvent_validate(e) THEN Append(q, e) ELSE q

\* A block has a height once it is in the store.
Event_validate(e, store) == e.block \in store

validate_and_add_event(q, e, store) == IF Event_validate(e, store) THEN Append(q, e) ELSE q

-----------------------------------------------------------------------------
(***************************************************************************)
(* The requests.                                                           *)
(***************************************************************************)
waiting(out, h) == IF h \in DOMAIN out THEN out[h] ELSE << >>

\* Variant: the events replace those that wait already.
add_fetch_request_Replaces(out, h, es) ==
    [g \in {h} \union DOMAIN out |-> IF g = h THEN es ELSE out[g]]

\* The events join those that wait for h.  That h was asked for before is never
\* recorded: the worker is told every time.
add_fetch_request(out, h, es) ==
    [g \in {h} \union DOMAIN out |-> IF g = h THEN waiting(out, h) \o es ELSE out[g]]

\* The worker of a peer is told what to ask for.
add_requests(p, hashes) == [reqs EXCEPT ![p] = @ \union hashes]

\* The request is done.
deliver_block(out, b) == [h \in DOMAIN out \ {b} |-> out[h]]

\* Variant: a block is stored once the block that justifies it is there.
missing_deps_JustifyOnly(b) == {Justify[b]} \ block_cache

missing_deps(b) == {Parent[b], Justify[b]} \ block_cache

\* Variant: the events wait for the block that justifies as well.
wait_for_deps_Both(out, b, es) ==
    LET atParent == IF Parent[b] \in block_cache THEN out
                    ELSE add_fetch_request(out, Parent[b], es)
    IN  IF Justify[b] \in block_cache THEN atParent
        ELSE add_fetch_request(atParent, Justify[b], es)

\* The events wait for the parent if it is missing, else for the justify block.
wait_for_deps(out, b, es) ==
    LET atParent == IF Parent[b] \in block_cache THEN out
                    ELSE add_fetch_request(out, Parent[b], es)
    IN  IF Justify[b] \in block_cache THEN atParent
        ELSE add_fetch_request(atParent, Justify[b],
                               IF Parent[b] \in block_cache THEN es ELSE << >>)

-----------------------------------------------------------------------------
(***************************************************************************)
(* The thread of the event queue: on_event for the first event.            *)
(***************************************************************************)
on_vote ==
    /\ events # << >> /\ Head(events).type = "vote"
    /\ LET e == Head(events) IN
         \/ /\ e.block \in block_cache
            /\ to_core' = validate_and_add_event(to_core, e, block_cache)
            /\ UNCHANGED <<outstanding_reqs, reqs>>
         \/ /\ e.block \notin block_cache
            /\ outstanding_reqs' = add_fetch_request(outstanding_reqs, e.block, <<e>>)
            /\ reqs' = add_requests(e.peer, {e.block})
            /\ UNCHANGED to_core
    /\ events' = Tail(events)
    /\ UNCHANGED <<block_cache, in_flight, received>>

\* A proposal, which is for the core as well, or a block that was fetched.  Either
\* goes into the store and sets free the events that wait for it, or waits with
\* them for what is missing.
on_block ==
    /\ events # << >> /\ Head(events).type # "vote"
    /\ LET e    == Head(events)
           b    == e.block
           deps == waiting(outstanding_reqs, b)
           rest == deliver_block(outstanding_reqs, b)
       IN  \/ /\ missing_deps(b) = {}
              /\ block_cache' = block_cache \union {b}
              /\ events' = Tail(events) \o deps
              /\ outstanding_reqs' = rest
              /\ to_core' = IF e.type = "proposal"
                              THEN validate_and_add_event(to_core, e, block_cache')
                              ELSE to_core
              /\ UNCHANGED reqs
           \/ /\ missing_deps(b) # {}
              /\ outstanding_reqs' = wait_for_deps(rest, b, Append(deps, e))
              /\ reqs' = add_requests(e.peer, missing_deps(b))
              /\ events' = Tail(events)
              /\ UNCHANGED <<block_cache, to_core>>
    /\ UNCHANGED <<in_flight, received>>

-----------------------------------------------------------------------------
(***************************************************************************)
(* The other threads.                                                      *)
(***************************************************************************)
receive(m) ==
    /\ m \notin received /\ is_valid_replica(m)
    /\ received' = received \union ({m} \intersect {e \in Messages : NetEvent_validate(e)})
    /\ events' = validate_and_add_net_event(events, m)
    /\ UNCHANGED <<block_cache, outstanding_reqs, reqs, in_flight, to_core>>

\* The replica is a client of its own as well, and does without the network.
ProposalEvent(b, rid) == [type |-> "proposal", block |-> b, peer |-> rid, defect |-> "none"]

MockClientForSelf_propose(b, store) ==
    validate_and_add_event(to_core, ProposalEvent(b, Self), store)

\* do_propose puts a block of its own into the store, and then proposes it.
do_propose(b) ==
    /\ b \in Own \ block_cache /\ missing_deps(b) = {}
    /\ block_cache' = block_cache \union {b}
    /\ to_core' = MockClientForSelf_propose(b, block_cache')
    /\ UNCHANGED <<events, outstanding_reqs, reqs, in_flight, received>>

exists_work_to_do(p) == reqs[p] # {}

\* The worker takes all it is to ask for.
extract_reqs(p) ==
    /\ exists_work_to_do(p) /\ in_flight[p] = {}
    /\ in_flight' = [in_flight EXCEPT ![p] = reqs[p]]
    /\ reqs' = [reqs EXCEPT ![p] = {}]
    /\ UNCHANGED <<block_cache, events, outstanding_reqs, received, to_core>>

\* The store of a peer that has sent sound messages about these blocks.
BlocksBelow[b \in Blocks \union {Genesis}] ==
    IF b = Genesis THEN {Genesis}
    ELSE {b} \union BlocksBelow[Parent[b]] \union BlocksBelow[Justify[b]]

peer_store(p) == UNION {BlocksBelow[m.block] : m \in {n \in received : n.peer = p}}

InAnyOrder(S) == {f \in [1 .. Cardinality(S) -> S] : \A i, j \in DOMAIN f : f[i] = f[j] => i = j}

BlockReceiveNetEvent(b, rid) == [type |-> "block", block |-> b, peer |-> rid, defect |-> "none"]

\* The peer answers with those it has, in any order.
fetch(p) ==
    /\ in_flight[p] # {}
    /\ in_flight' = [in_flight EXCEPT ![p] = {}]
    /\ \E answer \in InAnyOrder({b \in in_flight[p] \intersect peer_store(p) :
                                   NetEvent_validate(BlockReceiveNetEvent(b, p))}) :
         events' = events \o [i \in DOMAIN answer |-> BlockReceiveNetEvent(answer[i], p)]
    /\ UNCHANGED <<block_cache, outstanding_reqs, reqs, received, to_core>>

\* The call failed.
readd_request(p) ==
    /\ in_flight[p] # {}
    /\ in_flight' = [in_flight EXCEPT ![p] = {}]
    /\ reqs' = [reqs EXCEPT ![p] = @ \union in_flight[p]]
    /\ UNCHANGED <<block_cache, events, outstanding_reqs, received, to_core>>

Next ==
    \/ \E m \in Messages : receive(m)
    \/ on_vote \/ on_block
    \/ \E b \in Own : do_propose(b)
    \/ \E p \in Peers : extract_reqs(p) \/ fetch(p) \/ readd_request(p)

\* The threads keep running, and a worker that calls again and again gets
\* through at last.
Fairness ==
    /\ WF_vars(on_vote) /\ WF_vars(on_block)
    /\ \A p \in Peers : WF_vars(extract_reqs(p)) /\ SF_vars(fetch(p))

Spec == Init /\ [][Next]_vars /\ Fairness

-----------------------------------------------------------------------------
(***************************************************************************)
(* Correctness.                                                            *)
(***************************************************************************)

\* The core can follow every link of what it is handed: what an event is about is
\* stored, and so is what a stored block names.  No unsound message has got
\* into the queues (event.h:16-25, insert_block, validate_and_add_event).
StoreIsClosed ==
    /\ \A b \in block_cache \ {Genesis} : {Parent[b], Justify[b]} \subseteq block_cache
    /\ \A i \in DOMAIN to_core : to_core[i].block \in block_cache /\ to_core[i].defect = "none"

Count(m, s) == Cardinality({i \in DOMAIN s : s[i] = m})

\* A message is in one place at a time: in the queue, with one request, or with
\* the core.  Moving events between requests neither drops nor doubles them.
MessagesConserved ==
    \A m \in received :
      \/ /\ Count(m, events) + Count(m, to_core) = 1
         /\ \A h \in DOMAIN outstanding_reqs : Count(m, outstanding_reqs[h]) = 0
      \/ /\ Count(m, events) + Count(m, to_core) = 0
         /\ \E h \in DOMAIN outstanding_reqs :
              /\ Count(m, outstanding_reqs[h]) = 1
              /\ \A g \in DOMAIN outstanding_reqs \ {h} : Count(m, outstanding_reqs[g]) = 0

\* Every sound message that arrives gets to the core.
MessagesReachCore ==
    \A m \in Messages : m \in received ~> \E i \in DOMAIN to_core : to_core[i] = m
=============================================================================
