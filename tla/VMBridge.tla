------------------------------ MODULE VMBridge ------------------------------
(***************************************************************************)
(* The speculative bridge between consensus and the state machine on one   *)
(* replica: HotstuffVMBridge with its SpeculativeExecGadget, the           *)
(* VMControlInterface around the state machine, and the CountingVM.        *)
(*                                                                         *)
(* Three threads meet here.  The driver calls do_propose, which holds      *)
(* proposal_mutex while the bridge makes a body.  The event thread learns  *)
(* certificates (update_hqc, under proposal_mutex) and commits blocks      *)
(* (apply_block, notify_vm_of_commitment).  The state machine's own thread *)
(* loops in run().  The gadget's mutex is spec_owner; everything under the *)
(* mutex of VMControlInterface is one step.                                *)
(*                                                                         *)
(* Consensus appears as HotstuffCore shows it to the bridge: the branch    *)
(* b_leaf is on, the height of the highest certificate, and the commit of  *)
(* the first of three blocks that each carry the certificate of their      *)
(* parent, once a block on top of them is known.  Another leader's block   *)
(* builds on the highest certificate.                                      *)
(***************************************************************************)
EXTENDS Integers, Sequences, FiniteSets

CONSTANT
    Setups          \* the ways a replica is run: records with
                    \*   foreign       the block ids other leaders propose
                    \*   waits         whether the driver calls wait_for_qc
                    \*   bufferTarget  PROPOSAL_BUFFER_TARGET at the start
                    \*   maxForeign    bound: certified blocks of other leaders
                    \*   maxProposals  bound: how often the driver proposes

\* The id of a block without a body.  CountingVM numbers its own proposals from
\* one, and a proposal's id is its contents.
Empty == 0

ASSUME SetupsAssumption ==
    Setups \subseteq [foreign : SUBSET Nat, waits : BOOLEAN, bufferTarget : Nat,
                      maxForeign : Nat, maxProposals : Nat]

NoId == -1

VARIABLES
    setup,          \* how the replica is run: it stays
    chain,          \* the blocks below b_leaf: [id, mine, direct], where direct
                    \* says that the block carries the certificate of its parent
    hqc,            \* height of the highest certificate
    applied,        \* height of the last committed block
    proposed,       \* how often the driver has proposed
    foreigners,     \* how many blocks of other leaders have been certified
    height_map,     \* the gadget's list of <<height, id>>
    spec_head,      \* speculation_head_hotstuff_height
    committed,      \* highest_committed_height
    spec_owner,     \* who holds the gadget's mutex
    validate,       \* blocks_to_validate
    buffer,         \* proposal_buffer
    requests,       \* additional_proposal_requests
    is_proposer,
    target,         \* PROPOSAL_BUFFER_TARGET
    committed_id,   \* highest_committed_id
    vm_state,       \* CountingVM::state
    last_committed, \* CountingVM::last_committed_state
    driver,         \* "idle" or "wait": inside get_proposal
    event,          \* "idle", "notify": between apply_block and
                    \* notify_vm_of_commitment, "clear": inside clear()
    thrown          \* the exceptions that have been thrown

consensusVars == <<setup, chain, hqc, applied, proposed, foreigners>>
gadgetVars == <<height_map, spec_head, committed>>
controlVars == <<validate, buffer, requests, is_proposer, target, committed_id>>
machineVars == <<vm_state, last_committed>>
threadVars == <<driver, event, spec_owner, thrown>>
vars == <<consensusVars, gadgetVars, controlVars, machineVars, threadVars>>

-----------------------------------------------------------------------------
GadgetInit ==
    height_map = << >> /\ spec_head = 1 /\ committed = 0

ControlInit ==
    /\ validate = << >> /\ buffer = << >> /\ requests = 0
    /\ is_proposer = FALSE /\ target = setup.bufferTarget /\ committed_id = NoId

MachineInit == vm_state = 0 /\ last_committed = 0

Init ==
    /\ setup \in Setups
    /\ chain = << >> /\ hqc = 0 /\ applied = 0 /\ proposed = 0 /\ foreigners = 0
    /\ GadgetInit /\ ControlInit /\ MachineInit
    /\ driver = "idle" /\ event = "idle" /\ spec_owner = "none" /\ thrown = {}

-----------------------------------------------------------------------------
(***************************************************************************)
(* The speculation gadget.  A pair that does not continue the list is      *)
(* dropped with a warning.                                                 *)
(***************************************************************************)
add_height_pair(h, id) ==
    IF h = spec_head
      THEN /\ spec_head'  = spec_head + 1
           /\ height_map' = Append(height_map, <<h, id>>)
      ELSE UNCHANGED <<spec_head, height_map>>

empty == height_map = << >>
get_lowest_speculative == Head(height_map)

commit_would_throw(h) == empty \/ get_lowest_speculative[1] # h

on_commit_hotstuff(h) ==
    /\ committed'  = h
    /\ height_map' = Tail(height_map)
    /\ UNCHANGED spec_head

-----------------------------------------------------------------------------
(***************************************************************************)
(* Proposing.                                                              *)
(***************************************************************************)
\* supports_nonempty_child_proposal: the top three blocks are this replica's,
\* each with the certificate of its parent.
supports_nonempty ==
    /\ Len(chain) >= 3
    /\ \A i \in Len(chain) - 2 .. Len(chain) : chain[i].mine /\ chain[i].direct

mint(id) ==
    /\ chain' = Append(chain, [id |-> id, mine |-> TRUE, direct |-> hqc = Len(chain)])
    /\ proposed' = proposed + 1
    /\ UNCHANGED <<setup, hqc, applied, foreigners>>

may_propose ==
    /\ thrown = {} /\ driver = "idle" /\ spec_owner = "none"
    /\ proposed < setup.maxProposals
    /\ setup.waits => hqc = Len(chain)

make_empty_proposal ==
    /\ may_propose
    /\ ~supports_nonempty
    /\ add_height_pair(Len(chain) + 1, Empty)
    /\ mint(Empty)
    /\ UNCHANGED <<committed, controlVars, machineVars, threadVars>>

\* get_proposal has nothing to give: not in proposer mode, or stopped.
get_no_proposal ==
    /\ may_propose
    /\ supports_nonempty
    /\ ~is_proposer \/ (buffer = << >> /\ target = 0)
    /\ add_height_pair(Len(chain) + 1, Empty)
    /\ mint(Empty)
    /\ UNCHANGED <<committed, controlVars, machineVars, threadVars>>

\* Variant: wait without asking.
wait_for_proposal_NoRequest ==
    /\ may_propose
    /\ supports_nonempty
    /\ is_proposer /\ buffer = << >> /\ target > 0
    /\ driver' = "wait" /\ spec_owner' = "driver"
    /\ UNCHANGED <<consensusVars, gadgetVars, controlVars, machineVars, event, thrown>>

\* The buffer is empty: ask the state machine's thread and wait, with the
\* gadget's mutex held.
wait_for_proposal ==
    /\ may_propose
    /\ supports_nonempty
    /\ is_proposer /\ buffer = << >> /\ target > 0
    /\ requests' = IF requests < target THEN target ELSE requests
    /\ driver' = "wait" /\ spec_owner' = "driver"
    /\ UNCHANGED <<consensusVars, gadgetVars, validate, buffer, is_proposer, target,
                   committed_id, machineVars, event, thrown>>

refill == IF Len(Tail(buffer)) > target THEN 0 ELSE target - Len(Tail(buffer))

\* Variant: the newest proposal is handed out first.
next_proposal_Newest == buffer[Len(buffer)]

next_proposal == Head(buffer)

\* Variant: the gadget's mutex is not given back.
get_and_apply_next_proposal_KeepsLock ==
    /\ (may_propose /\ supports_nonempty /\ is_proposer) \/ driver = "wait"
    /\ buffer # << >>
    /\ add_height_pair(Len(chain) + 1, next_proposal)
    /\ mint(next_proposal)
    /\ buffer' = Tail(buffer)
    /\ requests' = refill
    /\ driver' = "idle" /\ spec_owner' = "driver"
    /\ UNCHANGED <<committed, validate, is_proposer, target, committed_id, machineVars,
                   event, thrown>>

get_and_apply_next_proposal ==
    /\ (may_propose /\ supports_nonempty /\ is_proposer) \/ driver = "wait"
    /\ buffer # << >>
    /\ add_height_pair(Len(chain) + 1, next_proposal)
    /\ mint(next_proposal)
    /\ buffer' = Tail(buffer)
    /\ requests' = refill
    /\ driver' = "idle" /\ spec_owner' = "none"
    /\ UNCHANGED <<committed, validate, is_proposer, target, committed_id, machineVars,
                   event, thrown>>

set_proposer ==
    /\ ~is_proposer
    /\ setup.maxProposals > 0
    /\ is_proposer' = TRUE
    /\ UNCHANGED <<consensusVars, gadgetVars, validate, buffer, requests, target,
                   committed_id, machineVars, threadVars>>

stop_proposals ==
    /\ target # 0
    /\ setup.maxProposals > 0
    /\ target' = 0
    /\ UNCHANGED <<consensusVars, gadgetVars, validate, buffer, requests, is_proposer,
                   committed_id, machineVars, threadVars>>

-----------------------------------------------------------------------------
(***************************************************************************)
(* The event thread: certificates.                                         *)
(***************************************************************************)
may_handle == thrown = {} /\ event = "idle"

\* A certificate for a block on this branch; b_leaf falls back to it.
qc_on_leaf(k) ==
    /\ may_handle /\ driver = "idle"
    /\ k \in hqc + 1 .. Len(chain)
    /\ hqc' = k
    /\ chain' = SubSeq(chain, 1, k)
    /\ UNCHANGED <<setup, applied, proposed, foreigners, gadgetVars, controlVars, machineVars,
                   threadVars>>

\* A certificate for another leader's block.
qc_on_nonself_block(id) ==
    /\ may_handle /\ driver = "idle"
    /\ foreigners < setup.maxForeign
    /\ foreigners' = foreigners + 1
    /\ hqc' = hqc + 1
    /\ chain' = Append(SubSeq(chain, 1, hqc), [id |-> id, mine |-> FALSE, direct |-> TRUE])
    /\ UNCHANGED <<setup, applied, proposed, gadgetVars, controlVars, machineVars, threadVars>>

(***************************************************************************)
(* The event thread: commits.                                              *)
(***************************************************************************)
commits(h) ==
    \E n \in h + 3 .. Len(chain) : \A i \in n - 2 .. n : chain[i].direct

\* Variant: the requests for proposals are left standing.
clear_proposal_settings_KeepsRequests ==
    is_proposer' = FALSE /\ buffer' = << >> /\ UNCHANGED requests

clear_proposal_settings ==
    is_proposer' = FALSE /\ buffer' = << >> /\ requests' = 0

submit_block_for_exec(id) ==
    /\ clear_proposal_settings
    /\ validate' = Append(validate, id)
    /\ UNCHANGED <<target, committed_id>>

start_apply(h) ==
    /\ may_handle /\ spec_owner = "none"
    /\ h = applied + 1 /\ commits(h)

\* Variant: a block that was executed speculatively is executed again.
apply_speculated_block_Again(h) ==
    /\ start_apply(h)
    /\ ~empty /\ get_lowest_speculative[2] = chain[h].id
    /\ submit_block_for_exec(chain[h].id)
    /\ event' = "notify"
    /\ UNCHANGED <<consensusVars, gadgetVars, machineVars, driver, spec_owner, thrown>>

\* The block is the one that was executed speculatively.
apply_speculated_block(h) ==
    /\ start_apply(h)
    /\ ~empty /\ get_lowest_speculative[2] = chain[h].id
    /\ event' = "notify"
    /\ UNCHANGED <<consensusVars, gadgetVars, controlVars, machineVars, driver,
                   spec_owner, thrown>>

\* clear() locks the gadget's mutex, which apply_block holds: std::mutex is not
\* recursive, so the thread stays there.
clear == event' = "clear" /\ spec_owner' = "event"

\* The block is another one.  The rewinding behind clear() is never reached.
apply_conflicting_block(h) ==
    /\ start_apply(h)
    /\ ~empty /\ get_lowest_speculative[2] # chain[h].id
    /\ clear
    /\ UNCHANGED <<consensusVars, gadgetVars, controlVars, machineVars, driver, thrown>>

\* Nothing is speculated on.
apply_new_block(h) ==
    /\ start_apply(h)
    /\ empty
    /\ add_height_pair(h, chain[h].id)
    /\ submit_block_for_exec(chain[h].id)
    /\ event' = "notify"
    /\ UNCHANGED <<consensusVars, committed, machineVars, driver, spec_owner, thrown>>

log_commitment(id) ==
    committed_id' = IF id # Empty THEN id ELSE committed_id

notify_vm_of_commitment(h) ==
    /\ thrown = {}
    /\ event = "notify" /\ spec_owner = "none" /\ h = applied + 1
    /\ IF commit_would_throw(h)
         THEN /\ thrown' = {"gap in commit log"}
              /\ UNCHANGED <<gadgetVars, committed_id, applied, event>>
         ELSE /\ on_commit_hotstuff(h)
              /\ log_commitment(get_lowest_speculative[2])
              /\ applied' = h
              /\ event' = "idle"
              /\ UNCHANGED thrown
    /\ UNCHANGED <<setup, chain, hqc, proposed, foreigners, validate, buffer, requests,
                   is_proposer, target, machineVars, driver, spec_owner>>

-----------------------------------------------------------------------------
(***************************************************************************)
(* The state machine's thread: one turn of the loop in run(), which holds  *)
(* the mutex throughout.  A turn executes the committed blocks that have a *)
(* body, logs a commitment, and makes at most one proposal.  CountingVM    *)
(* counts in exec_block and in propose; its log_commitment changes nothing.*)
(***************************************************************************)
exists_work_to_do ==
    validate # << >> \/ (requests > 0 /\ is_proposer) \/ committed_id # NoId

\* How many of these blocks have a body.
Bodies(ids) == Cardinality({i \in DOMAIN ids : ids[i] # Empty})

executed == Bodies(validate)

propose_one ==
    /\ vm_state' = vm_state + executed + 1
    /\ buffer' = Append(buffer, vm_state')
    /\ requests' = requests - 1
    /\ UNCHANGED thrown

vm_run ==
    /\ thrown = {} /\ exists_work_to_do
    /\ validate' = << >>
    /\ committed_id' = NoId
    /\ CASE requests > 0 /\ is_proposer -> propose_one
         [] requests > 0 /\ ~is_proposer ->
              /\ thrown' = {"vm thread woke up early"}
              /\ vm_state' = vm_state + executed
              /\ UNCHANGED <<buffer, requests>>
         [] OTHER ->
              /\ vm_state' = vm_state + executed
              /\ UNCHANGED <<buffer, requests, thrown>>
    /\ UNCHANGED <<consensusVars, gadgetVars, is_proposer, target, last_committed,
                   driver, event, spec_owner>>

-----------------------------------------------------------------------------
Next ==
    \/ make_empty_proposal \/ get_no_proposal \/ wait_for_proposal
    \/ get_and_apply_next_proposal
    \/ set_proposer \/ stop_proposals
    \/ \E k \in 1 .. Len(chain) : qc_on_leaf(k)
    \/ \E id \in setup.foreign : qc_on_nonself_block(id)
    \/ \E h \in 1 .. Len(chain) :
          \/ apply_speculated_block(h) \/ apply_conflicting_block(h) \/ apply_new_block(h)
          \/ notify_vm_of_commitment(h)
    \/ vm_run

\* The state machine's thread and the event thread are threads of their own, and
\* a thread waiting on the condition variable is notified at the end of every
\* turn of run().  Nothing makes the driver propose.
Fairness ==
    /\ WF_vars(vm_run)
    /\ WF_vars(driver = "wait" /\ get_and_apply_next_proposal)
    /\ WF_vars(\E h \in 1 .. Len(chain) :
                 apply_speculated_block(h) \/ apply_new_block(h) \/ notify_vm_of_commitment(h))

Spec == Init /\ [][Next]_vars
FairSpec == Spec /\ Fairness

-----------------------------------------------------------------------------
(***************************************************************************)
(* Correctness.                                                            *)
(***************************************************************************)

\* None of the exceptions of the bridge is thrown: a commit finds its pair at
\* the front of the list ("gap in commit log"), and the state machine's thread
\* has no proposals to make outside proposer mode ("vm thread woke up early").
NeverThrows == thrown = {}

CommittedIds == [i \in 1 .. committed |-> chain[i].id]
SpeculatedIds == [i \in 1 .. Len(height_map) |-> height_map[i][2]]

\* One leader, which waits for the certificate of every block it proposes.
SoleLeader == setup.waits /\ setup.foreign = {}

\* With one leader the state machine counts every block with a body exactly
\* once: committed ones, and what it runs ahead by is exactly the speculated
\* and the buffered ones.
VMStateIsLedger ==
    SoleLeader =>
    vm_state + executed = Bodies(CommittedIds) + Bodies(SpeculatedIds) + Len(buffer)

\* While one leader proposes and waits for certificates, what is speculated at a
\* height is what consensus has at that height, in order.
SpeculatedIsProposed ==
    SoleLeader =>
    /\ \A i \in 1 .. Len(height_map) : chain[committed + i].id = height_map[i][2]
    /\ \A i, j \in 1 .. Len(chain) :
         i < j /\ chain[i].id # Empty /\ chain[j].id # Empty => chain[i].id < chain[j].id

\* do_propose, which waits for the state machine with proposal_mutex and the
\* gadget's mutex held, always comes back, whoever leads.
ProposeReturns == driver = "wait" ~> driver = "idle"

\* A block that heads a certified three-chain is committed to the state machine:
\* with one leader the event thread and the driver never lock each other out.
CommitsAreApplied ==
    \A h \in UNION {1 .. s.maxProposals : s \in Setups} :
        SoleLeader /\ commits(h) ~> applied >= h

\* When the block that is committed is not the one that was speculated on, the
\* bridge rewinds and goes on ("rewinds the state machine if the applied block
\* does not match what was speculatively executed").
RewindCompletes == event = "clear" ~> event = "idle"
=============================================================================
