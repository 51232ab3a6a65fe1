----------------------------- MODULE LedgerApp -----------------------------
(***************************************************************************)
(* The ledger service: the REST handlers of main/test.cc on the replica    *)
(* that leads, the PaceMakerWaitQC they drive, the single slot in which    *)
(* on_new_qc hands a certificate to wait_for_new_qc, and the               *)
(* NonspeculativeVMBridge with its buffer of proposals.                    *)
(*                                                                         *)
(* The service runs all REST handlers on one thread, and the handler of    *)
(* /append keeps it until the certificate is there.  The consensus event   *)
(* thread runs beside it.  The other replicas appear as what they do for   *)
(* the leader: sooner or later enough of them vote for its proposal.  What *)
(* their own REST interface answers is not modelled: they append nothing.  *)
(***************************************************************************)
EXTENDS Integers, Sequences

CONSTANT Hashes     \* the order hashes clients append, each once

NoBody == "empty"       \* the body of an empty proposal
NoQC   == 0             \* latest_new_qc holds nothing

ASSUME HashesAssumption == NoBody \notin Hashes

VARIABLES
    buffer,         \* proposal_buffer of the bridge: newest first
    chain,          \* bodies of the leader's blocks, by height
    hqc,            \* height of the highest certificate
    applied,        \* height of the last block apply_block was called for
    vm_state,       \* CountingVM::state
    latest_new_qc,  \* the slot: height of a certified block, or NoQC
    handling,       \* what the REST thread waits for: <<hash, height>> or << >>
    confirmed,      \* confirmed_hashes
    answer,         \* answer[h]: what the client of h was told
    reply           \* the last <<hash, index>> /get_index has returned, or << >>

consensusVars == <<chain, hqc, applied, vm_state>>
vars == <<buffer, consensusVars, latest_new_qc, handling, confirmed, answer, reply>>

Init ==
    /\ buffer = << >> /\ chain = << >> /\ hqc = 0 /\ applied = 0 /\ vm_state = 0
    /\ latest_new_qc = NoQC /\ handling = << >>
    /\ confirmed = << >> /\ answer = [h \in Hashes |-> "none"] /\ reply = << >>

-----------------------------------------------------------------------------
(***************************************************************************)
(* The bridge: a proposal enters at the front of the vector and leaves at  *)
(* its back.  do_propose consults it only once three blocks of this leader *)
(* are below b_leaf, each certified by the next.                           *)
(***************************************************************************)
add_proposal(h) == <<h>> \o buffer

supports_nonempty == Len(chain) >= 3

\* Variant: the newest proposal leaves first.
get_next_proposal_Newest(buf) ==
    IF supports_nonempty /\ buf # << >>
      THEN [body |-> Head(buf), rest |-> Tail(buf)]
      ELSE [body |-> NoBody, rest |-> buf]

get_next_proposal(buf) ==
    IF supports_nonempty /\ buf # << >>
      THEN [body |-> buf[Len(buf)], rest |-> SubSeq(buf, 1, Len(buf) - 1)]
      ELSE [body |-> NoBody, rest |-> buf]

(***************************************************************************)
(* The handler of /append on the leader, up to the wait.                   *)
(***************************************************************************)
\* Variant: the hash is listed as confirmed before the certificate is there.
post_method_handler_Early(h) ==
    /\ handling = << >> /\ answer[h] = "none"
    /\ LET next == get_next_proposal(add_proposal(h)) IN
         /\ chain'  = Append(chain, next.body)
         /\ buffer' = next.rest
    /\ handling' = <<h, Len(chain) + 1>>
    /\ confirmed' = Append(confirmed, h)
    /\ UNCHANGED <<hqc, applied, vm_state, latest_new_qc, answer, reply>>

post_method_handler(h) ==
    /\ handling = << >> /\ answer[h] = "none"
    /\ LET next == get_next_proposal(add_proposal(h)) IN
         /\ chain'  = Append(chain, next.body)
         /\ buffer' = next.rest
    /\ handling' = <<h, Len(chain) + 1>>
    /\ UNCHANGED <<hqc, applied, vm_state, latest_new_qc, confirmed, answer, reply>>

\* Variant: the slot keeps the certificate it was read for.
slot_after_wait_Keeps == latest_new_qc

\* wait_for_new_qc empties the slot.
slot_after_wait == NoQC

\* The rest of the handler: the hash is listed if the certificate is for its block.
answer_append(expected) ==
    /\ IF expected
         THEN /\ confirmed' = Append(confirmed, handling[1])
              /\ answer' = [answer EXCEPT ![handling[1]] = "true"]
         ELSE /\ answer' = [answer EXCEPT ![handling[1]] = "false"]
              /\ UNCHANGED confirmed
    /\ handling' = << >>

\* The wait ends when the slot holds a certificate (nothing cancels it: cancel_wait_for_new_qc
\* is never called).
wait_for_new_qc ==
    /\ handling # << >> /\ latest_new_qc # NoQC
    /\ latest_new_qc' = slot_after_wait
    /\ answer_append(latest_new_qc = handling[2])
    /\ UNCHANGED <<buffer, consensusVars, reply>>

\* The index of the first match, counted from zero, or -1.
getIndex(h) ==
    IF \E i \in 1 .. Len(confirmed) : confirmed[i] = h
      THEN (CHOOSE i \in 1 .. Len(confirmed) :
              confirmed[i] = h /\ \A j \in 1 .. i - 1 : confirmed[j] # h) - 1
      ELSE -1

get_method_handler(h) ==
    /\ handling = << >>
    /\ reply' = <<h, getIndex(h)>>
    /\ UNCHANGED <<buffer, consensusVars, latest_new_qc, handling, confirmed, answer>>

-----------------------------------------------------------------------------
(***************************************************************************)
(* The event thread.                                                       *)
(***************************************************************************)
\* Variant: the certificate raises hqc and nobody is told.
on_new_qc_Silent ==
    /\ hqc < Len(chain)
    /\ hqc' = Len(chain)
    /\ UNCHANGED <<buffer, chain, applied, vm_state, latest_new_qc, handling, confirmed,
                   answer, reply>>

\* The vote that completes the quorum for the leader's block.
on_new_qc ==
    /\ hqc < Len(chain)
    /\ hqc' = Len(chain)
    /\ latest_new_qc' = Len(chain)
    /\ UNCHANGED <<buffer, chain, applied, vm_state, handling, confirmed, answer, reply>>

\* The block three below the leader's newest is committed.  exec_block is called
\* for an empty block too, through a null pointer CountingVM never looks at.
apply_block ==
    /\ applied + 3 < Len(chain)
    /\ applied' = applied + 1
    /\ vm_state' = vm_state + 1
    /\ UNCHANGED <<buffer, chain, hqc, latest_new_qc, handling, confirmed, answer, reply>>

\* The clients of the deployment talk to the leader only.
Next ==
    \/ \E h \in Hashes : post_method_handler(h) \/ get_method_handler(h)
    \/ wait_for_new_qc \/ on_new_qc \/ apply_block

\* The replicas that are up answer every proposal with a vote, and the messages
\* are sent again until they arrive.
Fairness == WF_vars(on_new_qc) /\ WF_vars(wait_for_new_qc) /\ WF_vars(apply_block)

Spec == Init /\ [][Next]_vars /\ Fairness

-----------------------------------------------------------------------------
(***************************************************************************)
(* Correctness.                                                            *)
(***************************************************************************)

\* The blocks after the three a new leader begins with.
Ordered == SubSeq(chain, 4, Len(chain))
Pending == IF handling = << >> THEN confirmed ELSE Append(confirmed, handling[1])

\* The ledger has the hashes in the order /append was called, and the positions
\* /get_index reports are positions in the ledger: three empty blocks, then what
\* the blocks hold is a beginning of confirmed_hashes, at most three behind, and
\* the rest waits in the buffer in the same order.  An index once reported does
\* not change.
LedgerOrderIsIndexOrder ==
    /\ \A i \in 1 .. Len(chain) : chain[i] = NoBody <=> i <= 3
    /\ Len(Ordered) <= Len(Pending) /\ Len(Pending) <= Len(Ordered) + 3
    /\ \A i \in 1 .. Len(Ordered) : Ordered[i] = Pending[i]
    /\ Len(buffer) = Len(Pending) - Len(Ordered)
    /\ \A i \in 1 .. Len(buffer) : buffer[i] = Pending[Len(Pending) + 1 - i]
    /\ reply # << >> /\ reply[2] # -1 => Pending[reply[2] + 1] = reply[1]

\* The slot of wait_for_new_qc never holds the certificate of an older block:
\* whoever waits on the leader gets the certificate it waits for.
SlotIsFresh ==
    latest_new_qc # NoQC => handling # << >> /\ latest_new_qc = handling[2]

\* Every client of the leader gets its answer.
AppendsAreAnswered ==
    \A h \in Hashes : (handling # << >> /\ handling[1] = h) ~> answer[h] # "none"

Log == INSTANCE AppendLog WITH log <- confirmed

\* The leader's REST interface implements an append-only log.
ImplementsLog == Log!LogSpec
=============================================================================
