-------------------------- MODULE ReplicatedLedger --------------------------
(***************************************************************************)
(* What the replicated state machine promises to its users, with no blocks *)
(* on branches, votes or locks: there is one ledger, entries are appended  *)
(* to it and never change, and every replica executes it from the start,   *)
(* in order, each at its own pace.                                         *)
(***************************************************************************)
EXTENDS Integers, Sequences

CONSTANTS
    Replicas,
    Entries     \* what the ledger can hold

VARIABLES
    ledger,     \* the entries some replica has executed, in order
    executed    \* executed[r]: how many of them r has executed

ledgerVars == <<ledger, executed>>

LedgerTypeOK ==
    /\ ledger \in Seq(Entries)
    /\ executed \in [Replicas -> 0 .. Len(ledger)]

LedgerInit ==
    /\ ledger = << >>
    /\ executed = [r \in Replicas |-> 0]

\* The ledger keeps its entries and reaches to position k at least.
ReachesTo(k) ==
    /\ ledger' \in Seq(Entries)
    /\ Len(ledger') = IF k > Len(ledger) THEN k ELSE Len(ledger)
    /\ \A i \in 1 .. Len(ledger) : ledger'[i] = ledger[i]

\* Replica r executes the entries up to position k, at least one.
Execute(r, k) ==
    /\ k > executed[r]
    /\ executed' = [executed EXCEPT ![r] = k]
    /\ ReachesTo(k)

LedgerNext == \E r \in Replicas : \E k \in 1 .. Len(ledger') : Execute(r, k)

LedgerSpec == LedgerInit /\ [][LedgerNext]_ledgerVars
=============================================================================
