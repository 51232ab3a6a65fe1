----------------------------- MODULE AppendLog -----------------------------
(***************************************************************************)
(* What the ledger service promises to its clients: hashes are appended to *)
(* one log, each request is answered once, and a request answered with     *)
(* "true" has been appended by then.                                       *)
(***************************************************************************)
EXTENDS Sequences

CONSTANT Hashes    \* what clients append

VARIABLES
    log,        \* the appended hashes, in order
    answer      \* answer[h]: "none", "true" or "false"

logVars == <<log, answer>>

LogInit == log = << >> /\ answer = [h \in Hashes |-> "none"]

\* The hash becomes part of the log and its client is told so.
Accept(h) ==
    /\ answer[h] = "none"
    /\ log' = Append(log, h)
    /\ answer' = [answer EXCEPT ![h] = "true"]

\* The client is told that the hash was not appended.
Refuse(h) ==
    /\ answer[h] = "none"
    /\ answer' = [answer EXCEPT ![h] = "false"]
    /\ UNCHANGED log

LogNext == \E h \in Hashes : Accept(h) \/ Refuse(h)

LogSpec == LogInit /\ [][LogNext]_logVars
=============================================================================
