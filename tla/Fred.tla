-------------------------------- MODULE Fred --------------------------------
(***************************************************************************)
(* The whole of FRED as its clients see it: the clients of                 *)
(* client/client.js, the dark pool, and the ledger service with the        *)
(* promise of AppendLog.                                                   *)
(*                                                                         *)
(* A client gets an id, appends the hash of its order to the ledger, sends *)
(* the order to the pool, and then looks again and again who was filled at *)
(* its price and side, to compare the two places in the ledger.            *)
(* Every request may fail, before or after the server has served it.       *)
(* The loop has no exit: right after getItem the response has no data.     *)
(***************************************************************************)
EXTENDS Darkpool, Sequences

CONSTANTS
    Clients,    \* each may run client.js once
    Scenarios,  \* [wants, others, settings]: what the command lines of those who run
                \* client.js ask for, whether others send the pool orders of their own,
                \* and the coefficients the operator may set
    MaxFailures \* bound: requests that fail

\* A price that the pool does not refuse is one of those in use.
ASSUME ScenariosAssumption ==
    \A s \in Scenarios :
      /\ DOMAIN s.wants \subseteq Clients
      /\ \A c \in DOMAIN s.wants :
           LET p == s.wants[c].limitPrice IN p \in Prices \/ p = Undefined \/ p < 0

NoReply == "undefined"

VARIABLES
    scenario,   \* who uses the pool, and how: it stays
    pc,         \* pc[c]: "id", "append", "send", "poll" or "exit"
    clientId,   \* clientId[c], or Undefined
    ourIndex,   \* ourIndex[c]: what append returned
    ledger,     \* the log: c stands for the hash of the order and the id of c
    answer,     \* what the ledger service answered to c
    filled,     \* filled[c]: the clientId last read from the table, or Undefined
    accused,    \* accused[c]: the ids c called the regulator about
    failures    \* number of requests that have failed

clientVars == <<scenario, pc, clientId, ourIndex, ledger, answer, filled, accused, failures>>
vars == <<poolVars, clientVars>>

want == scenario.wants      \* want[c]: [asset, limitPrice, side]

Init ==
    /\ PoolInit
    /\ scenario \in Scenarios
    /\ pc = [c \in Clients |-> IF c \in DOMAIN want THEN "id" ELSE "exit"]
    /\ clientId = [c \in Clients |-> Undefined]
    /\ ourIndex = [c \in Clients |-> NoReply]
    /\ ledger = << >> /\ answer = [c \in Clients |-> "none"]
    /\ filled = [c \in Clients |-> Undefined]
    /\ accused = [c \in Clients |-> {}]
    /\ failures = 0

Log == INSTANCE AppendLog WITH Hashes <- Clients, log <- ledger

served == UNCHANGED failures
fails  == failures < MaxFailures /\ failures' = failures + 1

-----------------------------------------------------------------------------
\* Without an id the client ends: undefined has no toString.
get_id(c) ==
    /\ pc[c] = "id"
    /\ \/ /\ served /\ getNewClientId
          /\ clientId' = [clientId EXCEPT ![c] = lastClientId]
          /\ pc' = [pc EXCEPT ![c] = "append"]
       \/ /\ fails /\ (getNewClientId \/ UNCHANGED poolVars)
          /\ pc' = [pc EXCEPT ![c] = "exit"]
          /\ UNCHANGED clientId
    /\ UNCHANGED <<scenario, ourIndex, ledger, answer, filled, accused>>

\* Whatever the outcome, the client goes on to the pool.  The body "true" or
\* "false" arrives as a boolean.
append(c) ==
    /\ pc[c] = "append"
    /\ \/ /\ served /\ (Log!Accept(c) \/ Log!Refuse(c))
          /\ ourIndex' = [ourIndex EXCEPT ![c] = answer'[c]]
       \/ /\ fails /\ (Log!Accept(c) \/ Log!Refuse(c) \/ UNCHANGED <<ledger, answer>>)
          /\ UNCHANGED ourIndex
    /\ pc' = [pc EXCEPT ![c] = "send"]
    /\ UNCHANGED <<poolVars, scenario, clientId, filled, accused>>

request(c) ==
    [asset |-> want[c].asset, limitPrice |-> want[c].limitPrice, side |-> want[c].side,
     clientId |-> clientId[c]]

\* The reply is only printed.
send_order(c) ==
    /\ pc[c] = "send"
    /\ \/ (served \/ fails) /\ sendOrder(request(c))
       \/ fails /\ UNCHANGED poolVars
    /\ pc' = [pc EXCEPT ![c] = "poll"]
    /\ UNCHANGED <<scenario, clientId, ourIndex, ledger, answer, filled, accused>>

\* The callback of getItem: somebody was filled at this price and side.
get_item(c) ==
    LET k == <<want[c].limitPrice, want[c].side>> IN
    /\ pc[c] = "poll" /\ filled[c] = Undefined
    /\ want[c].asset = "AAPL" /\ k \in Keys /\ table[k] # Undefined
    /\ filled' = [filled EXCEPT ![c] = table[k]]
    /\ UNCHANGED <<poolVars, scenario, pc, clientId, ourIndex, ledger, answer, accused, failures>>

\* The place in the ledger of the order of c under the given id, from zero,
\* or -1.
getIndex(c, id) ==
    LET at == {i \in 1 .. Len(ledger) : clientId[ledger[i]] = id /\ want[ledger[i]] = want[c]}
    IN  IF at = {} THEN -1 ELSE (CHOOSE i \in at : \A j \in at : i <= j) - 1

\* Variant: the test accuses whoever is not in the ledger as well.
after_ours_Missing(ours, i) ==
    \/ ours = "true" /\ (i > 1 \/ i = -1)
    \/ ours = "false" /\ (i > 0 \/ i = -1)

\* ourIndex < filledIndex, where true counts as 1, false as 0, and undefined
\* compares with nothing.
after_ours(ours, i) ==
    \/ ours = "true" /\ 1 < i
    \/ ours = "false" /\ 0 < i

\* The rest of the callback.  The request to the ledger may fail.
compare(c) ==
    /\ filled[c] # Undefined
    /\ \/ /\ served /\ after_ours(ourIndex[c], getIndex(c, filled[c]))
          /\ accused' = [accused EXCEPT ![c] = @ \union {filled[c]}]
       \/ /\ (served /\ ~ after_ours(ourIndex[c], getIndex(c, filled[c]))) \/ fails
          /\ UNCHANGED accused
    /\ filled' = [filled EXCEPT ![c] = Undefined]
    /\ UNCHANGED <<poolVars, scenario, pc, clientId, ourIndex, ledger, answer>>

\* Other users of the pool get ids and send any order under any id.
trade ==
    /\ scenario.others /\ served
    /\ \/ lastClientId < MaxIds /\ getNewClientId
       \/ /\ currOrderNumber < MaxOrders
          /\ \E p \in Prices, s \in Sides, id \in SentIds :
               sendOrder([asset |-> "AAPL", limitPrice |-> p, side |-> s, clientId |-> id])
    /\ UNCHANGED <<scenario, pc, clientId, ourIndex, ledger, answer, filled, accused>>

\* The operator's request, and the completion of a putItem.
operate ==
    /\ \/ served /\ \E f \in scenario.settings : setFairness(f)
       \/ \E o \in pending : (served /\ putItem(o)) \/ (fails /\ putItem_fails(o))
    /\ UNCHANGED <<scenario, pc, clientId, ourIndex, ledger, answer, filled, accused>>

Next ==
    \/ \E c \in Clients : get_id(c) \/ append(c) \/ send_order(c) \/ get_item(c) \/ compare(c)
    \/ trade \/ operate

Spec == Init /\ [][Next]_vars

-----------------------------------------------------------------------------
(***************************************************************************)
(* Correctness.                                                            *)
(***************************************************************************)

\* Whom a client accuses was filled by the pool, at the client's price and
\* side, and has its hash in the ledger.
AccusedWasFilled ==
    \A c \in DOMAIN want : \A id \in accused[c] :
      /\ \E o \in MatchedOrders : hash(o) = <<want[c].limitPrice, want[c].side>> /\ o.clientId = id
      /\ getIndex(c, id) # -1

\* "check if hash is after yours": a client accuses only those whose hash comes
\* after its own in the ledger.
AccusedIsAfter ==
    \A c \in Clients : \A id \in accused[c] :
      getIndex(c, clientId[c]) < getIndex(c, id)
=============================================================================
