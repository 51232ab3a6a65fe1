------------------------------ MODULE Darkpool ------------------------------
(***************************************************************************)
(* The dark pool of server/server.js: two priority queues of orders, one   *)
(* match attempt per accepted order, an operator's knob that makes the     *)
(* pool trade against its clients, and the settlement table in DynamoDB.   *)
(*                                                                         *)
(* A handler runs to its end before the next one starts; only the two      *)
(* putItem calls of a match complete later, in any order, or fail.         *)
(*                                                                         *)
(* What `<` and `>=` say of two limit prices depends on how they were      *)
(* sent: as JSON numbers, or as the strings client.js takes from its       *)
(* command line.  Rank[p] is the place of price p in the order in force.   *)
(***************************************************************************)
EXTENDS Integers, FiniteSets

CONSTANTS
    Prices,         \* the limit prices in use
    Rank,           \* Rank[p]: the place of p in the order comparisons use
    MaxRank,        \* the highest place
    Undefined,      \* JavaScript's undefined
    Settings,       \* the coefficients the operator may set
    MaxOrders,      \* bound: orders the pool is sent
    MaxIds          \* bound: client ids handed out on request

ASSUME PricesAssumption == Prices \subseteq Nat /\ Undefined \notin Int
ASSUME RankAssumption   == MaxRank \in Nat /\ Rank \in [Prices -> 0 .. MaxRank]

Sides == {"BID", "ASK"}
Coefficients == {"zero", "between", "one"}     \* of the range [0, 1]
Spoof == -1         \* in place of an order number: the pool's own order

VARIABLES
    bidsQueue, asksQueue,   \* the orders in the two queues
    currOrderNumber,
    lastClientId,
    fairnessCoefficient,    \* "zero", "between" or "one"
    matched,                \* the pairs matched so far
    pending,                \* orders whose putItem has not completed
    table                   \* the settlement table: hash -> clientId

bookVars == <<bidsQueue, asksQueue, matched>>
poolVars == <<bookVars, currOrderNumber, lastClientId, fairnessCoefficient, pending, table>>

\* The hash under which a side of a match is stored: of asset, price and side.
Keys == Prices \X Sides
hash(o) == <<o.limitPrice, o.side>>

PoolInit ==
    /\ bidsQueue = {} /\ asksQueue = {} /\ matched = {} /\ pending = {}
    /\ currOrderNumber = 0 /\ lastClientId = 0 /\ fairnessCoefficient = "one"
    /\ table = [k \in Keys |-> Undefined]

-----------------------------------------------------------------------------
(***************************************************************************)
(* The queues.  Orders of equal rank leave in an order the heap does not   *)
(* promise.                                                                *)
(***************************************************************************)
\* Variant: the asks leave dearest first, too.
fronts_ask_Dearest(asks) == {a \in asks : \A c \in asks : Rank[c.limitPrice] <= Rank[a.limitPrice]}

fronts_bid(bids) == {b \in bids : \A c \in bids : Rank[c.limitPrice] <= Rank[b.limitPrice]}
fronts_ask(asks) == {a \in asks : \A c \in asks : Rank[a.limitPrice] <= Rank[c.limitPrice]}

\* Variant: equal prices do not match.
crosses_Strictly(b, a) == Rank[b.limitPrice] > Rank[a.limitPrice]

crosses(b, a) == Rank[b.limitPrice] >= Rank[a.limitPrice]

\* Both sides of a match are on their way to the table.
uploadMatchToAWS(bid, ask) ==
    /\ matched' = matched \union {[bid |-> bid, ask |-> ask]}
    /\ pending' = pending \union {bid, ask}

\* Variant: the matched ask stays in its queue.
checkForMatches_KeepsAsk(bids, asks) ==
    \/ \E b \in fronts_bid(bids), a \in fronts_ask(asks) :
         /\ crosses(b, a)
         /\ bidsQueue' = bids \ {b} /\ asksQueue' = asks
         /\ uploadMatchToAWS(b, a)
    \/ /\ \A b \in fronts_bid(bids), a \in fronts_ask(asks) : ~ crosses(b, a)
       /\ bidsQueue' = bids /\ asksQueue' = asks
       /\ UNCHANGED <<matched, pending>>

\* One attempt to match, on the queues the new order has just joined.
checkForMatches(bids, asks) ==
    \/ \E b \in fronts_bid(bids), a \in fronts_ask(asks) :
         /\ crosses(b, a)
         /\ bidsQueue' = bids \ {b} /\ asksQueue' = asks \ {a}
         /\ uploadMatchToAWS(b, a)
    \/ /\ \A b \in fronts_bid(bids), a \in fronts_ask(asks) : ~ crosses(b, a)
       /\ bidsQueue' = bids /\ asksQueue' = asks
       /\ UNCHANGED <<matched, pending>>

\* The pool takes the other side itself, under a client id of its own.
frontRun(o) ==
    LET spoofOrder == [limitPrice |-> o.limitPrice, clientId |-> lastClientId, number |-> Spoof,
                       side |-> IF o.side = "BID" THEN "ASK" ELSE "BID"] IN
    /\ IF o.side = "BID" THEN uploadMatchToAWS(o, spoofOrder) ELSE uploadMatchToAWS(spoofOrder, o)
    /\ lastClientId' = lastClientId + 1
    /\ UNCHANGED <<bidsQueue, asksQueue>>

enqueue(o) ==
    /\ \/ o.side = "BID" /\ checkForMatches(bidsQueue \union {o}, asksQueue)
       \/ o.side = "ASK" /\ checkForMatches(bidsQueue, asksQueue \union {o})
    /\ UNCHANGED lastClientId

-----------------------------------------------------------------------------
(***************************************************************************)
(* The handlers.                                                           *)
(***************************************************************************)
\* The status sendOrder replies with, the checks in the order of the code.
order_status(req) ==
    IF req.clientId = Undefined \/ req.clientId < 0 \/ req.asset = Undefined THEN 400
    ELSE IF req.asset # "AAPL" THEN 403
    ELSE IF req.limitPrice = Undefined \/ req.limitPrice < 0 \/ req.side \notin Sides THEN 400
    ELSE 200

refuseOrder(req) ==
    /\ order_status(req) # 200
    /\ UNCHANGED poolVars

\* Math.random() is at least 0 and less than 1.
acceptOrder(req) ==
    LET o == [limitPrice |-> req.limitPrice, side |-> req.side, clientId |-> req.clientId,
              number |-> currOrderNumber] IN
    /\ order_status(req) = 200
    /\ currOrderNumber' = currOrderNumber + 1
    /\ \/ fairnessCoefficient # "zero" /\ enqueue(o)
       \/ fairnessCoefficient # "one" /\ frontRun(o)
    /\ UNCHANGED <<fairnessCoefficient, table>>

sendOrder(req) == acceptOrder(req) \/ refuseOrder(req)

getNewClientId ==
    /\ lastClientId' = lastClientId + 1
    /\ UNCHANGED <<bookVars, currOrderNumber, fairnessCoefficient, pending, table>>

\* A coefficient that is missing or outside [0, 1] is refused.
setFairness(f) ==
    /\ fairnessCoefficient' = IF f \in Coefficients THEN f ELSE fairnessCoefficient
    /\ UNCHANGED <<bookVars, currOrderNumber, lastClientId, pending, table>>

\* Variant: the two sides of a match get each other's client.
putItem_Swapped(o) ==
    /\ o \in pending
    /\ pending' = pending \ {o}
    /\ \E m \in matched :
         /\ o \in {m.bid, m.ask}
         /\ table' = [table EXCEPT ![hash(o)] =
                        IF o = m.bid THEN m.ask.clientId ELSE m.bid.clientId]
    /\ UNCHANGED <<bookVars, currOrderNumber, lastClientId, fairnessCoefficient>>

\* The table holds one client for each hash: the one stored last.
putItem(o) ==
    /\ o \in pending
    /\ pending' = pending \ {o}
    /\ table' = [table EXCEPT ![hash(o)] = o.clientId]
    /\ UNCHANGED <<bookVars, currOrderNumber, lastClientId, fairnessCoefficient>>

\* A failed putItem is logged and not repeated.
putItem_fails(o) ==
    /\ o \in pending
    /\ pending' = pending \ {o}
    /\ UNCHANGED <<bookVars, currOrderNumber, lastClientId, fairnessCoefficient, table>>

\* Nothing tells an id the pool has handed out from any other.
SentIds == -1 .. MaxIds - 1

PoolNext ==
    \/ lastClientId < MaxIds /\ getNewClientId
    \/ /\ currOrderNumber < MaxOrders
       /\ \E p \in Prices, s \in Sides, id \in SentIds :
            sendOrder([asset |-> "AAPL", limitPrice |-> p, side |-> s, clientId |-> id])
    \/ \E f \in Settings : setFairness(f)
    \/ \E o \in pending : putItem(o) \/ putItem_fails(o)

PoolSpec == PoolInit /\ [][PoolNext]_poolVars

-----------------------------------------------------------------------------
(***************************************************************************)
(* Correctness.                                                            *)
(***************************************************************************)
ClientIds == Nat        \* what sendOrder lets through
Numbers   == 0 .. currOrderNumber - 1
Order     == [limitPrice : Prices, side : Sides, clientId : ClientIds, number : Numbers]
OwnOrder  == [limitPrice : Prices, side : Sides, clientId : ClientIds, number : {Spoof}]

\* Every variable has its type.
PoolTypeOK ==
    /\ currOrderNumber \in Nat /\ lastClientId \in Nat
    /\ bidsQueue \subseteq {o \in Order : o.side = "BID"}
    /\ asksQueue \subseteq {o \in Order : o.side = "ASK"}
    /\ matched \subseteq [bid : {o \in Order \union OwnOrder : o.side = "BID"},
                          ask : {o \in Order \union OwnOrder : o.side = "ASK"}]
    /\ pending \subseteq Order \union OwnOrder
    /\ fairnessCoefficient \in Coefficients
    /\ table \in [Keys -> ClientIds \union {Undefined}]

\* One attempt per order is enough: no bid in the pool meets an ask in it.
BookUncrossed == \A b \in bidsQueue, a \in asksQueue : Rank[b.limitPrice] < Rank[a.limitPrice]

fair(m) == m.bid.number # Spoof /\ m.ask.number # Spoof
madeBefore(o, m) == o.number < m.bid.number \/ o.number < m.ask.number

\* Equitable matching: an order waits in the pool only behind orders at least
\* as good.  Whatever the pool has matched since it took order o, other than
\* with itself, was at least as good as o.
BestPriceFirst ==
    \A m \in matched : fair(m) =>
      /\ \A o \in bidsQueue : madeBefore(o, m) => Rank[o.limitPrice] <= Rank[m.bid.limitPrice]
      /\ \A o \in asksQueue : madeBefore(o, m) => Rank[m.ask.limitPrice] <= Rank[o.limitPrice]

Waiting(n) == {o \in bidsQueue \union asksQueue : o.number = n}
Sold(n)    == {m \in matched : m.bid.number = n \/ m.ask.number = n}

\* An accepted order is in one place: it waits in one queue, or it is a side of
\* one match.  It is never lost and never sold twice.
OrdersConserved == \A n \in Numbers : Cardinality(Waiting(n)) + Cardinality(Sold(n)) = 1

MatchedOrders == UNION {{m.bid, m.ask} : m \in matched}

\* The settlement table names only clients whose order of that price and side
\* was matched, whatever order the puts complete in.
SettledIsMatched ==
    \A k \in Keys : table[k] # Undefined =>
      \E o \in MatchedOrders : hash(o) = k /\ o.clientId = table[k]
=============================================================================
