----------------------------- MODULE Fred_proofs -----------------------------
(***************************************************************************)
(* Theorems about the dark pool, by itself and among the clients that      *)
(* check on it, for every set of prices, every order of comparison (Rank), *)
(* any clients and every bound.                                            *)
(*                                                                         *)
(* An order that arrives finds an uncrossed book, so the only order that   *)
(* can meet the other side is the one that has just arrived; it is then    *)
(* the front of its queue, and the match takes it out again.  If nothing   *)
(* matched, the fronts did not meet, and nothing behind them does.         *)
(***************************************************************************)
EXTENDS Fred, FiniteSetTheorems, WellFoundedInduction, TLAPS

\* What is on its way to the table was matched.
PendingIsMatched == pending \subseteq MatchedOrders

\* One of the two sets has one element, and the other none.
OneOf(W, S) == (W = {} /\ \E x \in S : S = {x}) \/ (S = {} /\ \E x \in W : W = {x})

\* Every accepted order waits or is sold, and once.
OnePlace == \A n \in Numbers : OneOf(Waiting(n), Sold(n))

PoolInv ==
    /\ PoolTypeOK /\ BookUncrossed /\ BestPriceFirst /\ PendingIsMatched /\ SettledIsMatched
    /\ OnePlace

-----------------------------------------------------------------------------
(***************************************************************************)
(* The fronts of the queues.                                               *)
(***************************************************************************)

\* A nonempty set of naturals has a least element.
LEMMA LeastNatural ==
  ASSUME NEW T \in SUBSET Nat, T # {}
  PROVE  \E x \in T : \A y \in T : x <= y
<1> DEFINE Below == {ss \in Nat \X Nat : ss[1] < ss[2]}
<1>1. IsWellFoundedOn(Below, Nat)
  BY NatLessThanWellFounded, Zenon DEF OpToRel
<1>2. PICK x \in T : \A y \in T : ~(<<y, x>> \in Below)
  <2> HIDE DEF Below
  <2> QED BY <1>1, WFMin
<1>3. \A y \in T : ~(y < x)
  BY <1>2
<1> QED BY <1>3

\* A queue of asks that holds an order has a front, no dearer than the order.
LEMMA AskFront ==
  ASSUME NEW asks, NEW a \in asks, \A c \in asks : c.limitPrice \in Prices
  PROVE  \E f \in fronts_ask(asks) : Rank[f.limitPrice] <= Rank[a.limitPrice]
<1> DEFINE T == {Rank[c.limitPrice] : c \in asks}
<1>1. T \in SUBSET Nat /\ T # {}
  BY RankAssumption
<1>2. PICK x \in T : \A y \in T : x <= y
  <2> HIDE DEF T
  <2> QED BY <1>1, LeastNatural
<1>3. PICK f \in asks : x = Rank[f.limitPrice]
  BY <1>2
<1>4. \A c \in asks : Rank[f.limitPrice] <= Rank[c.limitPrice]
  BY <1>2, <1>3
<1> QED BY <1>4 DEF fronts_ask

\* A queue of bids that holds an order has a front, at least as dear.
LEMMA BidFront ==
  ASSUME NEW bids, NEW b \in bids, \A c \in bids : c.limitPrice \in Prices
  PROVE  \E f \in fronts_bid(bids) : Rank[f.limitPrice] >= Rank[b.limitPrice]
<1> DEFINE T == {MaxRank - Rank[c.limitPrice] : c \in bids}
<1>1. T \in SUBSET Nat /\ T # {}
  BY RankAssumption
<1>2. PICK x \in T : \A y \in T : x <= y
  <2> HIDE DEF T
  <2> QED BY <1>1, LeastNatural
<1>3. PICK f \in bids : x = MaxRank - Rank[f.limitPrice]
  BY <1>2
<1>4. \A c \in bids : MaxRank - Rank[f.limitPrice] <= MaxRank - Rank[c.limitPrice]
  BY <1>2, <1>3
<1>5. \A c \in bids : Rank[c.limitPrice] <= Rank[f.limitPrice]
  BY <1>4, RankAssumption
<1> QED BY <1>5 DEF fronts_bid

-----------------------------------------------------------------------------
(***************************************************************************)
(* One match attempt.                                                      *)
(***************************************************************************)

\* checkForMatches, on queues that differ from an uncrossed book by the order
\* that has arrived, leaves the book uncrossed.
LEMMA MatchUncrosses ==
  ASSUME NEW o, NEW bids, NEW asks,
         \A c \in bids \union asks : c.limitPrice \in Prices,
         \A b \in bids, a \in asks : b # o /\ a # o => Rank[b.limitPrice] < Rank[a.limitPrice],
         o \notin bids \/ o \notin asks,
         checkForMatches(bids, asks)
  PROVE  BookUncrossed'
<1>1. CASE \E b \in fronts_bid(bids), a \in fronts_ask(asks) :
             crosses(b, a) /\ bidsQueue' = bids \ {b} /\ asksQueue' = asks \ {a}
  <2>1. PICK b \in fronts_bid(bids), a \in fronts_ask(asks) :
               crosses(b, a) /\ bidsQueue' = bids \ {b} /\ asksQueue' = asks \ {a}
    BY <1>1
  <2>2. b \in bids /\ a \in asks
    BY DEF fronts_bid, fronts_ask
  <2>3. Rank[b.limitPrice] \in Nat /\ Rank[a.limitPrice] \in Nat
    BY <2>2, RankAssumption
  <2>4. b = o \/ a = o
    BY <2>1, <2>2, <2>3 DEF crosses
  <2>5. o \notin bids \ {b} /\ o \notin asks \ {a}
    BY <2>2, <2>4
  <2> QED BY <2>1, <2>5 DEF BookUncrossed
<1>2. CASE /\ \A b \in fronts_bid(bids), a \in fronts_ask(asks) : ~ crosses(b, a)
           /\ bidsQueue' = bids /\ asksQueue' = asks
  <2> SUFFICES ASSUME NEW b \in bids, NEW a \in asks
               PROVE  Rank[b.limitPrice] < Rank[a.limitPrice]
    BY <1>2 DEF BookUncrossed
  <2>1. PICK f \in fronts_bid(bids) : Rank[f.limitPrice] >= Rank[b.limitPrice]
    BY BidFront
  <2>2. PICK g \in fronts_ask(asks) : Rank[g.limitPrice] <= Rank[a.limitPrice]
    BY AskFront
  <2>3. f \in bids /\ g \in asks /\ ~ (Rank[f.limitPrice] >= Rank[g.limitPrice])
    BY <1>2 DEF fronts_bid, fronts_ask, crosses
  <2>4. /\ Rank[f.limitPrice] \in Nat /\ Rank[g.limitPrice] \in Nat
        /\ Rank[a.limitPrice] \in Nat /\ Rank[b.limitPrice] \in Nat
    BY <2>3, RankAssumption
  <2> QED BY <2>1, <2>2, <2>3, <2>4
<1> QED BY <1>1, <1>2 DEF checkForMatches

\* checkForMatches matches the best of both queues, so that whatever stays
\* behind is no better than what has been matched.
LEMMA MatchTakesBest ==
  ASSUME NEW o, NEW bids, NEW asks, PoolTypeOK, BestPriceFirst, o.number = currOrderNumber,
         bids \subseteq bidsQueue \union {o}, asks \subseteq asksQueue \union {o},
         checkForMatches(bids, asks)
  PROVE  BestPriceFirst'
<1>1. ASSUME NEW m \in matched, fair(m), NEW c \in bids \union asks, madeBefore(c, m)
      PROVE  c # o
  <2>1. /\ m.bid.number \in Int /\ m.bid.number < currOrderNumber
        /\ m.ask.number \in Int /\ m.ask.number < currOrderNumber
    BY <1>1 DEF PoolTypeOK, Order, OwnOrder, Numbers, Spoof
  <2> QED BY <1>1, <2>1 DEF madeBefore, PoolTypeOK
<1>2. \A m \in matched : fair(m) =>
        /\ \A c \in bids : madeBefore(c, m) => Rank[c.limitPrice] <= Rank[m.bid.limitPrice]
        /\ \A c \in asks : madeBefore(c, m) => Rank[m.ask.limitPrice] <= Rank[c.limitPrice]
  BY <1>1 DEF BestPriceFirst
<1>3. CASE \E b \in fronts_bid(bids), a \in fronts_ask(asks) :
             /\ bidsQueue' = bids \ {b} /\ asksQueue' = asks \ {a}
             /\ uploadMatchToAWS(b, a)
  <2>1. PICK b \in fronts_bid(bids), a \in fronts_ask(asks) :
             /\ bidsQueue' = bids \ {b} /\ asksQueue' = asks \ {a}
             /\ matched' = matched \union {[bid |-> b, ask |-> a]}
    BY <1>3 DEF uploadMatchToAWS
  <2>2. /\ \A c \in bids : Rank[c.limitPrice] <= Rank[b.limitPrice]
        /\ \A c \in asks : Rank[a.limitPrice] <= Rank[c.limitPrice]
    BY DEF fronts_bid, fronts_ask
  <2> QED BY <1>2, <2>1, <2>2 DEF BestPriceFirst, madeBefore, fair
<1>4. CASE bidsQueue' = bids /\ asksQueue' = asks /\ UNCHANGED matched
  BY <1>2, <1>4 DEF BestPriceFirst, madeBefore, fair
<1> QED BY <1>3, <1>4 DEF checkForMatches

\* Whoever is matched goes to the table, and nothing else does.
LEMMA UploadIsMatched ==
  ASSUME NEW b, NEW a, PendingIsMatched, SettledIsMatched, uploadMatchToAWS(b, a), UNCHANGED table
  PROVE  PendingIsMatched' /\ SettledIsMatched'
<1>1. MatchedOrders' = MatchedOrders \union {b, a}
  <2> DEFINE pair == [bid |-> b, ask |-> a]
  <2>1. pair.bid = b /\ pair.ask = a /\ matched' = matched \union {pair}
    BY DEF uploadMatchToAWS
  <2> HIDE DEF pair
  <2>2. \A x : x \in MatchedOrders <=> \E m \in matched : x = m.bid \/ x = m.ask
    BY DEF MatchedOrders
  <2>3. \A x : x \in MatchedOrders' <=> \E m \in matched' : x = m.bid \/ x = m.ask
    BY DEF MatchedOrders
  <2> QED BY <2>1, <2>2, <2>3
<1> QED BY <1>1 DEF PendingIsMatched, SettledIsMatched, uploadMatchToAWS, hash

-----------------------------------------------------------------------------
(***************************************************************************)
(* Where orders are.                                                       *)
(***************************************************************************)

\* The numbers of the orders in the pool are those given out, and the pool's own
\* orders have none.
LEMMA NumbersInUse ==
  ASSUME PoolTypeOK
  PROVE  /\ currOrderNumber \in Nat /\ currOrderNumber \notin Numbers /\ Spoof \notin Nat
         /\ \A c \in bidsQueue \union asksQueue : c.number \in Numbers
         /\ \A m \in matched : m.bid.number # currOrderNumber /\ m.ask.number # currOrderNumber
<1>1. currOrderNumber \in Nat /\ currOrderNumber \notin Numbers /\ Spoof \notin Nat
  BY DEF PoolTypeOK, Numbers, Spoof
<1>2. \A c \in Order : c.number \in Numbers
  BY DEF Order
<1>3. \A c \in OwnOrder : c.number = Spoof
  BY DEF OwnOrder
<1>4. \A c \in Order \union OwnOrder : c.number # currOrderNumber
  BY <1>1, <1>2, <1>3
<1>5. \A m \in matched : m.bid \in Order \union OwnOrder /\ m.ask \in Order \union OwnOrder
  BY DEF PoolTypeOK
<1> QED BY <1>1, <1>2, <1>4, <1>5 DEF PoolTypeOK

\* An order that arrives waits, and at most one pair is then sold.
LEMMA EnqueueConserves ==
  ASSUME PoolTypeOK, OnePlace, NEW o, o.number = currOrderNumber,
         NEW bids, NEW asks, bids \union asks = bidsQueue \union asksQueue \union {o},
         bids \cap asks = {}, checkForMatches(bids, asks), currOrderNumber' = currOrderNumber + 1
  PROVE  OnePlace'
<1> DEFINE W(n) == {c \in bids \union asks : c.number = n}
<1>1. /\ currOrderNumber \in Nat /\ currOrderNumber \notin Numbers
      /\ \A c \in bidsQueue \union asksQueue : c.number \in Numbers
      /\ \A m \in matched : m.bid.number # currOrderNumber /\ m.ask.number # currOrderNumber
  BY NumbersInUse
<1>2. Numbers' = Numbers \union {currOrderNumber}
  BY <1>1 DEF Numbers
<1>3. ASSUME NEW n \in Numbers' PROVE OneOf(W(n), Sold(n))
  <2>1. CASE n \in Numbers
    <3>1. W(n) = Waiting(n)
      BY <1>1, <2>1 DEF Waiting
    <3>2. OneOf(Waiting(n), Sold(n))
      BY <2>1 DEF OnePlace
    <3> QED BY <3>1, <3>2
  <2>2. CASE n = currOrderNumber
    <3>1. W(n) = {o}
      BY <1>1, <2>2
    <3>2. Sold(n) = {}
      BY <1>1, <2>2 DEF Sold
    <3> QED BY <3>1, <3>2 DEF OneOf
  <2> QED BY <1>2, <2>1, <2>2
<1>4. CASE bidsQueue' = bids /\ asksQueue' = asks /\ UNCHANGED matched
  <2>1. ASSUME NEW n PROVE Waiting(n)' = W(n) /\ Sold(n)' = Sold(n)
    BY <1>4 DEF Waiting, Sold
  <2> QED BY <1>3, <2>1 DEF OnePlace
<1>5. ASSUME NEW b \in bids, NEW a \in asks,
             bidsQueue' = bids \ {b}, asksQueue' = asks \ {a},
             matched' = matched \union {[bid |-> b, ask |-> a]}
      PROVE  OnePlace'
  <2> DEFINE m == [bid |-> b, ask |-> a]
  <2>1. matched' = matched \union {m} /\ m.bid = b /\ m.ask = a
    BY <1>5
  <2> HIDE DEF m
  <2>2. bidsQueue' \union asksQueue' = (bids \union asks) \ {b, a}
    BY <1>5
  <2>3. ASSUME NEW n \in Numbers', b.number = n \/ a.number = n
        PROVE  OneOf(Waiting(n)', Sold(n)')
    <3>1. b \in W(n) \/ a \in W(n)
      BY <2>3
    <3>2. Sold(n) = {} /\ (W(n) = {b} \/ W(n) = {a})
      BY <1>3, <3>1 DEF OneOf
    <3>3. Waiting(n)' = {}
      BY <2>2, <3>2 DEF Waiting
    <3>4. Sold(n)' = {m}
      BY <2>1, <2>3, <3>2 DEF Sold
    <3> QED BY <3>3, <3>4 DEF OneOf
  <2>4. ASSUME NEW n \in Numbers', b.number # n, a.number # n
        PROVE  OneOf(Waiting(n)', Sold(n)')
    <3>1. Waiting(n)' = W(n)
      BY <2>2, <2>4 DEF Waiting
    <3>2. Sold(n)' = Sold(n)
      BY <2>1, <2>4 DEF Sold
    <3> QED BY <1>3, <3>1, <3>2
  <2> QED BY <2>3, <2>4 DEF OnePlace
<1> QED BY <1>4, <1>5 DEF checkForMatches, uploadMatchToAWS, fronts_bid, fronts_ask

-----------------------------------------------------------------------------
(***************************************************************************)
(* The steps of the pool.                                                  *)
(***************************************************************************)

\* A pool that starts is in order.
LEMMA PoolInitEstablishes == PoolInit => PoolInv
<1> SUFFICES ASSUME PoolInit PROVE PoolInv
  OBVIOUS
<1>1. Numbers = {}
  BY DEF PoolInit, Numbers
<1>2. OnePlace
  BY <1>1 DEF OnePlace
<1> QED BY <1>2 DEF PoolInit, PoolInv, PoolTypeOK, BookUncrossed, BestPriceFirst,
                    PendingIsMatched, SettledIsMatched, Coefficients, Keys

\* An order joins its queue, and at most one match is made.
LEMMA EnqueuePreserves ==
  ASSUME PoolInv, NEW o \in [limitPrice : Prices, side : Sides, clientId : ClientIds,
                             number : {currOrderNumber}],
         enqueue(o), currOrderNumber' = currOrderNumber + 1,
         UNCHANGED <<fairnessCoefficient, table>>
  PROVE  PoolInv'
<1> USE DEF PoolInv
<1>1. /\ currOrderNumber \in Nat /\ lastClientId \in Nat /\ lastClientId' = lastClientId
     
  BY DEF PoolTypeOK, enqueue, ClientIds
<1>2. Order \subseteq Order' /\ OwnOrder' = OwnOrder /\ o \in Order'
  BY <1>1 DEF Order, OwnOrder, Numbers
<1>3. PICK bids, asks :
        /\ checkForMatches(bids, asks)
        /\ \/ o.side = "BID" /\ bids = bidsQueue \union {o} /\ asks = asksQueue
           \/ o.side = "ASK" /\ bids = bidsQueue /\ asks = asksQueue \union {o}
  BY DEF enqueue
<1>4. bids \subseteq {c \in Order' : c.side = "BID"} /\ asks \subseteq {c \in Order' : c.side = "ASK"}
  BY <1>2, <1>3 DEF PoolTypeOK
<1>5. PoolTypeOK'
  <2>1. CASE \E b \in fronts_bid(bids), a \in fronts_ask(asks) :
               /\ bidsQueue' = bids \ {b} /\ asksQueue' = asks \ {a}
               /\ uploadMatchToAWS(b, a)
    <3>1. PICK b \in bids, a \in asks :
               /\ bidsQueue' = bids \ {b} /\ asksQueue' = asks \ {a}
               /\ matched' = matched \union {[bid |-> b, ask |-> a]}
               /\ pending' = pending \union {b, a}
      BY <2>1 DEF fronts_bid, fronts_ask, uploadMatchToAWS
    <3>2. matched' \subseteq [bid : {c \in Order' \union OwnOrder' : c.side = "BID"},
                              ask : {c \in Order' \union OwnOrder' : c.side = "ASK"}]
      BY <1>2, <1>4, <3>1 DEF PoolTypeOK
    <3>3. pending' \subseteq Order' \union OwnOrder'
      BY <1>2, <1>4, <3>1 DEF PoolTypeOK
    <3>4. /\ bidsQueue' \subseteq {c \in Order' : c.side = "BID"}
          /\ asksQueue' \subseteq {c \in Order' : c.side = "ASK"}
      BY <1>4, <3>1
    <3> QED BY <1>1, <3>2, <3>3, <3>4 DEF PoolTypeOK
  <2>2. CASE bidsQueue' = bids /\ asksQueue' = asks /\ UNCHANGED <<matched, pending>>
    <3>1. matched' \subseteq [bid : {c \in Order' \union OwnOrder' : c.side = "BID"},
                              ask : {c \in Order' \union OwnOrder' : c.side = "ASK"}]
      BY <1>2, <2>2 DEF PoolTypeOK
    <3> QED BY <1>1, <1>2, <1>4, <2>2, <3>1 DEF PoolTypeOK
  <2> QED BY <1>3, <2>1, <2>2 DEF checkForMatches
<1>6. BookUncrossed'
  <2>1. \A c \in bids \union asks : c.limitPrice \in Prices
    BY <1>4 DEF Order
  <2>2. \A b \in bids, a \in asks : b # o /\ a # o => Rank[b.limitPrice] < Rank[a.limitPrice]
    BY <1>3 DEF BookUncrossed
  <2>3. o \notin bids \/ o \notin asks
    BY <1>4
  <2> QED BY <1>3, <2>1, <2>2, <2>3, MatchUncrosses
<1>7. BestPriceFirst'
  <2>1. bids \subseteq bidsQueue \union {o} /\ asks \subseteq asksQueue \union {o}
    BY <1>3
  <2> QED BY <1>3, <2>1, MatchTakesBest
<1>8. PendingIsMatched' /\ SettledIsMatched'
  <2>1. CASE \E b \in fronts_bid(bids), a \in fronts_ask(asks) : uploadMatchToAWS(b, a)
    BY <2>1, UploadIsMatched
  <2>2. CASE UNCHANGED <<matched, pending>>
    BY <2>2 DEF PendingIsMatched, SettledIsMatched, MatchedOrders, hash
  <2> QED BY <1>3, <2>1, <2>2 DEF checkForMatches
<1>9. OnePlace'
  <2>1. bids \cap asks = {}
    BY <1>4
  <2>2. bids \union asks = bidsQueue \union asksQueue \union {o} /\ o.number = currOrderNumber
    BY <1>3
  <2> QED BY <1>3, <2>1, <2>2, EnqueueConserves
<1> QED BY <1>5, <1>6, <1>7, <1>8, <1>9

\* The pool trades with itself: the queues do not change.
LEMMA FrontRunPreserves ==
  ASSUME PoolInv, NEW o \in [limitPrice : Prices, side : Sides, clientId : ClientIds,
                             number : {currOrderNumber}],
         frontRun(o), currOrderNumber' = currOrderNumber + 1,
         UNCHANGED <<fairnessCoefficient, table>>
  PROVE  PoolInv'
<1> USE DEF PoolInv
<1>1. /\ currOrderNumber \in Nat /\ lastClientId \in Nat /\ lastClientId' = lastClientId + 1
      /\ lastClientId \in ClientIds
      /\ bidsQueue' = bidsQueue /\ asksQueue' = asksQueue
  BY DEF PoolTypeOK, frontRun, ClientIds
<1>2. Order \subseteq Order' /\ OwnOrder \subseteq OwnOrder' /\ o \in Order'
  <2>1. Numbers \subseteq Numbers' /\ currOrderNumber \in Numbers'
    BY <1>1 DEF Numbers
  <2>2. Order \subseteq Order'
    BY <1>1, <2>1 DEF Order
  <2>3. OwnOrder \subseteq OwnOrder'
    BY <1>1 DEF OwnOrder
  <2>4. o \in Order'
    BY <1>1, <2>1 DEF Order
  <2> QED BY <2>2, <2>3, <2>4
<1>3. PICK b, a :
        /\ uploadMatchToAWS(b, a)
        /\ b \in {c \in Order' \union OwnOrder' : c.side = "BID"}
        /\ a \in {c \in Order' \union OwnOrder' : c.side = "ASK"}
        /\ b.number = Spoof \/ a.number = Spoof
        /\ {b.number, a.number} = {Spoof, currOrderNumber}
  <2> DEFINE other == IF o.side = "BID" THEN "ASK" ELSE "BID"
             spoofOrder == [limitPrice |-> o.limitPrice, clientId |-> lastClientId,
                            number |-> Spoof, side |-> other]
  <2>1. spoofOrder \in OwnOrder' /\ spoofOrder.side = other /\ spoofOrder.number = Spoof
    BY <1>1 DEF OwnOrder, Sides
  <2>2. CASE o.side = "BID"
    <3>1. uploadMatchToAWS(o, spoofOrder)
      BY <2>2 DEF frontRun
    <3> HIDE DEF spoofOrder
    <3> QED BY <1>2, <2>1, <2>2, <3>1
  <2>3. CASE o.side = "ASK"
    <3>1. uploadMatchToAWS(spoofOrder, o)
      BY <2>3 DEF frontRun
    <3> HIDE DEF spoofOrder
    <3> QED BY <1>2, <2>1, <2>3, <3>1
  <2> QED BY <2>2, <2>3 DEF Sides
<1>4. matched' = matched \union {[bid |-> b, ask |-> a]} /\ pending' = pending \union {b, a}
  BY <1>3 DEF uploadMatchToAWS
<1>5. PoolTypeOK'
  <2>1. matched' \subseteq [bid : {c \in Order' \union OwnOrder' : c.side = "BID"},
                            ask : {c \in Order' \union OwnOrder' : c.side = "ASK"}]
    BY <1>2, <1>3, <1>4 DEF PoolTypeOK
  <2>2. pending' \subseteq Order' \union OwnOrder'
    BY <1>2, <1>3, <1>4 DEF PoolTypeOK
  <2>3. table' \in [Keys -> ClientIds \union {Undefined}]
    BY <1>1 DEF PoolTypeOK
  <2>4. /\ bidsQueue' \subseteq {c \in Order' : c.side = "BID"}
        /\ asksQueue' \subseteq {c \in Order' : c.side = "ASK"}
    BY <1>1, <1>2 DEF PoolTypeOK
  <2> QED BY <1>1, <2>1, <2>2, <2>3, <2>4 DEF PoolTypeOK
<1>6. BookUncrossed'
  BY <1>1 DEF BookUncrossed
<1>7. BestPriceFirst'
  BY <1>1, <1>3, <1>4 DEF BestPriceFirst, fair, madeBefore
<1>8. PendingIsMatched' /\ SettledIsMatched'
  BY <1>3, UploadIsMatched
<1>9. OnePlace'
  <2> DEFINE m == [bid |-> b, ask |-> a]
  <2>1. matched' = matched \union {m} /\ m.bid = b /\ m.ask = a
    BY <1>4
  <2> HIDE DEF m
  <2>2. Numbers' = Numbers \union {currOrderNumber}
    BY <1>1 DEF Numbers
  <2>3. \A n : Waiting(n)' = Waiting(n)
    BY <1>1 DEF Waiting
  <2>4. Waiting(currOrderNumber) = {} /\ Sold(currOrderNumber) = {}
        /\ Spoof \notin Nat /\ currOrderNumber \notin Numbers
    BY NumbersInUse DEF Waiting, Sold
  <2>5. ASSUME NEW n \in Numbers PROVE OneOf(Waiting(n)', Sold(n)')
    <3>1. n # currOrderNumber /\ n # Spoof
      BY <1>1, <2>4 DEF Numbers
    <3>2. Sold(n)' = Sold(n)
      BY <1>3, <2>1, <3>1 DEF Sold
    <3> QED BY <2>3, <3>2 DEF OnePlace
  <2>6. ASSUME NEW n, n = currOrderNumber PROVE OneOf(Waiting(n)', Sold(n)')
    <3>1. Sold(n)' = {m}
      BY <1>3, <2>1, <2>4, <2>6 DEF Sold
    <3> QED BY <2>3, <2>4, <2>6, <3>1 DEF OneOf
  <2> QED BY <2>2, <2>5, <2>6 DEF OnePlace
<1> QED BY <1>5, <1>6, <1>7, <1>8, <1>9

\* A new id is handed out.
LEMMA NewIdPreserves == PoolInv /\ getNewClientId => PoolInv'
<1> SUFFICES ASSUME PoolInv, getNewClientId PROVE PoolInv'
  OBVIOUS
<1> USE DEF PoolInv
<1>1. /\ Numbers' = Numbers
      /\ lastClientId' \in Nat /\ currOrderNumber' \in Nat
      /\ UNCHANGED <<bidsQueue, asksQueue, matched, pending, table, fairnessCoefficient>>
  BY DEF getNewClientId, bookVars, PoolTypeOK, ClientIds, Numbers
<1>2. Order \subseteq Order'
  BY <1>1 DEF Order
<1>3. OwnOrder \subseteq OwnOrder'
  BY <1>1 DEF OwnOrder
<1>4. PoolTypeOK'
  <2>1. matched' \subseteq [bid : {c \in Order' \union OwnOrder' : c.side = "BID"},
                            ask : {c \in Order' \union OwnOrder' : c.side = "ASK"}]
    BY <1>1, <1>2, <1>3 DEF PoolTypeOK
  <2>2. table' \in [Keys -> ClientIds \union {Undefined}]
    BY <1>1 DEF PoolTypeOK
  <2> QED BY <1>1, <1>2, <1>3, <2>1, <2>2 DEF PoolTypeOK
<1>5. BookUncrossed' /\ BestPriceFirst' /\ PendingIsMatched' /\ SettledIsMatched'
  BY <1>1 DEF BookUncrossed, BestPriceFirst, PendingIsMatched, SettledIsMatched, MatchedOrders,
              fair, madeBefore, hash
<1>6. OnePlace'
  BY <1>1 DEF OnePlace, Waiting, Sold
<1> QED BY <1>4, <1>5, <1>6

\* A put completes, or fails.
LEMMA PutPreserves ==
  ASSUME PoolInv, NEW o \in pending, putItem(o) \/ putItem_fails(o)
  PROVE  PoolInv'
<1> USE DEF PoolInv
<1>1. /\ UNCHANGED <<bidsQueue, asksQueue, matched, currOrderNumber, lastClientId,
                     fairnessCoefficient>>
      /\ pending' = pending \ {o}
      /\ table' = table \/ table' = [table EXCEPT ![hash(o)] = o.clientId]
  BY DEF putItem, putItem_fails, bookVars
<1>2. Numbers' = Numbers /\ Order' = Order /\ OwnOrder' = OwnOrder
      /\ MatchedOrders' = MatchedOrders
  BY <1>1 DEF ClientIds, Numbers, Order, OwnOrder, MatchedOrders
<1>3. o.clientId \in ClientIds /\ hash(o) \in Keys /\ o \in MatchedOrders
  BY DEF PoolTypeOK, PendingIsMatched, Order, OwnOrder, hash, Keys
<1>4. PoolTypeOK'
  BY <1>1, <1>2, <1>3 DEF PoolTypeOK
<1>5. BookUncrossed' /\ BestPriceFirst'
  BY <1>1 DEF BookUncrossed, BestPriceFirst, fair, madeBefore
<1>6. PendingIsMatched'
  BY <1>1, <1>2 DEF PendingIsMatched
<1>7. SettledIsMatched'
  BY <1>1, <1>2, <1>3 DEF SettledIsMatched, hash, PoolTypeOK
<1>8. OnePlace'
  BY <1>1, <1>2 DEF OnePlace, Waiting, Sold
<1> QED BY <1>4, <1>5, <1>6, <1>7, <1>8

\* Nothing but the coefficient changes.
LEMMA QuietPoolPreserves ==
  ASSUME PoolInv, fairnessCoefficient' \in Coefficients,
         UNCHANGED <<bidsQueue, asksQueue, matched, currOrderNumber, lastClientId, pending, table>>
  PROVE  PoolInv'
<1>1. Numbers' = Numbers /\ Order' = Order /\ OwnOrder' = OwnOrder
      /\ MatchedOrders' = MatchedOrders
  BY DEF ClientIds, Numbers, Order, OwnOrder, MatchedOrders
<1>2. OnePlace'
  BY <1>1 DEF PoolInv, OnePlace, Waiting, Sold
<1> QED BY <1>1, <1>2 DEF PoolInv, PoolTypeOK, BookUncrossed, BestPriceFirst, PendingIsMatched,
                          SettledIsMatched, fair, madeBefore, hash

\* An order is sent, which the pool may refuse.
LEMMA SendPreserves ==
  ASSUME PoolInv, NEW req, sendOrder(req),
         order_status(req) = 200 =>
           req.limitPrice \in Prices /\ req.side \in Sides /\ req.clientId \in ClientIds
  PROVE  PoolInv'
<1>1. CASE acceptOrder(req)
  <2> DEFINE o == [limitPrice |-> req.limitPrice, side |-> req.side, clientId |-> req.clientId,
                   number |-> currOrderNumber]
  <2>1. o \in [limitPrice : Prices, side : Sides, clientId : ClientIds, number : {currOrderNumber}]
    BY <1>1 DEF acceptOrder
  <2>2. /\ enqueue(o) \/ frontRun(o)
        /\ currOrderNumber' = currOrderNumber + 1 /\ UNCHANGED <<fairnessCoefficient, table>>
    BY <1>1 DEF acceptOrder
  <2> HIDE DEF o
  <2> QED BY <2>1, <2>2, EnqueuePreserves, FrontRunPreserves
<1>2. CASE refuseOrder(req)
  BY <1>2, QuietPoolPreserves DEF refuseOrder, poolVars, bookVars, PoolInv, PoolTypeOK
<1> QED BY <1>1, <1>2 DEF sendOrder

\* Somebody sends an order under any id; a negative one is refused.
LEMMA AnySendPreserves ==
  ASSUME PoolInv, NEW p \in Prices, NEW s \in Sides, NEW id \in SentIds,
         sendOrder([asset |-> "AAPL", limitPrice |-> p, side |-> s, clientId |-> id])
  PROVE  PoolInv'
<1> DEFINE req == [asset |-> "AAPL", limitPrice |-> p, side |-> s, clientId |-> id]
<1>1. sendOrder(req) /\ req.limitPrice \in Prices /\ req.side \in Sides /\ req.clientId = id
  OBVIOUS
<1>2. id \in Int
  BY DEF SentIds
<1> HIDE DEF req
<1>3. order_status(req) = 200 => req.clientId \in ClientIds
  BY <1>1, <1>2 DEF order_status, ClientIds
<1> QED BY <1>1, <1>3, SendPreserves

\* The operator turns the knob.
LEMMA KnobPreserves ==
  ASSUME PoolInv, NEW f, setFairness(f)
  PROVE  PoolInv'
BY QuietPoolPreserves DEF setFairness, bookVars, PoolInv, PoolTypeOK

\* Every step of the pool keeps it in order.
LEMMA PoolStepPreserves == PoolInv /\ [PoolNext]_poolVars => PoolInv'
<1> SUFFICES ASSUME PoolInv, [PoolNext]_poolVars PROVE PoolInv'
  OBVIOUS
<1>1. CASE getNewClientId
  BY <1>1, NewIdPreserves
<1>2. ASSUME NEW p \in Prices, NEW s \in Sides, NEW id \in SentIds,
             sendOrder([asset |-> "AAPL", limitPrice |-> p, side |-> s, clientId |-> id])
      PROVE  PoolInv'
  BY <1>2, AnySendPreserves
<1>3. CASE UNCHANGED poolVars
  BY <1>3, QuietPoolPreserves DEF poolVars, bookVars, PoolInv, PoolTypeOK
<1>4. ASSUME NEW f, setFairness(f) PROVE PoolInv'
  BY <1>4, KnobPreserves
<1>5. ASSUME NEW o \in pending, putItem(o) \/ putItem_fails(o) PROVE PoolInv'
  BY <1>5, PutPreserves
<1> QED BY <1>1, <1>2, <1>3, <1>4, <1>5 DEF PoolNext

-----------------------------------------------------------------------------
(***************************************************************************)
(* The theorems.                                                           *)
(***************************************************************************)

\* The invariant of the pool.
THEOREM PoolInvariant == PoolSpec => []PoolInv
BY PoolInitEstablishes, PoolStepPreserves, PTL DEF PoolSpec

\* Every variable of the pool keeps its type.
THEOREM PoolTypeCorrect == PoolSpec => []PoolTypeOK
<1>1. PoolInv => PoolTypeOK
  BY DEF PoolInv
<1> QED BY <1>1, PoolInvariant, PTL

\* One call of checkForMatches per order keeps the book uncrossed, for any
\* prices and whatever order the comparison puts them in.
THEOREM BookStaysUncrossed == PoolSpec => []BookUncrossed
<1>1. PoolInv => BookUncrossed
  BY DEF PoolInv
<1> QED BY <1>1, PoolInvariant, PTL

\* The queues serve the best price first, however ties are broken.
THEOREM BestIsServedFirst == PoolSpec => []BestPriceFirst
<1>1. PoolInv => BestPriceFirst
  BY DEF PoolInv
<1> QED BY <1>1, PoolInvariant, PTL

\* The settlement table names matched clients only, whichever puts complete.
THEOREM TableNamesMatched == PoolSpec => []SettledIsMatched
<1>1. PoolInv => SettledIsMatched
  BY DEF PoolInv
<1> QED BY <1>1, PoolInvariant, PTL

\* What is in one place is counted once.
LEMMA OneIsOne ==
  ASSUME NEW W, NEW S, OneOf(W, S)
  PROVE  Cardinality(W) + Cardinality(S) = 1
<1>1. CASE W = {} /\ \E x \in S : S = {x}
  <2>1. Cardinality(W) = 0 /\ Cardinality(S) = 1
    BY <1>1, FS_EmptySet, FS_Singleton
  <2> QED BY <2>1
<1>2. CASE S = {} /\ \E x \in W : W = {x}
  <2>1. Cardinality(S) = 0 /\ Cardinality(W) = 1
    BY <1>2, FS_EmptySet, FS_Singleton
  <2> QED BY <2>1
<1> QED BY <1>1, <1>2 DEF OneOf

\* The pool loses no order and sells none twice, for any number of orders.
THEOREM OrdersAreConserved == PoolSpec => []OrdersConserved
<1>1. PoolInv => OrdersConserved
  BY OneIsOne DEF PoolInv, OnePlace, OrdersConserved
<1> QED BY <1>1, PoolInvariant, PTL

-----------------------------------------------------------------------------
(***************************************************************************)
(* The clients.  What a client reads in the table was matched, and stays   *)
(* so; what it finds in the ledger stays there under the same id, because  *)
(* a client gets its id before it appends, and gets one only once.         *)
(***************************************************************************)
FilledAt(c, id) ==
    \E o \in MatchedOrders : hash(o) = <<want[c].limitPrice, want[c].side>> /\ o.clientId = id

InLedger(c, id) ==
    \E i \in 1 .. Len(ledger) : clientId[ledger[i]] = id /\ want[ledger[i]] = want[c]

\* The variables of the clients have their types.
ClientTypeOK ==
    /\ scenario \in Scenarios
    /\ pc \in [Clients -> {"id", "append", "send", "poll", "exit"}]
    /\ clientId \in [Clients -> ClientIds \union {Undefined}]
    /\ filled \in [Clients -> ClientIds \union {Undefined}]
    /\ accused \in [Clients -> SUBSET ClientIds]
    /\ ledger \in Seq(Clients)

\* Who runs client.js wants something.  A client that has come to the ledger has its
\* id, and who is in the ledger has come there.
ProgressInv ==
    /\ \A c \in Clients : pc[c] # "exit" => c \in DOMAIN want
    /\ \A c \in Clients : pc[c] \in {"append", "send", "poll"} => clientId[c] # Undefined
    /\ \A i \in 1 .. Len(ledger) : pc[ledger[i]] # "id"

\* What the clients have read, and whom they accuse.
EvidenceInv ==
    \A c \in Clients :
      /\ filled[c] # Undefined => FilledAt(c, filled[c])
      /\ \A id \in accused[c] : FilledAt(c, id) /\ InLedger(c, id)

ClientInv == ClientTypeOK /\ ProgressInv /\ EvidenceInv
FredInv   == PoolInv /\ ClientInv

\* What was matched stays matched.
LEMMA FilledStays ==
  ASSUME matched \subseteq matched', UNCHANGED scenario, NEW c, NEW id, FilledAt(c, id)
  PROVE  FilledAt(c, id)'
<1>1. MatchedOrders \subseteq MatchedOrders'
  BY DEF MatchedOrders
<1> QED BY <1>1 DEF FilledAt, want, hash

\* What every step may do to the clients.
LEMMA ClientFrame ==
  ASSUME ClientInv, matched \subseteq matched', UNCHANGED scenario,
         pc' \in [Clients -> {"id", "append", "send", "poll", "exit"}],
         clientId' \in [Clients -> ClientIds \union {Undefined}],
         \A c \in Clients : pc[c] # "id" => pc'[c] # "id" /\ clientId'[c] = clientId[c],
         \A c \in Clients : pc'[c] # "exit" => pc[c] # "exit",
         \A c \in Clients : pc'[c] \in {"append", "send", "poll"} => clientId'[c] # Undefined,
         ledger' = ledger \/ (\E c \in Clients : pc'[c] # "id" /\ ledger' = Append(ledger, c)),
         filled' \in [Clients -> ClientIds \union {Undefined}],
         accused' \in [Clients -> SUBSET ClientIds],
         \A c \in Clients : filled'[c] # Undefined => FilledAt(c, filled'[c]),
         \A c \in Clients : \A id \in accused'[c] : FilledAt(c, id) /\ InLedger(c, id)
  PROVE  ClientInv'
<1>1. ClientTypeOK /\ ProgressInv /\ ledger \in Seq(Clients)
  BY DEF ClientInv, ClientTypeOK
<1>2. /\ Len(ledger) \in Nat /\ \A i \in 1 .. Len(ledger) : ledger[i] \in Clients
      /\ ledger' \in Seq(Clients) /\ Len(ledger') \in Nat /\ Len(ledger) <= Len(ledger')
      /\ \A i \in 1 .. Len(ledger) : ledger'[i] = ledger[i]
      /\ \A i \in 1 .. Len(ledger') : i \in 1 .. Len(ledger) \/ pc'[ledger'[i]] # "id"
  <2>1. Len(ledger) \in Nat /\ \A i \in 1 .. Len(ledger) : ledger[i] \in Clients
    BY <1>1
  <2>2. CASE ledger' = ledger
    BY <1>1, <2>1, <2>2
  <2>3. CASE \E c \in Clients : pc'[c] # "id" /\ ledger' = Append(ledger, c)
    <3>1. PICK c \in Clients : pc'[c] # "id" /\ ledger' = Append(ledger, c)
      BY <2>3
    <3>2. /\ ledger' \in Seq(Clients) /\ Len(ledger') = Len(ledger) + 1
          /\ \A i \in 1 .. Len(ledger) : ledger'[i] = ledger[i]
          /\ ledger'[Len(ledger) + 1] = c
      BY <1>1, <3>1
    <3> QED BY <2>1, <3>1, <3>2
  <2> QED BY <2>2, <2>3
<1>3. ClientTypeOK'
  BY <1>1, <1>2 DEF ClientTypeOK
<1>4. ProgressInv'
  <2>1. want' = want
    BY DEF want
  <2>2. \A i \in 1 .. Len(ledger') : pc'[ledger'[i]] # "id"
    BY <1>1, <1>2 DEF ProgressInv
  <2> QED BY <1>1, <2>1, <2>2 DEF ProgressInv
<1>5. ASSUME NEW c \in Clients, NEW id, InLedger(c, id) PROVE InLedger(c, id)'
  <2>1. PICK i \in 1 .. Len(ledger) : clientId[ledger[i]] = id /\ want[ledger[i]] = want[c]
    BY <1>5 DEF InLedger
  <2>2. i \in 1 .. Len(ledger') /\ ledger'[i] = ledger[i] /\ ledger[i] \in Clients
    BY <1>2
  <2>3. clientId'[ledger[i]] = clientId[ledger[i]]
    BY <1>1, <2>2 DEF ProgressInv
  <2>4. want' = want
    BY DEF want
  <2> QED BY <2>1, <2>2, <2>3, <2>4 DEF InLedger
<1>6. ASSUME NEW c \in Clients, NEW id, FilledAt(c, id) PROVE FilledAt(c, id)'
  BY <1>6, FilledStays
<1>7. EvidenceInv'
  BY <1>5, <1>6 DEF EvidenceInv
<1> QED BY <1>3, <1>4, <1>7 DEF ClientInv

\* Every request to the pool keeps what was matched.
LEMMA PoolGrows ==
  ASSUME \/ getNewClientId \/ UNCHANGED poolVars
         \/ \E req : sendOrder(req)
         \/ \E f : setFairness(f)
         \/ \E o : putItem(o) \/ putItem_fails(o)
  PROVE  matched \subseteq matched'
<1>1. CASE getNewClientId \/ UNCHANGED poolVars
  BY <1>1 DEF getNewClientId, poolVars, bookVars
<1>2. ASSUME NEW req, sendOrder(req) PROVE matched \subseteq matched'
  <2>1. CASE refuseOrder(req)
    BY <2>1 DEF refuseOrder, poolVars, bookVars
  <2>2. ASSUME NEW o, enqueue(o) PROVE matched \subseteq matched'
    BY <2>2 DEF enqueue, checkForMatches, uploadMatchToAWS
  <2>3. ASSUME NEW o, frontRun(o) PROVE matched \subseteq matched'
    BY <2>3 DEF frontRun, uploadMatchToAWS
  <2> QED BY <1>2, <2>1, <2>2, <2>3 DEF sendOrder, acceptOrder
<1>3. ASSUME NEW f, setFairness(f) PROVE matched \subseteq matched'
  BY <1>3 DEF setFairness, bookVars
<1>4. ASSUME NEW o, putItem(o) \/ putItem_fails(o) PROVE matched \subseteq matched'
  BY <1>4 DEF putItem, putItem_fails, bookVars
<1> QED BY <1>1, <1>2, <1>3, <1>4

\* Nobody has read or accused anything at the start.
LEMMA FredInitEstablishes == Init => FredInv
<1> SUFFICES ASSUME Init PROVE FredInv
  OBVIOUS
<1>1. PoolInv
  BY PoolInitEstablishes DEF Init
<1>2. ledger = << >> /\ Len(ledger) = 0 /\ ledger \in Seq(Clients)
  BY DEF Init
<1>3. ClientTypeOK
  BY <1>2 DEF Init, ClientTypeOK
<1>4. ProgressInv
  <2>1. \A c \in Clients : pc[c] = "exit" \/ (pc[c] = "id" /\ c \in DOMAIN want)
    BY DEF Init
  <2> QED BY <1>2, <2>1 DEF ProgressInv
<1>5. EvidenceInv
  BY DEF Init, EvidenceInv
<1> QED BY <1>1, <1>3, <1>4, <1>5 DEF FredInv, ClientInv

\* Steps that leave the clients alone.
LEMMA OthersPreserve ==
  ASSUME FredInv, trade \/ operate \/ UNCHANGED vars
  PROVE  FredInv'
<1>1. PoolInv /\ ClientInv
  BY DEF FredInv
<1>2. UNCHANGED <<scenario, pc, clientId, ourIndex, ledger, answer, filled, accused>>
  BY DEF trade, operate, vars, clientVars
<1>3. /\ PoolInv'
      /\ \/ getNewClientId \/ UNCHANGED poolVars
         \/ \E req : sendOrder(req)
         \/ \E f : setFairness(f)
         \/ \E o : putItem(o) \/ putItem_fails(o)
  <2>1. CASE trade
    BY <1>1, <2>1, NewIdPreserves, AnySendPreserves DEF trade
  <2>2. CASE operate
    BY <1>1, <2>2, KnobPreserves, PutPreserves DEF operate
  <2>3. CASE UNCHANGED vars
    BY <1>1, <2>3, PoolStepPreserves DEF vars
  <2> QED BY <2>1, <2>2, <2>3
<1>4. matched \subseteq matched'
  BY <1>1, <1>3, PoolGrows
<1>5. ClientTypeOK /\ ProgressInv /\ EvidenceInv
  BY <1>1 DEF ClientInv
<1>6. /\ clientId' \in [Clients -> ClientIds \union {Undefined}]
      /\ filled' \in [Clients -> ClientIds \union {Undefined}]
      /\ accused' \in [Clients -> SUBSET ClientIds]
      /\ pc' \in [Clients -> {"id", "append", "send", "poll", "exit"}]
  BY <1>2, <1>4, <1>5 DEF ClientTypeOK
<1>7. /\ \A c \in Clients : pc'[c] \in {"append", "send", "poll"} => clientId'[c] # Undefined
      /\ \A c \in Clients : filled'[c] # Undefined => FilledAt(c, filled'[c])
      /\ \A c \in Clients : \A id \in accused'[c] : FilledAt(c, id) /\ InLedger(c, id)
  BY <1>2, <1>5 DEF ProgressInv, EvidenceInv
<1>8. ClientInv'
  BY <1>1, <1>2, <1>4, <1>6, <1>7, ClientFrame
<1> QED BY <1>3, <1>8 DEF FredInv

\* A client gets its id.
LEMMA GetIdPreserves ==
  ASSUME FredInv, NEW c \in Clients, get_id(c)
  PROVE  FredInv'
<1>1. PoolInv /\ ClientInv /\ ClientTypeOK /\ ProgressInv /\ EvidenceInv
  BY DEF FredInv, ClientInv
<1>2. /\ pc[c] = "id" /\ UNCHANGED <<scenario, ourIndex, ledger, answer, filled, accused>>
      /\ \/ /\ getNewClientId /\ clientId' = [clientId EXCEPT ![c] = lastClientId]
            /\ pc' = [pc EXCEPT ![c] = "append"]
         \/ /\ getNewClientId \/ UNCHANGED poolVars
            /\ pc' = [pc EXCEPT ![c] = "exit"] /\ UNCHANGED clientId
  BY DEF get_id
<1>3. PoolInv'
  <2>1. getNewClientId \/ UNCHANGED poolVars
    BY <1>2
  <2> QED BY <1>1, <2>1, NewIdPreserves, PoolStepPreserves
<1>4. matched \subseteq matched'
  BY <1>1, <1>2, PoolGrows
<1>5. Undefined \notin Int /\ lastClientId \in Nat
  BY <1>1, PricesAssumption DEF PoolInv, PoolTypeOK
<1>6. getNewClientId => lastClientId \in ClientIds
  <2>1. getNewClientId => lastClientId' = lastClientId + 1
    BY DEF getNewClientId
  <2> QED BY <1>5, <2>1 DEF ClientIds
<1>7. /\ pc \in [Clients -> {"id", "append", "send", "poll", "exit"}]
      /\ clientId \in [Clients -> ClientIds \union {Undefined}]
      /\ filled' \in [Clients -> ClientIds \union {Undefined}]
      /\ accused' \in [Clients -> SUBSET ClientIds]
  BY <1>1, <1>2, <1>4 DEF ClientTypeOK
<1>8. /\ pc' \in [Clients -> {"id", "append", "send", "poll", "exit"}]
      /\ clientId' \in [Clients -> ClientIds \union {Undefined}]
  BY <1>2, <1>6, <1>7
<1>9. \A d \in Clients : /\ pc[d] # "id" => pc'[d] # "id" /\ clientId'[d] = clientId[d]
                         /\ pc'[d] # "exit" => pc[d] # "exit"
  BY <1>2, <1>7
<1>10. \A d \in Clients : pc'[d] \in {"append", "send", "poll"} => clientId'[d] # Undefined
  <2>1. ASSUME NEW d \in Clients, d # c
        PROVE  pc'[d] = pc[d] /\ clientId'[d] = clientId[d]
    BY <1>2, <1>7, <2>1
  <2>2. pc'[c] = "exit" \/ (pc'[c] = "append" /\ clientId'[c] = lastClientId)
    BY <1>2, <1>7
  <2> QED BY <1>1, <1>5, <2>1, <2>2 DEF ProgressInv
<1>11. /\ \A d \in Clients : filled'[d] # Undefined => FilledAt(d, filled'[d])
       /\ \A d \in Clients : \A id \in accused'[d] : FilledAt(d, id) /\ InLedger(d, id)
  BY <1>1, <1>2 DEF EvidenceInv
<1>12. ClientInv'
  BY <1>1, <1>2, <1>4, <1>7, <1>8, <1>9, <1>10, <1>11, ClientFrame
<1> QED BY <1>3, <1>12 DEF FredInv

\* A client goes to the ledger, and then to the pool.
LEMMA AppendAndSendPreserve ==
  ASSUME FredInv, NEW c \in Clients, append(c) \/ send_order(c)
  PROVE  FredInv'
<1>1. PoolInv /\ ClientInv /\ ClientTypeOK /\ ProgressInv /\ EvidenceInv
  BY DEF FredInv, ClientInv
<1>2. /\ pc[c] \in {"append", "send"}
      /\ pc' = [pc EXCEPT ![c] = "send"] \/ pc' = [pc EXCEPT ![c] = "poll"]
      /\ UNCHANGED <<scenario, clientId, filled, accused>>
  BY DEF append, send_order
<1>3. /\ PoolInv'
      /\ UNCHANGED poolVars \/ \E req : sendOrder(req)
  <2>1. CASE UNCHANGED poolVars
    BY <1>1, <2>1, PoolStepPreserves
  <2>2. CASE send_order(c) /\ sendOrder(request(c))
    <3>1. clientId[c] \in ClientIds
      <4>1. pc[c] = "send"
        BY <2>2 DEF send_order
      <4> QED BY <1>1, <4>1 DEF ClientTypeOK, ProgressInv
    <3> DEFINE req == request(c)
    <3>2. /\ req.clientId = clientId[c] /\ req.limitPrice = want[c].limitPrice
          /\ req.side = want[c].side
      BY DEF request
    <3>3. want[c].limitPrice \in Prices \/ want[c].limitPrice = Undefined \/ want[c].limitPrice < 0
      <4>1. c \in DOMAIN want /\ scenario \in Scenarios
        BY <1>1, <1>2 DEF ProgressInv, ClientTypeOK
      <4> QED BY <4>1, ScenariosAssumption DEF want
    <3> HIDE DEF req
    <3>4. order_status(req) = 200 =>
            req.limitPrice \in Prices /\ req.side \in Sides /\ req.clientId \in ClientIds
      BY <3>1, <3>2, <3>3 DEF order_status
    <3>5. sendOrder(req)
      BY <2>2 DEF req
    <3> QED BY <1>1, <3>4, <3>5, SendPreserves
  <2> QED BY <2>1, <2>2 DEF append, send_order
<1>4. matched \subseteq matched'
  BY <1>1, <1>3, PoolGrows
<1>5. /\ pc \in [Clients -> {"id", "append", "send", "poll", "exit"}]
      /\ clientId' \in [Clients -> ClientIds \union {Undefined}]
      /\ filled' \in [Clients -> ClientIds \union {Undefined}]
      /\ accused' \in [Clients -> SUBSET ClientIds]
  BY <1>1, <1>2, <1>4 DEF ClientTypeOK
<1>6. /\ pc' \in [Clients -> {"id", "append", "send", "poll", "exit"}] /\ pc'[c] \in {"send", "poll"}
      /\ \A d \in Clients : d # c => pc'[d] = pc[d]
  BY <1>2, <1>5
<1>7. /\ \A d \in Clients : pc[d] # "id" => pc'[d] # "id" /\ clientId'[d] = clientId[d]
      /\ \A d \in Clients : pc'[d] # "exit" => pc[d] # "exit"
  BY <1>2, <1>6
<1>8. \A d \in Clients : pc'[d] \in {"append", "send", "poll"} => clientId'[d] # Undefined
  BY <1>1, <1>2, <1>6 DEF ProgressInv
<1>9. ledger' = ledger \/ (\E d \in Clients : pc'[d] # "id" /\ ledger' = Append(ledger, d))
  <2>1. ledger' = ledger \/ ledger' = Append(ledger, c)
    BY DEF append, send_order, Log!Accept, Log!Refuse
  <2> QED BY <1>6, <2>1
<1>10. /\ \A d \in Clients : filled'[d] # Undefined => FilledAt(d, filled'[d])
       /\ \A d \in Clients : \A id \in accused'[d] : FilledAt(d, id) /\ InLedger(d, id)
  BY <1>1, <1>2 DEF EvidenceInv
<1>11. ClientInv'
  BY <1>1, <1>2, <1>4, <1>5, <1>6, <1>7, <1>8, <1>9, <1>10, ClientFrame
<1> QED BY <1>3, <1>11 DEF FredInv

\* The place in the ledger is -1 only for an order that is not there.
LEMMA IndexFound ==
  ASSUME ledger \in Seq(Clients), NEW c, NEW id
  PROVE  getIndex(c, id) # -1 <=> InLedger(c, id)
<1> DEFINE at == {i \in 1 .. Len(ledger) : clientId[ledger[i]] = id /\ want[ledger[i]] = want[c]}
           least == CHOOSE i \in at : \A j \in at : i <= j
<1>1. InLedger(c, id) <=> at # {}
  BY DEF InLedger
<1>2. getIndex(c, id) = IF at = {} THEN -1 ELSE least - 1
  BY DEF getIndex
<1>3. ASSUME at # {} PROVE least \in Nat \ {0}
  <2>1. Len(ledger) \in Nat
    OBVIOUS
  <2>2. at \subseteq Nat \ {0}
    BY <2>1
  <2> HIDE DEF at
  <2>3. \E i \in at : \A j \in at : i <= j
    BY <1>3, <2>2, LeastNatural
  <2>4. least \in at
    BY <2>3
  <2> QED BY <2>2, <2>4
<1> HIDE DEF at, least
<1>4. at # {} => least - 1 # -1
  BY <1>3
<1> QED BY <1>1, <1>2, <1>4

\* A client reads who was filled, and accuses.
LEMMA ReadAndComparePreserve ==
  ASSUME FredInv, NEW c \in Clients, get_item(c) \/ compare(c)
  PROVE  FredInv'
<1>1. PoolInv /\ ClientInv /\ ClientTypeOK /\ ProgressInv /\ EvidenceInv
  BY DEF FredInv, ClientInv
<1>2. UNCHANGED <<poolVars, scenario, pc, clientId, ourIndex, ledger, answer>>
  BY DEF get_item, compare
<1>3. PoolInv'
  BY <1>1, <1>2, PoolStepPreserves
<1>4. matched' = matched
  BY <1>2 DEF poolVars, bookVars, ClientIds
<1>5. /\ pc' \in [Clients -> {"id", "append", "send", "poll", "exit"}]
      /\ clientId' \in [Clients -> ClientIds \union {Undefined}]
      /\ filled \in [Clients -> ClientIds \union {Undefined}]
      /\ accused \in [Clients -> SUBSET ClientIds]
  BY <1>1, <1>2, <1>4 DEF ClientTypeOK
<1>6. /\ filled' \in [Clients -> ClientIds \union {Undefined}]
      /\ \A d \in Clients : filled'[d] # Undefined => FilledAt(d, filled'[d])
  <2>1. CASE get_item(c)
    <3> DEFINE k == <<want[c].limitPrice, want[c].side>>
    <3>1. k \in Keys /\ table[k] # Undefined /\ filled' = [filled EXCEPT ![c] = table[k]]
      BY <2>1 DEF get_item
    <3>2. table[k] \in ClientIds
      BY <1>1, <3>1 DEF PoolInv, PoolTypeOK
    <3>3. FilledAt(c, table[k])
      BY <1>1, <3>1 DEF PoolInv, SettledIsMatched, FilledAt
    <3>4. \A d \in Clients : filled'[d] = IF d = c THEN table[k] ELSE filled[d]
      BY <1>5, <3>1
    <3> HIDE DEF k
    <3>5. filled' \in [Clients -> ClientIds \union {Undefined}]
      BY <1>4, <1>5, <3>1, <3>2
    <3> QED BY <1>1, <3>3, <3>4, <3>5 DEF EvidenceInv
  <2>2. CASE compare(c)
    <3>1. filled' = [filled EXCEPT ![c] = Undefined]
      BY <2>2 DEF compare
    <3> QED BY <1>1, <1>5, <3>1 DEF EvidenceInv
  <2> QED BY <2>1, <2>2
<1>7. /\ accused' \in [Clients -> SUBSET ClientIds]
      /\ \A d \in Clients : \A id \in accused'[d] : FilledAt(d, id) /\ InLedger(d, id)
  <2>1. CASE UNCHANGED accused
    BY <1>1, <1>5, <2>1 DEF EvidenceInv
  <2>2. CASE /\ compare(c) /\ after_ours(ourIndex[c], getIndex(c, filled[c]))
             /\ accused' = [accused EXCEPT ![c] = @ \union {filled[c]}]
    <3>1. filled[c] # Undefined /\ filled[c] \in ClientIds
      BY <1>5, <2>2 DEF compare
    <3>2. getIndex(c, filled[c]) # -1
      BY <2>2 DEF after_ours
    <3>3. InLedger(c, filled[c])
      BY <1>1, <3>2, IndexFound DEF ClientTypeOK
    <3>4. FilledAt(c, filled[c])
      BY <1>1, <3>1 DEF EvidenceInv
    <3>5. accused' \in [Clients -> SUBSET ClientIds]
      BY <1>5, <2>2, <3>1
    <3>6. \A d \in Clients : accused'[d] \subseteq accused[d] \union {filled[d]}
                            /\ (d # c => accused'[d] = accused[d])
      BY <1>5, <2>2
    <3>7. ASSUME NEW d \in Clients, NEW id \in accused'[d]
          PROVE  FilledAt(d, id) /\ InLedger(d, id)
      <4>1. CASE id \in accused[d]
        BY <1>1, <4>1 DEF EvidenceInv
      <4>2. CASE id \notin accused[d]
        <5>1. d = c /\ id = filled[c]
          BY <3>6, <3>7, <4>2
        <5> QED BY <3>3, <3>4, <5>1
      <4> QED BY <4>1, <4>2
    <3> QED BY <3>5, <3>7
  <2> QED BY <2>1, <2>2 DEF get_item, compare
<1>8. \A d \in Clients : pc'[d] \in {"append", "send", "poll"} => clientId'[d] # Undefined
  BY <1>1, <1>2 DEF ProgressInv
<1>9. matched \subseteq matched'
  BY <1>4
<1>10. ClientInv'
  BY <1>1, <1>2, <1>5, <1>6, <1>7, <1>8, <1>9, ClientFrame
<1> QED BY <1>3, <1>10 DEF FredInv

\* Every step of the whole keeps the invariant.
LEMMA FredStepPreserves == FredInv /\ [Next]_vars => FredInv'
<1> SUFFICES ASSUME FredInv, [Next]_vars PROVE FredInv'
  OBVIOUS
<1>1. CASE trade \/ operate \/ UNCHANGED vars
  BY <1>1, OthersPreserve
<1>2. ASSUME NEW c \in Clients,
             get_id(c) \/ append(c) \/ send_order(c) \/ get_item(c) \/ compare(c)
      PROVE  FredInv'
  BY <1>2, GetIdPreserves, AppendAndSendPreserve, ReadAndComparePreserve
<1> QED BY <1>1, <1>2 DEF Next

\* The invariant of the whole.
THEOREM FredInvariant == Spec => []FredInv
BY FredInitEstablishes, FredStepPreserves, PTL DEF Spec

\* Among any clients, with requests that fail before or after they are served, the
\* pool keeps all it promises by itself.
THEOREM PoolAmongClients ==
  Spec => [](BookUncrossed /\ BestPriceFirst /\ OrdersConserved /\ SettledIsMatched)
<1>1. PoolInv => BookUncrossed /\ BestPriceFirst /\ OrdersConserved /\ SettledIsMatched
  BY OneIsOne DEF PoolInv, OnePlace, OrdersConserved
<1>2. FredInv => BookUncrossed /\ BestPriceFirst /\ OrdersConserved /\ SettledIsMatched
  BY <1>1 DEF FredInv
<1> QED BY <1>2, FredInvariant, PTL

\* Whom a client accuses was filled at the client's price and side, and has its hash
\* in the ledger: for any clients, any wants and any number of failures.
THEOREM AccusedFilled == Spec => []AccusedWasFilled
<1>1. FredInv => AccusedWasFilled
  <2> SUFFICES ASSUME FredInv, NEW c \in DOMAIN want, NEW id \in accused[c]
               PROVE  FilledAt(c, id) /\ getIndex(c, id) # -1
    BY DEF AccusedWasFilled, FilledAt
  <2>1. ClientTypeOK /\ EvidenceInv
    BY DEF FredInv, ClientInv
  <2>2. c \in Clients
    BY <2>1, ScenariosAssumption DEF ClientTypeOK, want
  <2>3. FilledAt(c, id) /\ InLedger(c, id)
    BY <2>1, <2>2 DEF EvidenceInv
  <2> QED BY <2>1, <2>3, IndexFound DEF ClientTypeOK
<1> QED BY <1>1, FredInvariant, PTL
=============================================================================
