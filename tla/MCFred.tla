------------------------------- MODULE MCFred -------------------------------
(***************************************************************************)
(* Instances of Fred for TLC.                                              *)
(***************************************************************************)
EXTENDS Fred

MCPrices == {9, 10}
MCRank   == [p \in MCPrices |-> p]

bid == [asset |-> "AAPL", limitPrice |-> 9, side |-> "BID"]
ask == [bid EXCEPT !.side = "ASK"]

MCClients == {"c1", "c2", "c3"}
wants(w) == [c \in MCClients |-> IF c = "c3" THEN w ELSE bid]

\* Two buyers and a third client: a seller, or one whose order the pool refuses.
ClientsOnly == {[wants |-> wants(w), others |-> FALSE, settings |-> {"one"}] :
                  w \in {ask, [ask EXCEPT !.asset = "TSLA"]}}

\* Or nobody runs client.js and others trade at both prices.
MCScenarios == ClientsOnly \union {[wants |-> << >>, others |-> TRUE, settings |-> Settings]}
=============================================================================
