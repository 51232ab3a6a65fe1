SPECIFICATION Spec
CONSTANTS
    Undefined = Undefined
    Prices <- MCPrices
    Rank <- MCRank
    MaxRank = 10
    Settings = {"between", "outside"}
    MaxOrders = 3
    MaxIds = 2
    MaxFailures = 2
    Clients <- MCClients
    Scenarios <- MCScenarios
INVARIANTS
    BookUncrossed
    BestPriceFirst
    OrdersConserved
    SettledIsMatched
    AccusedWasFilled
