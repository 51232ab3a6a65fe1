SPECIFICATION Spec
CONSTANTS
    Undefined = Undefined
    Prices <- MCPrices
    Rank <- MCRank
    MaxRank = 10
    Settings = {"one"}
    MaxOrders = 3
    MaxIds = 3
    MaxFailures = 1
    Clients <- MCClients
    Scenarios <- ClientsOnly
INVARIANTS
    AccusedIsAfter
