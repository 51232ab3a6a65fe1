SPECIFICATION RecoverySpec
CONSTANTS
    r1 = r1
    r2 = r2
    r3 = r3
    Replicas = {r1, r2}
    IdsOf <- RestartIdsOf
    MaxAhead <- RestartMaxAhead
    MaxRestarts <- RestartMax
    Links <- RestartLinks
    MaxHeight = 5
    VHeightModulus = 8
INVARIANTS
    RestartSucceeds
    FewRestartsAreSafe
PROPERTIES
    RestartKeepsExecuted
