SPECIFICATION RecoverySpec
CONSTANTS
    r1 = r1
    r2 = r2
    r3 = r3
    Replicas = {r1, r2, r3}
    IdsOf <- SplitIdsOf
    MaxAhead <- SplitMaxAhead
    MaxRestarts <- SplitMax
    Links <- SplitLinks
    MaxHeight = 5
    VHeightModulus = 8
INVARIANTS
    NoSafetyBreach
