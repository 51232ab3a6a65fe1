SPECIFICATION Spec
CONSTANTS
    r1 = r1
    r2 = r2
    r3 = r3
    Replicas = {r1, r2}
    IdsOf <- PipelineIdsOf
    MaxAhead <- PipelineMaxAhead
    MaxHeight = 6
    VHeightModulus = 8
INVARIANTS
    OneVotePerHeight
    CertifiedByQuorum
    DecidedIsFinal
    DecidedOnDisk
    JustifyIsAncestor
    Agreement
    NoSafetyBreach
PROPERTIES
    RefinesLedger
