SPECIFICATION Spec
CONSTANTS
    Base = 64
    MaxReplicas = 5
    MaxMsgLen = 62
    SndBuf = 20
    XidMod = 4
    Conns = {1, 2}
    Config <- TheConfig
    Scenarios <- AllScenarios
INVARIANTS
    CallsArriveInOrder
    AnswersAreResults
    CertificatesSurvive
PROPERTIES
    CallsAreServed
CHECK_DEADLOCK FALSE
