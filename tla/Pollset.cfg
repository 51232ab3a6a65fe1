SPECIFICATION Spec
CONSTANTS
    Usages <- MCUsages
    SelfPipe = 0
CHECK_DEADLOCK FALSE
INVARIANT
    TableIsConsistent
PROPERTIES
    InjectedCallbacksRun
    SignalsAreHandled
    TimeoutsRun
