SPECIFICATION MCSpec
CONSTANTS
    Inbound = {m1, m2}
    Outbound = {o1, o2}
    ProcessedLimit = 2
    BacklogSize = 1
    MaxConns = 2
    MaxRestarts = 1
    IoMayFail = TRUE
INVARIANTS
    OkIsStored
    SubmittedIsRemembered
    WaitingIsCarried
    BacklogIsCarried
PROPERTIES
    CallersAreAnswered
    PushedIsDispatched
CHECK_DEADLOCK FALSE
