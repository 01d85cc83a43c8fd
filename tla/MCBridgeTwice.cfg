SPECIFICATION Spec
CONSTANTS
    Inbound = {}
    Outbound = {o1}
    ProcessedLimit = 1
    BacklogSize = 1
    MaxConns = 1
    MaxRestarts = 0
    IoMayFail = FALSE
INVARIANT DispatchedOnce
CHECK_DEADLOCK FALSE
