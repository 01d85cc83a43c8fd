SPECIFICATION ReqSpec
CONSTANTS
    Request = {r1, r2}
    MaxChunks = 2
    MaxLosses = 1
INVARIANTS
    TransfersAreWhole
PROPERTIES
    AnsweredOrLost
CHECK_DEADLOCK FALSE
