SPECIFICATION Spec
CONSTANTS
    Task = {t1, t2}
    Main = main
    MaxCalls = 2
    IoMayFail = FALSE
INVARIANTS
    MessagesAreSeen
CHECK_DEADLOCK FALSE
