SPECIFICATION SafeSpec
CONSTANTS
    Task = {t1, t2}
    Main = main
    MaxCalls = 3
    IoMayFail = TRUE
SYMMETRY Symmetry
INVARIANTS
    TypeOK
    OnlyCurrentBatchRuns
    CancelMeansCancelled
PROPERTIES
    OnlyMessagesReopen
CHECK_DEADLOCK FALSE
