SPECIFICATION MCSpec
CONSTANTS
    Task = {t1, t2}
    Main = main
    MaxCalls = 3
    IoMayFail = FALSE
    DelTask = {d1}
    MaxSegments = 2
INVARIANTS
    CurrentBatchIsCared
    OrphansAreKnown
PROPERTIES
    FinishedBatchIsAnnounced
    StartedTasksRun
CHECK_DEADLOCK FALSE
