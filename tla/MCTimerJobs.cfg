CONSTANTS
    Job = {j1, j2}
    RunLimits = {0, 2}
    Limit = 2
    MaxFailures = 2
    MaxCrashes = 1
SPECIFICATION Spec
INVARIANTS
    TicksAreRecorded
    AtMostOneLateTick
PROPERTIES
    DueJobsRun
