SPECIFICATION MCSpec
CONSTANTS
    Rule = {r1}
    Threshold = 3
    MaxBatch = 2
    MaxTries = 3
    Picture = {g}
    HistoryLimit = 5
    GapWindow = 5
    MinCut = 1
    Headroom = 1
    RecentBlocks = 3
    GuardBlocks = 1
    TokenBudget = 6
    MaxLog = 6
    MaxCalls = 2
INVARIANTS
    UsageCountedOnce
    MalformedCallsNeverRun
    StallsAreKnown
    EveryRetryIsJustified
    BatchesAreTurns
    PlaceholdersCanBeReloaded
PROPERTIES
    UnmetIsNeverCompleted
    TextDoesNotSkipTheGate
    LatestBatchIsWhole
CHECK_DEADLOCK FALSE
