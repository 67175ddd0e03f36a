CONSTANTS
    Lines <- MCLines
    MAX_BACKGROUND_PROCESSES = 1
    MAX_HISTORY_SIZE = 2
    MaxForks = 4
    MaxJobs = 1
SPECIFICATION FairSpec
CHECK_DEADLOCK FALSE
INVARIANTS
    TypeOK
    PromptAfterForeground
    PipesClosed
    InputComplete
    JobsListed
PROPERTIES
    ForegroundReturns
    WaitsReturn
    SchedReturns
