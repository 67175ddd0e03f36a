CONSTANTS
    MAX_PROCESSES = 2
    Process = {p1, p2, p3}
    blank_process = blank
    Scheduler = {g1, g2}
    ncpu = 1
    no_one = no_one
    MaxSessions = 2
SPECIFICATION FairSpec
CHECK_DEADLOCK FALSE
INVARIANTS
    TypeOK
    MutualExclusion
    SemaphoreAccounting
    BatchPerSched
    SubmissionOrder
    DroppedOnlyWhenFull
PROPERTIES
    BatchCompletes
    FirstJobContinued
