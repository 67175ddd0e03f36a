CONSTANTS
    MAX_PROCESSES = 2
    Process = {p1, p2, p3}
    blank_process = blank
    Scheduler = {g1}
    ncpu = 1
    no_one = no_one
    MaxSessions = 1
SPECIFICATION FairSpec
CHECK_DEADLOCK FALSE
PROPERTY
    ContinuedJobRuns
