CONSTANTS
    Lines <- MCLines
    MAX_BACKGROUND_PROCESSES = 1
    MAX_HISTORY_SIZE = 4
    MaxForks = 5
    MaxJobs = 1
SPECIFICATION Spec
CHECK_DEADLOCK FALSE
INVARIANT
    FlagMeansAmpersand
