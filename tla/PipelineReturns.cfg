CONSTANTS
    Lines <- FloodLines
    MAX_BACKGROUND_PROCESSES = 1
    MAX_HISTORY_SIZE = 4
    MaxForks = 5
    MaxJobs = 1
SPECIFICATION FairSpec
CHECK_DEADLOCK FALSE
PROPERTY
    PipelineReturns
