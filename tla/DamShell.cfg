CONSTANTS
    TypedLines <- MCLines
    Outputs <- MCOutputs
    Scripts <- MCScripts
    Readers = {"cat"}
    max_history_size = 6
    BlockTokens = 3
    MaxLines = 5
SPECIFICATION FairSpec
CHECK_DEADLOCK FALSE
INVARIANTS
    TypeOK
    HandlerFindsStored
    StageReadsPrevious
PROPERTIES
    NothingSkipped
    StageReturns
    TerminalRegained
