CONSTANTS
    TypedLines <- MCLines
    Outputs = {}
    Scripts <- MCScripts
    Readers = {"cat"}
    max_history_size = 4
    BlockTokens = 3
    MaxLines = 1
SPECIFICATION Spec
CHECK_DEADLOCK FALSE
INVARIANT
    ScriptLinesOnce
