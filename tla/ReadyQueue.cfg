CONSTANTS
    MAX_PROCESSES = 3
    Process = {p1, p2, p3}
    blank_process = blank
SPECIFICATION Spec
INVARIANT TypeOK
PROPERTY ImplementsFifo
