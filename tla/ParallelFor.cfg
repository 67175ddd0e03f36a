CONSTANTS
    Programs <- MCPrograms
    Row = {0, 1, 2, 3, 4, 5, 6, 7}
    Col = {0, 1}
    Worker = {0, 1, 2}
    garbage = garbage
    MaxFailures = 2
SPECIFICATION FairSpec
CHECK_DEADLOCK FALSE
INVARIANTS
    TypeOK
    AtMostOnce
    ReturnsComplete
    NoThreadOutlivesCall
PROPERTIES
    PhasesOrdered
    Terminates
