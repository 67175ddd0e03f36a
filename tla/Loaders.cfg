CONSTANTS
    page_size = 4
    Layouts <- MCLayouts
    Wild = {0, 60}
    zero_byte = zero
    MaxFaults = 7
SPECIFICATION LoadersSpec
CHECK_DEADLOCK FALSE
INVARIANTS
    TypeOK
    MemoryImage
    FaultResolved
    CountersAgree
    FlagInBounds
    FragmentationCounted
    EntryFound
    EagerImage
    SameSegment
