CONSTANTS
    page_size = 4
    Layouts <- UnalignedLayouts
    Wild = {}
    zero_byte = zero
    MaxFaults = 7
SPECIFICATION Spec
CHECK_DEADLOCK FALSE
INVARIANT
    SegmentFaultResolved
