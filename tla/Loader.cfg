SPECIFICATION Spec
CONSTANTS
    U32 = 8
    PageSize = 2
    Numbers = {0, 1, 2, 4}
    Segments <- SegmentSamples
    Layouts <- LayoutSets
INVARIANTS
    Inductive
    EntriesTyped
    IndexSpace
    DataKept
    ValidLoads
    RefusesWithException
