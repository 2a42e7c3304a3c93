SPECIFICATION Spec
CONSTANTS
    P4G = 4
    Initial = 1
    HasMax = FALSE
    Maximum = 0
    Data <- OneSegment
    Word = {0, 1, 2}
    Deltas = {0, 1, 2, 5}
    Offsets = {0, 1}
    InBounds = FALSE
    HostCatches = {"trap", "exception"}
INVARIANTS
    SizeInRange
PROPERTIES
    NeverShrinks
