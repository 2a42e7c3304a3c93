SPECIFICATION Spec
CONSTANTS
    P4G = 5
    Initial = 1
    HasMax = TRUE
    Maximum = 3
    Data <- OneSegment
    Word = {0, 1, 2}
    Deltas = {0, 1, 2, 5}
    Offsets = {0, 1}
    InBounds = TRUE
    HostCatches = {}
INVARIANTS
    FreshZero
    Inductive
PROPERTIES
    ImplementsWasmMemory
