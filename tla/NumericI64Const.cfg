SPECIFICATION Spec
CONSTANTS
    W = 8
    G = 3
    F32 <- Single
    F64 <- Double
    Samples <- SampleValues
    Words <- NoWords
    Lanes = {0}
    Globals <- OneGlobal
    Lengths <- FourBytes
    Reinterprets <- SafeReinterprets
    MaxOperands = 2
    MaxLen = 1
INVARIANTS
    Computes
