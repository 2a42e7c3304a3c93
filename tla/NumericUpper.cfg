SPECIFICATION Spec
CONSTANTS
    W = 8
    G = 3
    F32 <- Single
    F64 <- Double
    Samples <- Few
    Words <- NoWords
    Lanes = {0}
    Globals <- OneGlobal
    Lengths <- SoundLengths
    Reinterprets <- IntOfFloat
    MaxOperands = 2
    MaxLen = 5
INVARIANTS
    UpperZero
