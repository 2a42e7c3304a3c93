SPECIFICATION Spec
CONSTANTS
    W = 8
    G = 3
    F32 <- Single
    F64 <- Double
    Samples <- SampleValues
    Words <- InMemory
    Lanes = {0, 129}
    Globals <- GlobalVariables
    Lengths <- SoundLengths
    Reinterprets <- SafeReinterprets
    MaxOperands = 2
    MaxLen = 4
INVARIANTS
    Computes
    UpperZero
    DivisionStops
