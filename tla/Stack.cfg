SPECIFICATION Spec
CONSTANTS
    Families <- SoundFamilies
INVARIANTS
    Represents
    ReturnsRight
    AllPatched
