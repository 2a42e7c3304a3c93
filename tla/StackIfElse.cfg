SPECIFICATION Spec
CONSTANTS
    Families <- IfElseFamilies
INVARIANTS
    Balanced
