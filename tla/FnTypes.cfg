SPECIFICATION Spec
CONSTANTS
    ValueTypes = {i32, i64}
    MaxParams = 1
    MaxTypes = 3
    NFns = 2
INVARIANTS
    CheckExact
    Inductive
