SPECIFICATION Spec
CONSTANTS
    NFns = 7
    NImports = 1
    Body <- RunBody
    FnType <- RunTypes
    Table <- RunTable
    Exports = {1, 3, 4}
    PlaneSize = 24
    MaxDepth = 3
    HostCatches = {"trap"}
INVARIANTS
    TypeOK
    NoWildJump
    NoFault
    SealedWhileRunning
    CodeIntact
    EcxNamesImport
    Inductive
PROPERTIES
    ImplementsWasmCalls
