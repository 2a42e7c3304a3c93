SPECIFICATION FairSpec
CONSTANTS
    NFns = 5
    NImports = 1
    Body <- BadBody
    FnType <- BadTypes
    Table <- BadTable
    Exports = {0, 1, 2, 4}
    PlaneSize = 13
    MaxDepth = 3
    HostCatches = {"trap", "exception"}
PROPERTIES
    SlotStable
    CompileEnds
