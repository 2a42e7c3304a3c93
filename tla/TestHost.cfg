SPECIFICATION Spec
CONSTANTS
    Commands <- ScriptCommands
    MaxCommands = 3
INVARIANTS
    NeverUnderflows
    InStep
    ComparesWhatIsWritten
    NoCheckSkipped
    RunsCurrentModule
