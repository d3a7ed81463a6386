SPECIFICATION SessionSpec
CONSTANTS
    Word = 2
    Programs <- MCPrograms
    NormalExitCode = 7
    FaultExitCode = 9
    Driver = "runner"
    NumProcs = 2
    Quantum = 2
    Places <- MCPlaces
    CondValues = {1}
    WatchModes = {"Write", "Access"}
    Mapped = {1, 2}
    MaxPoints = 2
    MaxLimit = 2
    Executables <- MCExecutables
    SymbolFiles <- MCSymbolFiles
    MemorySize = 3
    Radix = 2
    Conditions <- MCConditions
    Watches <- MCWatches
    MaxId = 3
PROPERTIES
    BreakpointsHonoured
    ResumeProgresses
    WatchpointsHonoured
    SourceStepsMove
    CommandsReturn
