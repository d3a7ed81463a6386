SPECIFICATION SessionSpec
CONSTANTS
    Word = 2
    Programs <- MCPrograms
    NormalExitCode = 7
    FaultExitCode = 9
    Driver = "runner"
    NumProcs = 2
    Quantum = 2
    Places <- MCPlaces
    CondValues = {}
    WatchModes = {}
    Mapped = {1, 2}
    MaxPoints = 2
    MaxLimit = 2
    Executables = {}
    SymbolFiles = {}
    MemorySize = 3
    Radix = 2
    Conditions = {}
    Watches = {}
    MaxId = 3
PROPERTIES
    StartIgnoredOnce
