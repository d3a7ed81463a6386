SPECIFICATION Spec
CONSTANTS
    Word = 2
    Programs <- MCPrograms
    NormalExitCode = 7
    FaultExitCode = 9
    Driver = "direct"
    NumProcs = 3
    Quantum = 2
INVARIANTS
    RuntimeInv
    EndIsClassified
    NeverThrows
PROPERTIES
    SelectionApproaches
    ImplementsIsolation
    NoStarvation
