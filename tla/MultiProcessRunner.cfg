SPECIFICATION RunnerSpec
CONSTANTS
    Word = 2
    Programs <- MCPrograms
    NormalExitCode = 7
    FaultExitCode = 9
    Driver = "runner"
    NumProcs = 3
    Quantum = 2
    MaxSteps = 14
INVARIANTS
    VerifierAccepts
    TraceMatchesMachines
    NoInheritedTimerRequest
    PreemptionsArePaid
