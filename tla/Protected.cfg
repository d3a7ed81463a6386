SPECIFICATION MCSpec
CONSTANTS
    UserSlots = 1
    KernelSlots = 9
    UserCode = 2
    CodeLen = 3
    Handlers = {3}
    Data = {1}
    Targets = {1}
    MaxPending = 1
    MaxSteps = 7
    FlagWords = {5}
    Disciplined = TRUE
    Names = {"bin", "www", "data", "f"}
    Bytes <- MCBytes
    MaxBytes = 3
    Window = 8
    Aligned = {0, 5}
    PathTable <- MCPathTable
    HostPaths <- MCHostPaths
    HostData <- MCHostData
    Images <- MCImages
    Arguments <- MCArguments
    Registers = {0}
INVARIANTS
    StacksConfined
    KernelStackReleased
    SuspendedIntact
    FilesystemIsTree
    ListingsFindEverything
PROPERTIES
    IretResumes
    HostServiceReturns
    GuestWritesInRange
    FailureChangesNoData
