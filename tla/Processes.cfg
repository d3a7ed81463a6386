SPECIFICATION ProcessesSpec
CONSTANTS
    MaxPid = 3
    Contexts <- MCContexts
    Memories <- MCMemories
    Codes = {"a", "b"}
    NoExecutable = "none"
    ExitCodes = {0}
    kUserStackBase = 10
    kUserStackEnd = 14
    kKernelStackBase = 14
    kKernelStackEnd = 18
    kStackSlotSize = 2
    kDefaultMemorySize = 18
    Radix = 4
    Nothing = Nothing
    kMagic <- MCMagic
    kInstructionSize = 2
    BinaryPrograms <- MCPrograms
    kBinaryCodeBase = 4
INVARIANTS
    FilesFaithful
    ImagesStart
    TableConsistent
PROPERTIES
    EndIsFinal
CHECK_DEADLOCK FALSE
