CONSTANTS
    Bits = 14
    Half = 8192
    Mantissa = 11
    Radix = 128
    WordBytes = 2
    Programs <- MCPrograms
    CodeBase = 8
    StackBase = 80
    KBase = 84
    MemEnd = 96
    DebugBase = 100
    Vectors = {7}
    MaxSteps = 6
SPECIFICATION MCSpec
INVARIANT
    OverflowAlwaysDetected
CHECK_DEADLOCK FALSE
