SPECIFICATION MCSpec
CONSTANTS
    Kinds = {"single", "multi"}
    Modes = {"binary"}
    Producers = {"cli", "studio"}
    Events <- MCEvents
    MaxRecords = 2
    Sessions <- MCSessions
    MemorySize <- MCSizes
    Lines <- MCLines
    Options <- MCOptions
    MaxItems = 2
    Offsets <- MCOffsets
    Values = {1, 256}
    Sensed = {0}
    MaxRequests = 4
INVARIANTS
    TracesCompared
    TraceDamageNoticed
    SnapshotsReadable
PROPERTIES
    AnswersMatch
    WritesConfirmed
    TrafficInOrder
    TransactionsEnd
