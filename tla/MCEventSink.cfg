SPECIFICATION Spec
CONSTANTS
    RecordSize = 3
    RetryDelay = 1
    DropMax = 2
    Newest = 3
    Asides = 2
    NoRecord = NoRecord
    NoLine = NoLine
    Garbled = Garbled
INVARIANTS
    SinkTypeOK
    InStep
PROPERTIES
    ImplementsLossyFeed
