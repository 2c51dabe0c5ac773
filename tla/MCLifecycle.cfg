SPECIFICATION Spec
CONSTANTS
    QueueDepth = 1
    Chunks = 2
    Arrivals = 2
CHECK_DEADLOCK FALSE
INVARIANTS
    OutputIsComplete
    StoppedIsCooked
PROPERTIES
    ReapedIsLeftAlone
    TerminationIsForwarded
    WrapperEnds
