SPECIFICATION Spec
CONSTANTS
    a1 = a1
    a2 = a2
    Agents <- MCAgents
    NoAgent = NoAgent
    NoHold = NoHold
    NoProcess = NoProcess
    Processes <- MCProcesses
    FlagSets <- MCFlagSets
    Confirmation = 1
    HoldCap = 2
    Grace = 1
    Heartbeat = 1
    Confirmations = 2
    SeqMax = 2
    MissLimit = 2
    Startup = 1
INVARIANTS
    ObserverInStep
PROPERTIES
    ConsumerLearnsAgent
    PaneEndsObserver
CHECK_DEADLOCK FALSE
