SPECIFICATION Spec
CONSTANTS
    a1 = a1
    a2 = a2
    a3 = a3
    Agents <- MCAgents
    Ruled <- MCRuled
    NoAgent = NoAgent
    NoHold = NoHold
    NoProcess = NoProcess
    Processes <- MCProcesses
    FlagSets <- MCFlagSets
    Confirmation = 1
    HoldCap = 2
    Grace = 1
    Heartbeat = 1
    Confirmations = 2
    SeqMax = 1
    MissLimit = 3
INVARIANTS
    OneAgent
    ConsumerInStep
PROPERTIES
    HoldResolves
    GoneIsLost
