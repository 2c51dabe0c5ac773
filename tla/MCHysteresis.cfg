SPECIFICATION HSpec
CONSTANTS
    Agents = {a1, a2}
    NoAgent = NoAgent
    NoHold = NoHold
    FlagSets <- MCFlagSets
    Confirmation = 1
    HoldCap = 3
    Grace = 2
    Heartbeat = 2
    Confirmations = 3
    SeqMax = 3
INVARIANTS
    TypeOK
    HoldIsJustified
PROPERTIES
    PlainIdleIsHeld
    GraceSilencesIdle
    NoIdlePublication
    HeartbeatsArePaced
    IdleSettles
    ImplementsFeed
