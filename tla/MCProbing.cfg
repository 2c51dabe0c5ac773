SPECIFICATION PSpec
CONSTANTS
    Processes = {p1, p2}
    NoProcess = NoProcess
    MissLimit = 3
    Groups = {g1, g2}
    NoGroup = NoGroup
    HoldCadence = 1
    IdentifiedCadence = 2
    FastCadence = 2
    SlowCadence = 3
    IdleCadence = 2
    FastPhase = 2
    FullEvery = 3
    Window = 4
    NoGroupLimit = 5
INVARIANTS
    ExitsBounded
PROPERTIES
    LossTakesTime
    AgentIsFound
    AbsentIsLost
