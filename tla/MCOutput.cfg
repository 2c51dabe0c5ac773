SPECIFICATION Spec
CONSTANTS
    MaxString = 2
    Terminals = {TRUE, FALSE}
    Continuations = {"cont"}
    RepeatedEsc = FALSE
    Modes = {"never", "prefix", "replace"}
    MaxQueued = 3
    MaxQueuedBytes = 4
    Sizes = {1, 2}
    Reports = 2
INVARIANTS
    OutputTypeOK
    TrackerFollows
    ParserFollows
    TitleShowsState
PROPERTIES
    InjectionIsSafe
    TitleIsKept
    ReportsArrive
