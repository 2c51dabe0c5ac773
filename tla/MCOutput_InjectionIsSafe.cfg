SPECIFICATION Spec
CONSTANTS
    MaxString = 2
    Terminals = {FALSE}
    Continuations = {"cont"}
    RepeatedEsc = TRUE
    Modes = {"never", "prefix", "replace"}
    MaxQueued = 3
    MaxQueuedBytes = 4
    Sizes = {1, 2}
    Reports = 2
PROPERTIES
    InjectionIsSafe
