SPECIFICATION Spec
CONSTANTS
    MaxString = 2
    Terminals = {FALSE}
    Continuations = {"cont", "9B", "9C", "9D", "90"}
    RepeatedEsc = FALSE
    Modes = {"never", "prefix", "replace"}
    MaxQueued = 3
    MaxQueuedBytes = 4
    Sizes = {1, 2}
    Reports = 2
PROPERTIES
    ReportsArrive
