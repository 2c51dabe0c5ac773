SPECIFICATION Spec
CONSTANTS
    Nothing = Nothing
    Error = Error
    Tokens <- MCTokens
    Code <- MCCode
    Agents <- MCAgents
    Messages <- MCMessages
    Spare <- MCSpare
    Frames <- MCFrames
    MaxReport = 50
    MaxAgent = 2
    MaxMessage = 4
    MaxSeq = 10
    Numbers = {0, 7, 10}
    Edited <- MCEdited
    MaxEdits = 2
INVARIANTS
    RoundTrip
PROPERTIES
    ParseIsStrict
CHECK_DEADLOCK FALSE
