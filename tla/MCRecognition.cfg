SPECIFICATION Spec
CONSTANTS
    Nothing = Nothing
    NoSets = NoSets
    Basename <- MCBasename
    Canonical <- MCCanonical
    AgentIds = {"claude", "codex"}
    Lower <- Lowercase
    BadPatterns <- MCBadPatterns
    IdOrder <- MCIdOrder
    MaxRules = 7
    MaxDepth = 2
    MaxDirect = 3
    MaxGates = 12
    MaxMatchers = 10
    MaxFiles = 3
    Files <- MCFiles
    Bundles <- MCBundles
    Jobs <- MCJobs
    WatchedJob <- MCWatchedJob
    Lines <- MCLines
    Titles <- MCTitles
    Rows = 3
    MaxWrites = 2
INVARIANTS
    AgentIsBestMatch
    FirstBestRuleWins
    RegionsTile
    WindowIsTail
