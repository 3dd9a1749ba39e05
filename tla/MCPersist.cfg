SPECIFICATION Spec
CONSTANTS
    Engine = engine
    Users = {engine}
    Primary = primary
    Secondary = secondary
    Keys = {primary, secondary}
    Metakeys = metakeys
    NoTmp = no_tmp
    Torn = torn
    Cases = {1, 2, 3}
    Entries <- AllEntries
    ByteRank <- Ranks
    A = A
    B = B
    Origins = {A, B}
    Valid = valid
    Overrun = overrun
    Concurrent = concurrent
    Versions <- SomeVersions
    Settings <- SomeSettings
    DesiredSize = 2
    Cap = 1
    MaxRuns = 3
    MaxExecutions = 2
    MaxKills = 1
INVARIANT BestIsDurable
INVARIANT FoundAgain
INVARIANT CorpusExact
CHECK_DEADLOCK FALSE
