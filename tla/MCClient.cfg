CONSTANTS
    MaxFrames = 6
    MaxNotes = 1
    MaxAttempts = 2
    MaxReprices = 1
    MaxLeaves = 1
    MaxTries = 2
    MinSize = 2
    RejectionSlack = 0
    Tests <- TestsDef
    Sites = {"s1", "s2"}
    Names = {"x", "y"}
    MaxCases = 3
    Configurations <- ConfigurationsDef
    Threads = {t1, t2}
    Pools = {p1, p2}
    RecordedPrefixes <- SomePrefixes
    MaxDraws = 4
SPECIFICATION MCSpec
SYMMETRY RaceSymmetry
INVARIANT UnwindsClean
INVARIANT ReportIsFaithful
INVARIANT FailuresTold
INVARIANT IdentifiersStable
INVARIANT PoolsInLockstep
CHECK_DEADLOCK FALSE
