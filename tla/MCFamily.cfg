SPECIFICATION FairSpec
CONSTANTS
    Threads = {t1, t2}
    Modes <- SomeModes
    MaxStreams = 3
    MAX_DEPTH = 1
    MaxOpenSpans = 2
    USIZE_MAX = 99
INVARIANT RecordIsExact
INVARIANT ConcludedOnce
PROPERTY CompletedIsReadBack
CHECK_DEADLOCK FALSE
