SPECIFICATION Spec
CONSTANTS
    Threads = {t1, t2}
    Modes <- SomeModes
    MaxStreams = 3
    MAX_DEPTH = 1
    MaxOpenSpans = 2
    USIZE_MAX = 99
CHECK_DEADLOCK FALSE
INVARIANT ResumedIsConcluded
