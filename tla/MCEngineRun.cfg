SPECIFICATION Spec
CONSTANTS
    N = 2
    Origins = {A, B}
    MaxTestCases = 2
    SettingsSet <- SomeSettings
    DUPLICATE_STOP = 2
    SPAN_MUTATION_ATTEMPTS = 1
    FILTER_TOO_MUCH_THRESHOLD = 2
    HEALTH_CHECK_MAX_VALID = 1
    MAX_OVERRUN_DRAWS = 2
    MIN_TEST_CALLS = 2
    POST_BUG_EXTRA_CALLS = 2
    InvalidBase = 2
    InvalidPerValid = 1
    MaxProbes = 1
    MaxCalls = 12
INVARIANT FailureBeatsHealthCheck
INVARIANT ReportIsSound
INVARIANT BudgetsKept
PROPERTY RunEnds
