CONSTANTS
    mixed = mixed
    alone = alone
    r1 = r1
    r2 = r2
    r3 = r3
    Groups = {mixed, alone}
    GroupRules <- MCGroupRules
    Levels = {1, 2}
    StepCount = 2
    AttemptMultiplier = 2
    MinAttempts = 5
    MaxRoundRules = 1
    NoGroup = NoGroup
    NoRule = NoRule
SPECIFICATION Spec
INVARIANT SomeRuleEnabled
INVARIANT CutShortIsNoVerdict
PROPERTY ImplementsRounds
PROPERTY CaseEnds
CHECK_DEADLOCK FALSE
