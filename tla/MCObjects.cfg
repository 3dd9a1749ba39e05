CONSTANTS
    Callers = {t1, t2}
    Ids = {h1, h2}
    Families = {f1}
    Widths = {w1, w2}
    MaxRegions = 1
    Null = Null
    Written <- SomeCommands
    MaxCommands = 3
    MaxHoles = 2
    MaxStream = 4
    Width = 3
    MaxDebugDepth = 2
    Chars <- MCChars
    SwappedCase <- MCSwap
    WordChars = {"a", "b", "i", "I", "dI"}
    SpaceChars = {"sp", "nl"}
    DigitChars = {}
    AsciiChars = {"a", "b", "i", "I", "sp", "nl"}
    Newline = "nl"
    Rank <- MCRank
    Letters = {"n"}
    DigitOf <- MCDigitOf
    EscapedChar <- MCEscapedChar
    CategoryOf <- MCCategoryOf
    PositionOf <- MCPositionOf
    GroupDigit <- MCGroupDigit
    MaxNesting = 8
    Draws <- MCDraws
    Printable = {"a", "I", "sp"}
    MaxPad = 1
    MaxRounds = 2
    MaxAttempts = 2
    MantissaBits = 3
    ExponentBits = 4
    SimpleBits = 5
    Unset = Unset
    BoundsAsked <- MCBounds
    SecondNanos = 3
    MinuteSeconds = 2
    HourMinutes = 2
    DayHours = 2
    MinDay <- FirstDay
    MaxDay <- LastDay
SPECIFICATION MCSpec
SYMMETRY ObjectSymmetry
INVARIANT HandlesSound
PROPERTY FixedForGood
INVARIANT HolesSound
INVARIANT RegionsCommute
INVARIANT LaidOutAsWritten
INVARIANT DrawnMatches
INVARIANT FloatsOrdered
INVARIANT BoundsKept
CHECK_DEADLOCK FALSE
