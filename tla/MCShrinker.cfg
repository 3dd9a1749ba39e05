SPECIFICATION MCSpec
CONSTANTS
    Draw <- MCDraw
    Spans <- MCSpans
    Interesting <- MCInteresting
    Simpler <- MCSimpler
    MaxShrinks = 30
    UsizeMax = 64
    MaxDelete = 8
    MaxProgram = 5
    MaxFailures = 2
    Starts <- MCStarts
    Lucks <- MCLucks
    Plenty = 300
    Requests <- MCRequests
    IMin <- MCIMin
    IMax = 31
    CuratedMinWidth = 4
    SampleBits = 3
    UniformBits = 1
    CuratedIntegers <- MCCurated
    LargeIntegers <- MCLarge
    CuratedStrings <- MCStrings
    MaxSubAlphabet = 2
    AsciiSize = 2
    ByteSize = 16
    CountBytes = 2
    FloatBytes = 2
    MantissaBits = 3
    ExponentBits = 4
    SimpleBits = 5
    MaxCloneDepth = 2
    MaxFlat = 3
INVARIANT TargetsAreRuns
INVARIANT QuietIsFixed
INVARIANT EndsByItself
INVARIANT ChoiceIsSound
INVARIANT RecordsRoundTrip
INVARIANT OrderIsSound
CHECK_DEADLOCK FALSE
