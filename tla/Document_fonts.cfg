CONSTANTS
    PageInputs <- MCPages
    MarkInputs <- MCMarks
    Outlined = {"Helvetica"}
    FallbackSize = 2
    MaxPages = 3
    MaxDelivered = 5
    Few = 3
    Many = 6
    StemsPerByte = 1
    MaxStack = 13
    MaxCallDepth = 4
    Slots = 2
    Notdef = ".notdef"
    MaxComponentDepth = 3
    MaxShown = 3
SPECIFICATION EmbeddingSpec
INVARIANTS
    EveryIdWrittenOnce
    MarksResolve
    SharedFontsMean
    FontsAccountedFor
    SubsetsDrawTheSame
PROPERTIES FirstFailureReported
CHECK_DEADLOCK FALSE
