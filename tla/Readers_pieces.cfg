SPECIFICATION ReadersSpec
CHECK_DEADLOCK FALSE
CONSTANTS
    Kinds <- MCKinds
    Inputs <- MCInputs
    FlateBits = 4
    LzwBits = 2
    TextBits = 4
    RunBits = 2
    LengthBase <- MCLengthBase
    LengthExtra <- MCLengthExtra
    DistBase <- MCDistBase
    DistExtra <- MCDistExtra
    RepeatBase <- MCRepeatBase
    RepeatExtra <- MCRepeatExtra
    ClOrder <- MCClOrder
    FixedLengths <- MCFixedLengths
    FixedDistBits = 3
    FieldBits <- MCFieldBits
    Window = 4
    MaxBlock = 16
    MaxMatch = 7
    ChainLimit = 3
    GoodEnough = 5
    Hashes = 3
    MaxCodeBits = 4
    MaxClBits = 3
    AdlerMod = 251
    ZlibHeader <- MCZlibHeader
    Headers <- MCHeaders
    MinWidth = 3
    MaxWidth = 4
    HexLine = 3
    Base85Line = 4
    GroupBytes = 2
    GroupDigits = 3
    Base = 7
    Key = 55
    C1 = 45
    C2 = 119
    MaxUsed = 5
    MaxProcDepth = 2
    MaxStringLen = 3
    MaxNameLen = 2
    MaxInt = 2
    MaxDigits = 3
    Pieces = {1, 4}
    AsciiBase = 85
    AsciiDigits = 3
    AsciiBytes = 2
INVARIANTS RoundTrip ChoicesKept TokensAsWritten
