CONSTANTS
    Jobs = {"a", "b"}
    Acts = {"print", "show", "bad", "mark", "change", "startjob"}
    MaxSaveDepth = 2
    MaxOut = 2
    MaxShown = 2
SPECIFICATION FairSpec
INVARIANTS OneHolder OnlyPermanentStays NothingLost
PROPERTIES FinishedStays ComesBack
CHECK_DEADLOCK FALSE
