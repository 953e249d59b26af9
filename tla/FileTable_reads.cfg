CONSTANTS
    Bytes = {"d", "e", ">"}
    Kinds = {"string", "procedure", "reusable", "hex", "cipher", "close", "planes"}
    Behind = FALSE
    Contents = 2
    MaxFiles = 3
    MaxFed = 4
    MaxWaiting = 1
    MaxJobs = 2
SPECIFICATION Spec
CONSTRAINT Small
INVARIANT NothingMisread
PROPERTIES
    ReadsUndone
    RestContinues
CHECK_DEADLOCK FALSE
