SPECIFICATION FairSpec
CONSTANTS
    Ops = {"exec", "proc", "loop", "stopped", "stop", "default", "read"}
    ExecLimit = 3
    MaxNested = 2
    Budgeted = TRUE
    StepLimit = 2
    Grace = 2
    Prelude = TRUE
    ProcLen = 1
    MaxFrames = 4
    MaxDicts = 0
    MaxFeeds = 1
    MaxRuns = 3
PROPERTY BudgetEnds
CHECK_DEADLOCK FALSE
