SPECIFICATION Spec
CONSTANTS
    Ops = {"plain", "exec", "proc", "source", "loop", "stopped", "stop", "exit", "quit", "fail", "default", "report", "read", "cell", "form", "filter", "mode", "dict", "eexec", "cmap"}
    ExecLimit = 3
    MaxNested = 2
    Budgeted = FALSE
    StepLimit = 0
    Grace = 0
    Prelude = FALSE
    ProcLen = 1
    MaxFrames = 4
    MaxDicts = 1
    MaxFeeds = 1
    MaxRuns = 1
INVARIANTS
    LimitsHold
    NothingLeftOpen
PROPERTY SectionsLeaveNothing
CHECK_DEADLOCK FALSE
