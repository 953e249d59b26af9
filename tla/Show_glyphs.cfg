CONSTANTS
    Uses = {"gsave", "grestore", "move", "newpath", "scale", "font", "declare", "stopped", "stop", "exit"}
    Variants = {"show", "kshow", "xshow", "stringwidth", "charpath"}
    Width = 1
    Widths = {1, 2}
    Places = {1}
    MaxText = 2
    MaxShows = 2
    MaxOps = 4
SPECIFICATION Spec
INVARIANTS CapturesAreRunning ShowsDeliver
CHECK_DEADLOCK FALSE
