SPECIFICATION Spec
CONSTANTS
    Contents = {a, b}
    Graphics = TRUE
    Breakable = TRUE
    PreludeSaves = 0
    MaxSaveDepth = 3
    MaxDepth = 2
    MaxSerial = 3
    MaxBroken = 1
    a = a
    b = b
CONSTRAINT FewBroken
SYMMETRY ContentSymmetry
INVARIANT Consistent
PROPERTIES
    JobsRevert
    AlignmentKept
CHECK_DEADLOCK FALSE
