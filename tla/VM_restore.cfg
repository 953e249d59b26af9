SPECIFICATION VMSpec
CONSTANTS
    Cells = {c1}
    MaxHandle = 2
    MaxFiles = 3
    MaxSaveDepth = 2
    MaxSerial = 2
    MaxHeld = 3
    MaxStored = 1
CONSTRAINTS
    FewHeld
    FewStored
    OneKindMade
INVARIANTS
    NoDangling
    GlobalRule
    SnapshotsClosed
PROPERTIES
    NoResurrection
    LevelFilesClosed
CHECK_DEADLOCK FALSE
