SPECIFICATION Spec
CONSTANTS
    Width = 2
    MaxKey = 3
    Vals = {a, b}
    Null = Null
    MaxSaves = 2
SYMMETRY Renamings
INVARIANTS
    WellFormed
PROPERTIES
    ImplementsSnapshots
CHECK_DEADLOCK FALSE
