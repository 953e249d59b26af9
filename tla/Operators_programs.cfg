SPECIFICATION Spec
CHECK_DEADLOCK FALSE
CONSTANTS
    Programs <- MCPrograms
    OperandLimit = 5
    DictLimit = 2
    LoopLimit = 2
    MaxInt = 7
    MaxCompositeLen = 3
    MaxSlots = 6
INVARIANTS StorageAgrees LoopsTakeAll
PROPERTIES AllOrNothing AccessTightens
