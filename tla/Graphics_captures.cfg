SPECIFICATION Spec
CONSTANTS
    Programs <- MCPrograms
    ColorSpaces = {"gray", "rgb"}
    Patterns = {"p"}
    Forms = {"f"}
    Glyphs = {"g"}
    Ctms = {"default", "turned"}
    MaxClips = 2
    MaxDepth = 2
    MaxCaptures = 2
INVARIANTS
    PaintsAsMeant
    ContentsClosed
    StacksAgree
CHECK_DEADLOCK FALSE
