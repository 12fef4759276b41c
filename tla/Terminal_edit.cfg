SPECIFICATION Spec
CONSTANTS
    Letters = {"h", "v"}
    BLANK = "sp"
    NUL = "nul"
    NONE = NONE
    Commands <- TwoCommands
    LineSize = 4
    NFILES = 3
    LeadingBlanks = FALSE
    MaxNewlines = 2
INVARIANTS
    TypeOK
PROPERTIES
    IsLineEditor
CHECK_DEADLOCK FALSE
