SPECIFICATION Spec
CONSTANTS
    Letters = {"h", "v"}
    BLANK = "sp"
    NUL = "nul"
    NONE = NONE
    Commands <- TwoCommands
    LineSize = 4
    NFILES = 4
    LeadingBlanks = FALSE
    MaxNewlines = 5
INVARIANTS
    QueueReachable
CHECK_DEADLOCK FALSE
