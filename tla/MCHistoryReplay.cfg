SPECIFICATION Spec
CONSTANTS
    KeepRecentTurns = 1
    WindowTurns = 1
    AutoCompact = FALSE
    Attachments = TRUE
    BareReasoning = FALSE
    Checks = FALSE
    MaxCalls = 2
    MaxLog = 10
    MaxLives = 2
INVARIANTS
    ReplayAlwaysCorrect
