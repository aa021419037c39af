SPECIFICATION Spec
CONSTANTS
    KeepRecentTurns = 1
    WindowTurns = 1
    AutoCompact = TRUE
    Attachments = TRUE
    BareReasoning = TRUE
    Checks = TRUE
    MaxCalls = 2
    MaxLog = 8
    MaxLives = 2
INVARIANTS
    ReplayFaithful
    SentIsWhole
PROPERTIES
    ResumeRestoresView
    CompactionKeeps
