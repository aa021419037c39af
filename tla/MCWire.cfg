SPECIFICATION WireSpec
CONSTANTS
    Callers = {"root", "sub"}
    PipeRoom = 6
    ServerAsks = FALSE
    MaxFrameBytes = 3
    MaxBytes = 7
    MaxChunk = 5
    MaxAttempts = 2
    MaxCalls = 3
    ToolCalls = 2
    MaxSaid = 1
    MaxFragments = 2
    MaxThoughts = 2
    MaxBlocks = 3
    MaxMessages = 4
    OutputLimits = {2047, 8192}
INVARIANTS
    FramesAreWhole
    AnswerIsWhole
    AnswersMatch
    RequestsAreAccepted
PROPERTIES
    TurnEnds
    CallsReturn
CHECK_DEADLOCK FALSE
