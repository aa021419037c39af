SPECIFICATION FrontendsSpec
CONSTANTS
    MaxLines = 3
    MaxBatches = 2
    Capacity = 2
    MaxInputs = 3
    MaxPrompts = 2
    MaxRequests = 1
    MaxSwitches = 1
    MaxActs = 4
    MaxOverlays = 1
    Typed <- MCTyped
    Pastes <- MCPastes
    MaxLength = 4
    MaxSent = 2
    MaxHistory = 2
INVARIANTS
    LineFollowsEngine
    AnswersMeetTheirRequest
    PromptReachesUser
    SettledViewAgrees
PROPERTIES
    LeavingEnds
    MotionsKeepText
CHECK_DEADLOCK FALSE
