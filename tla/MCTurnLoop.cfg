SPECIFICATION FairSpec
CONSTANTS
    Sig = {a, b}
    Result = {r1}
    File = {}
    GuardrailOn = TRUE
    RepeatWindow = 2
    MaxNoProgress = 3
    ChecksRegistered = TRUE
    MaxAttempts = 2
    MaxGateAttempts = 2
    MaxCommands = 2
    MaxEvents = 1
INVARIANTS
    NeverSpinsOn
    HaltReachesUser
PROPERTIES
    
    UserKeepsControl
