SPECIFICATION Spec
CONSTANTS
    Sub = {s1}
    Root = root
    Request <- MCRequest
    BaseRules <- MCDenyRules
    Confined = TRUE
    MayClose = TRUE
    MaxCalls = 2
    MaxAsks = 1
    MaxInputs = 1
    MaxCancels = 1
    MaxModes = 1
INVARIANTS
    TypeOK
    EffectsAuthorized
    SeamHolds
PROPERTIES
    ImplementsAuthority
CHECK_DEADLOCK FALSE
