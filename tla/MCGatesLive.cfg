SPECIFICATION FairSpec
CONSTANTS
    Sub = {}
    Root = root
    Request <- MCRequest
    BaseRules <- MCBaseRules
    Confined = TRUE
    MayClose = FALSE
    MaxCalls = 2
    MaxAsks = 2
    MaxInputs = 2
    MaxCancels = 1
    MaxModes = 0
PROPERTIES
    AsksReachUser
CHECK_DEADLOCK FALSE
