SPECIFICATION Spec
CONSTANTS
    Sub = {s1}
    Root = root
    Request <- MCOneRequest
    BaseRules <- MCBaseRules
    Confined = TRUE
    MayClose = FALSE
    MaxCalls = 2
    MaxAsks = 1
    MaxInputs = 1
    MaxCancels = 0
    MaxModes = 0
PROPERTIES
    PromptsQueue
CHECK_DEADLOCK FALSE
