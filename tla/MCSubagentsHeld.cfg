SPECIFICATION Spec
CONSTANTS
    MaxConcurrent = 1
    QueueSlots = 1
    CanHalt = FALSE
    MaxBatch = 1
    MaxSpawned = 1
    MaxCalls = 3
    MaxSpent = 1
    MaxSessions = 1
PROPERTIES
    HandlerReturns
CHECK_DEADLOCK FALSE
