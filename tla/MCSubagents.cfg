SPECIFICATION Spec
CONSTANTS
    MaxConcurrent = 1
    QueueSlots = 1
    CanHalt = TRUE
    MaxBatch = 2
    MaxSpawned = 2
    MaxCalls = 3
    MaxSpent = 1
    MaxSessions = 2
INVARIANTS
    
    AnsweredByOwnTurn
PROPERTIES
    EndedWindsDown
CHECK_DEADLOCK FALSE
