CONSTANTS
    N = 3
    F = 1
    a = a
    b = b
    Clients = {a, b}
    Trace <- WriteAndUpdate
    BatchSize = 1
    QueueBound = 1
    TransferBound = 0
    Resend = FALSE
    Up = {0, 1, 2}
    Persistent = TRUE
    MaxView = 1
    StatusDelay = TRUE
SPECIFICATION ViewChangeSpec
INVARIANTS
    ViewChangeTypeOK
    LeaderComplete
    ExecutedSurvive
    ViewstampsUnique
    
PROPERTIES
    CommittedKept
CONSTRAINT
    UpdateFirst
ACTION_CONSTRAINTS
    Lag
CHECK_DEADLOCK FALSE
