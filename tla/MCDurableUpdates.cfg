CONSTANTS
    N = 3
    F = 1
    a = a
    b = b
    Clients = {a}
    Trace <- OneUpdate
    BatchSize = 1
    QueueBound = 1
    TransferBound = 0
    Resend = TRUE
    Up = {0, 1, 2}
    Persistent = TRUE
    MaxView = 1
    StatusDelay = TRUE
SPECIFICATION ViewChangeSpec
INVARIANTS
    UpdatesSurvive
CONSTRAINT
    OldLeaderStays
ACTION_CONSTRAINTS
    SentOnce
CHECK_DEADLOCK FALSE
