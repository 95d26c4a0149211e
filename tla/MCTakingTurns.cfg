CONSTANTS
    N = 3
    F = 1
    a = a
    b = b
    Clients = {a, b}
    Trace <- TwoWrites
    BatchSize = 1
    QueueBound = 0
    TransferBound = 0
    Resend = FALSE
    Up = {0, 1, 2}
    Persistent = TRUE
    MaxView = 3
    StatusDelay = FALSE
SPECIFICATION ViewChangeSpec
PROPERTIES
    CommittedKept
CONSTRAINT
    TakingTurns
CHECK_DEADLOCK FALSE
