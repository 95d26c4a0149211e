CONSTANTS
    N = 3
    F = 1
    a = a
    b = b
    Clients = {a}
    Trace <- TwoUpdates
    BatchSize = 2
    QueueBound = 1
    TransferBound = 1
    Resend = TRUE
    Up = {0, 1}
    Persistent = FALSE
SPECIFICATION FairSpec
PROPERTIES
    EveryRequestExecuted
CHECK_DEADLOCK FALSE
