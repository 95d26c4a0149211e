CONSTANTS
    N = 3
    F = 1
    a = a
    b = b
    Clients = {a, b}
    Trace <- TwoWrites
    BatchSize = 1
    QueueBound = 0
    TransferBound = 1
    Resend = FALSE
    Up = {0, 1}
    Persistent = TRUE
    MaxView = 1
    StatusDelay = FALSE
SPECIFICATION FairViewChangeSpec
PROPERTIES
    ViewChangeEnds
    OrderedInViewExecuted
CHECK_DEADLOCK FALSE
