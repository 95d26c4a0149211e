CONSTANTS
    N = 3
    F = 1
    a = a
    b = b
    Clients = {a}
    Trace <- UpdatesThenRead
    BatchSize = 2
    QueueBound = 1
    TransferBound = 2
    Resend = TRUE
    Up = {0, 1}
    Persistent = TRUE
SPECIFICATION Spec
INVARIANTS
    ClientOrder
    NoUpdateOvertaken
    ClientTableMatchesLog
    RepliesExecuted
    NothingStranded
    LogsFollowLeader
PROPERTIES
    ImplementsExecutedLog
CHECK_DEADLOCK FALSE
