CONSTANTS
    N = 3
    F = 1
    a = a
    b = b
    Clients = {a}
    Trace <- OneWrite
    BatchSize = 1
    QueueBound = 0
    TransferBound = 0
    Resend = FALSE
    Up = {0, 1, 2}
    Persistent = TRUE
    MaxView = 0
    StatusDelay = FALSE
    Crashing = {0, 1}
    MaxCrashes = 2
SPECIFICATION FairRecoverySpec
INVARIANTS
    AcknowledgedKept
    ExecutedOnQuorum
PROPERTIES
    RecoveryEnds
CHECK_DEADLOCK FALSE
