CONSTANTS
    N = 5
    F = 2
    a = a
    b = b
    Clients = {a, b}
    Trace <- TwoWrites
    BatchSize = 2
    QueueBound = 1
    TransferBound = 2
    Resend = TRUE
    Up = {0, 1, 2}
    Persistent = TRUE
SPECIFICATION Spec
INVARIANTS
    TypeOK
    NoAbort
    ExecutionAgreement
    CommittedOnQuorum
PROPERTIES
    ExecutedForever
CHECK_DEADLOCK FALSE
