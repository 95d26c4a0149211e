CONSTANTS
    N = 3
    F = 1
    a = a
    b = b
    c = c
    x = x
    y = y
    Keys = {x, y}
    NotFound = NotFound
    Clients = {a, b}
    Trace <- WriteUpdateAndRead
    Resends <- ReadsResent
    Up = {0, 1, 2}
SPECIFICATION Spec
INVARIANTS
    DurableAsCounted
    PendingUpdateSyncs
    ReadsLatest
    RealTimeOrder
    CompletedSurvive
    CompletedKeepOrder
    AppliedBeforeErased
CONSTRAINT
    FollowersLag
CHECK_DEADLOCK FALSE
