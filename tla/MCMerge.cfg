CONSTANTS
    N = 3
    F = 1
    a = a
    b = b
    c = c
    x = x
    y = y
    Keys = {x, y}
    NotFound = NotFound
    Clients = {a, b}
    Trace <- Concurrent
    Resends <- NoneResent
    Up = {0, 1, 2}
SPECIFICATION Spec
INVARIANTS
    CanMerge
CHECK_DEADLOCK FALSE
