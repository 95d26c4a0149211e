CONSTANTS
    r1 = r1
    r2 = r2
    Receivers = {r1, r2}
    Sizes = {1, 2, 3}
    Drops = TRUE
    Reorders = TRUE
    MaxSent = 3
    MaxRestarts = 1
SPECIFICATION Spec
INVARIANTS
    TypeOK
    NoSplice
    AbortOnlyIfDisordered
    NothingMissed
    NothingForgotten
CONSTRAINT
    FewPackets
CHECK_DEADLOCK FALSE
