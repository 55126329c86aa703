CONSTANTS
    Requests = {r1, r2, r3, r4, health}
    Bypassed = {health}
    Limit = 2
    Window = 3
    Second = 2
    MaxLag = 1
    MaxAttempts = 2
    MaxTime = 5
SPECIFICATION Spec
SYMMETRY Symmetry
INVARIANTS TypeOK WindowBound DeniedOnlyWhenFull NoStickyKey
CHECK_DEADLOCK FALSE
