CONSTANTS
    Requests = {r1, r2, r3}
    Bypassed = {}
    Limit = 1
    Window = 4
    Second = 2
    MaxLag = 0
    MaxAttempts = 1
    MaxTime = 5
SPECIFICATION Spec
INVARIANT RetryAfterSuffices
CHECK_DEADLOCK FALSE
