CONSTANT MaxRequests = 0
SPECIFICATION Spec
INVARIANT StopAfterError
CHECK_DEADLOCK FALSE
