CONSTANT MaxRequests = 0
SPECIFICATION FairSpec
PROPERTY StopBounded
CHECK_DEADLOCK FALSE
