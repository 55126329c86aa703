CONSTANT MaxRequests = 2
SPECIFICATION FairSpec
INVARIANTS TypeOK NothingLeftOpen ClosedAfterUse ReadyMeansUp
PROPERTIES SignalEnds FailureEnds
CHECK_DEADLOCK FALSE
