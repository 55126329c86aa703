CONSTANTS
    Feeds = {price, indexer}
    Clients = {c1}
    Stopper = stop
    ClientBufferSize = 1
    MaxFrames = 2
SPECIFICATION Spec
SYMMETRY Symmetry
INVARIANTS TypeOK NoZombie InOrderNoGap NobodySkipped DropsBounded
PROPERTY ImplementsRelay
CHECK_DEADLOCK FALSE
