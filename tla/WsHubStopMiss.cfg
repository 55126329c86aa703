CONSTANTS
    Feeds = {price}
    Clients = {c1}
    Stopper = stop
    ClientBufferSize = 1
    MaxFrames = 1
SPECIFICATION FairSpec
PROPERTY StopClosesEveryClient
CHECK_DEADLOCK FALSE
