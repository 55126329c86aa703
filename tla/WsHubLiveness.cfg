CONSTANTS
    Feeds = {price, indexer}
    Clients = {c1}
    Stopper = stop
    ClientBufferSize = 1
    MaxFrames = 1
SPECIFICATION FairSpec
PROPERTIES StopTerminates StopClosesRegistered CloseCompletes AcceptedIsWritten
CHECK_DEADLOCK FALSE
