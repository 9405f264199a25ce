CONSTANTS
    Host = Host
    Dev = Dev
    MaxPayload = 2
    MaxStreams = 2
    MaxData = 3
    Loads <- MCLoads
    f1 = f1
    f2 = f2
    f3 = f3
    R = R
    W = W
    NoFde = NoFde
    READ <- R
    Fdes <- MCFdes
    Fds <- MCFds
    Events <- MCEvents
SPECIFICATION LoopSpec
INVARIANTS
    StreamsFlow
    EventsInSync
PROPERTIES
    AllDelivered
    CloseReachesBoth
CHECK_DEADLOCK FALSE
