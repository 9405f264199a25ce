CONSTANTS
    MaxTransports = 2
    MaxPackets = 1
    Devs = {1}
    Pollers = {1, 2}
    Plugs = 2
    MaxFd = 5
    MaxOther = 2
SPECIFICATION LinksSpec
INVARIANTS
    ClosedAfterThreads
    KicksItsOwn
PROPERTIES
    LostIsReplaced
    
    GadgetRecovers
CHECK_DEADLOCK FALSE
