CONSTANTS
    RETRYCOUNT = 1
    MaxFaults = 0
    MaxRequests = 1
    DataPackages <- Downloads
    MediumPackages <- OnMedium
    u1 = u1
    u2 = u2
    card = card
    NoNode = NoNode
    Usb <- TwoUsb
    Sd <- OneSd
    NParts = 2
    Mountable <- FirstTwo
    HasNPARTS = FALSE
    MaxNodes = 2
    MaxPresent = 1
    MaxPlugs = 2
    MaxLosses = 1
SPECIFICATION RecoverySpec
INVARIANTS
    SuccessMeansInstalled
CHECK_DEADLOCK FALSE
