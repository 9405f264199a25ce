CONSTANTS
    Agents = 2
    Ring = 3
    Tests <- MCTests
    Packets <- MCPackets
    Signals <- MCSignals
    MaxPackets = 3
    MaxTries = 2
    MaxSessions = 2
SPECIFICATION PerfSpec
INVARIANTS
    RingSafe
    
    CountsAreRight
PROPERTIES
    
    HandshakeEnds
CHECK_DEADLOCK FALSE
