CONSTANTS
    Reg = {"a"}
    Link = {"b"}
    Nested = {"b"}
    Room = 1
    MaxFaults = 2
    Chunks <- MCChunks
    Found <- MCFound
    Plans <- MCPlans
    Streams = {1, 2}
    Fds = {1, 2, 3, 4}
    MaxOut = 2
    MAX_PAYLOAD = 1
    Kinds <- MCKinds
SPECIFICATION DeviceSpec
INVARIANTS
    WholeFiles
    DamagedIsSentAgain
    SyncInStep
    ShellsKept

    
CHECK_DEADLOCK FALSE
