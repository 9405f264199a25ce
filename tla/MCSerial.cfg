SPECIFICATION SerialSpec
CONSTANTS
    Configs <- MCConfigs
    ConfigBins <- MCConfigBins
    baudrate_table <- MCTable
    UsbInterface = FALSE
    MaxTries = 3
    MaxFaults = 2
    Jobs <- MCJobs
    FwBinCountMax = 3
    MaxPolls = 3
    BufLen = 8
    Payloads <- ShortPayloads
    Noises <- LineNoises
    MaxRequests = 3
    BitXor <- ByteXor
    sFcsTable <- Table
    Channels = {0, 1}
    Sessions <- MCSessions
    MaxTx = 2
    MaxBias = 2
    Sensor <- MCSensor
INVARIANTS
    
    SuccessIsComplete
    Decodes
PROPERTIES
    OnlyLoadedIsWritten
    Terminates
    PacketsIntact
    
CHECK_DEADLOCK FALSE
