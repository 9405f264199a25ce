SPECIFICATION BtSpec
CONSTANTS
    OpenMax = 8
    CloseMax = 6
    MaxHangups = 2
    MaxTerms = 1
    Patches <- MCPatches
    FragSize = 3
    IndexFlag = 4
    MaxSections = 3
    Files <- MCFiles
    Fuses <- MCFuses
    MaxInits = 3
INVARIANTS
    PatchIsWhole
    RegistersBeforeImage
    
PROPERTIES
    DaemonEnds
CHECK_DEADLOCK FALSE
