CONSTANTS
    Usb = {1}
    Tcp = {2, 3}
    Emu = {4, 5}
    Port <- MCPort
    Ports = {1}
    Slots = {1, 2}
    Names = {"n"}
    Targets = {"a"}
    Trackers = {"k"}
    Waiters = {"w"}
    Clients = {"c"}
    Worlds <- MCWorlds
    Disconnects = 1
    Runs <- MCRuns
    Faults = 2
SPECIFICATION AdbSpec
INVARIANTS
    TablesInOrder
    InstallCleansUp

    
    
CHECK_DEADLOCK FALSE
