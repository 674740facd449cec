SPECIFICATION LiveSpec
CONSTANTS
    OpIds = {"a", "b", "c"}
    Requests <- LiveRequests
    MaxCalls = 2
    MaxFaults = 1
    MaxBoots = 2
    FlushFaults = FALSE
    Orphans = FALSE
    Heartbeats = FALSE
    SelfPowerOff = FALSE
PROPERTIES
    PendingSettles
