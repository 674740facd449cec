SPECIFICATION Spec
CONSTANTS
    OpIds = {"a", "b", "c"}
    Requests <- BootRequests
    MaxCalls = 2
    MaxFaults = 0
    MaxBoots = 2
    FlushFaults = FALSE
    Orphans = FALSE
    Heartbeats = TRUE
    SelfPowerOff = FALSE
INVARIANTS
    ReadyIsThisBoot
