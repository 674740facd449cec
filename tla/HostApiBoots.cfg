SPECIFICATION ReadySpec
CONSTANTS
    OpIds = {"a", "b", "c"}
    Requests <- BootRequests
    MaxCalls = 2
    MaxFaults = 1
    MaxBoots = 3
    FlushFaults = FALSE
    Orphans = FALSE
    Heartbeats = TRUE
    SelfPowerOff = TRUE
INVARIANTS
    SeedMatches
    ReadyIsNotDisowned
