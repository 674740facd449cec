SPECIFICATION Spec
CONSTANTS
    OpIds = {"a", "b", "c"}
    Requests <- FaultRequests
    MaxCalls = 2
    MaxFaults = 2
    MaxBoots = 2
    FlushFaults = TRUE
    Orphans = TRUE
    Heartbeats = TRUE
    SelfPowerOff = FALSE
INVARIANTS
    OnePending
    FenceIsStopEvidence
