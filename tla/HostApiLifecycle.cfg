SPECIFICATION Spec
CONSTANTS
    OpIds = {"a", "b", "c"}
    Requests <- LifecycleRequests
    MaxCalls = 2
    MaxFaults = 1
    MaxBoots = 2
    FlushFaults = FALSE
    Orphans = FALSE
    Heartbeats = FALSE
    SelfPowerOff = FALSE
INVARIANTS
    TypeOK
    CallsArePending
    StoppedIsEvidence
    ReplaysAgree
    TombstoneIsGone
PROPERTIES
    BootNeedsPendingStart
    DiskNeedsPendingDestroy
    JournalSpec
