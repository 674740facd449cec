SPECIFICATION Spec
CONSTANTS
    Ids = {"a", "b"}
    Calls <- AllCalls
    Memory <- Mb
    MaxRunning = 1
    MaxMemory = 4
    Linux = TRUE
    MaxBoots = 2
    MaxFaults = 2
INVARIANTS
    MeetsContract
    LimitsHold
    KeptDiskSurvives
