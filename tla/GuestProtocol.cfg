SPECIFICATION Spec
CONSTANTS
    Tokens = {"t1", "t2", "t3", "t4", "t5", "t6"}
    MaxLate = 2
    MaxBoots = 2
    MaxRestores = 2
    MaxFaults = 2
INVARIANTS
    GuestTypeOK
    RestoreRevokes
    ForkIsItself
PROPERTIES
    EveryBootIsHeard
    StopIsObeyed
CHECK_DEADLOCK FALSE
