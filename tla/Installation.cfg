SPECIFICATION Spec
CONSTANTS
    Names <- Two
    Parts <- TwoBuilds
    Version <- SameVersion
    FullSize <- Sizes
    BlockSize = 2
    MaxFaults = 1
    Machines = {"a"}
INVARIANTS
    InstallTypeOK
    FinalIsOneBuild
PROPERTIES
    RefreshNeedsStaged
    SilenceIsCurrent
    StoppedBeforeRemoval
