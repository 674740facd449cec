SPECIFICATION Spec
CONSTANTS
    Ids = {"a", "c", "d"}
    Cloud = {"c"}
    Tombstones = {"d"}
    Workers = {"w1", "w2"}
    MaxBoots = 2
    MaxFaults = 1
INVARIANTS
    LocalTypeOK
    
    
    
PROPERTIES
    ManagedIsUntouched
    FlaggedIsDeleted
