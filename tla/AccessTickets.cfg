SPECIFICATION LiveSpec
CONSTANTS
    t1 = t1
    None = None
    Tickets <- OneTicket
    Mutations <- Interfering
    MaxLine = 2
    MaxCalls = 2
    MaxGen = 2
    MaxBoots = 2
    MaxFaults = 1
INVARIANTS
    TicketsTypeOK
    TransportsDieFirst
    ReachesItsLaunch
PROPERTIES
    NobodyWaitsForEver
