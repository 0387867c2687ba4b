\* Three connections, two places: displacement, refusal and a tick() with two clients.
CONSTANTS
    MaxConnections = 3
    MaxRequests = 1
    MaxBacklog = 1
    MaxClients = 2
    MinDisplaceDelay = 1
    MaxIdleDuration = 2
    IdleCheckInterval = 1
    HeaderLength = 1
    PayloadLength <- OneByte
SPECIFICATION Spec
INVARIANTS
    TypeOK
    ListIntact
PROPERTIES
    DisplacesLeastAlive
    TurnsAwayOnlyWhenBusy
    ImplementsContract
