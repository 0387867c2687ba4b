\* Two clients, one place, two requests of different length each, cut anywhere; liveness
\* is checked on the whole graph.
CONSTANTS
    MaxConnections = 2
    MaxRequests = 2
    MaxBacklog = 2
    MaxClients = 1
    MinDisplaceDelay = 1
    MaxIdleDuration = 2
    IdleCheckInterval = 1
    HeaderLength = 2
    PayloadLength <- LongThenShort
SPECIFICATION FairSpec
INVARIANT InStep
PROPERTIES
    EachIsTakenBack
    EachIsAccepted
