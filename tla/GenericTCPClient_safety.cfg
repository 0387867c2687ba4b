\* Three attempts interleaved with late answers, and calls nested three deep.
CONSTANTS
    Sockets <- Descriptors
    NoSocket <- NoDescriptor
    MaxAttempts = 3
    ResolveIds = 4
    ConnectTimeout = 2
    MaxDepth = 3
SPECIFICATION FairSpec
INVARIANTS
    TypeOK
    NoSocketLeak
    CallbackOwnership
    NoEmptyCall
    OwnHostOnly
    ScopeMatchesGuard
    StatusMatchesReports
PROPERTIES
    ImplementsContract
    AttemptsAreReported
