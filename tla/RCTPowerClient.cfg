\* Two reads of two ids and two frames of the peer, a byte at a time; liveness is
\* checked on the whole graph.
CONSTANTS
    MaxReads = 2
    MaxScheduled = 1
    MaxFrames = 2
    Timeout = 1
    Ids <- TwoIds
    Values <- TwoValues
    Checksums <- EscapedChecksums
    Foreign <- OtherFrames
SPECIFICATION FairSpec
INVARIANTS
    TypeOK
    InStep
PROPERTIES
    OwnValue
    ImplementsContract
    ReadsEnd
