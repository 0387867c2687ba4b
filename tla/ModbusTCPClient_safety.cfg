\* Three transactions, two responses cut anywhere, ids that are used again.
CONSTANTS
    MaxTransactions = 3
    MaxScheduled = 1
    MaxAnswers = 2
    IdCount = 2
    Masks <- AllOrNothing
    Timeout = 1
    HeaderLength = 2
    MinPayload = 1
    MaxPayload = 1
    Payloads = {0, 1}
    Extras = {0}
    Repeats = TRUE
SPECIFICATION Spec
INVARIANTS
    TypeOK
    BufferBound
    CleanWhenClosed
    Aligned
PROPERTIES
    OwnAnswer
    ImplementsContract
