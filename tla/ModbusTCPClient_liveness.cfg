\* A short instance: liveness is checked on the whole graph.
CONSTANTS
    MaxTransactions = 2
    MaxScheduled = 1
    MaxAnswers = 2
    IdCount = 2
    Masks <- OnlyDefault
    Timeout = 1
    HeaderLength = 2
    MinPayload = 1
    MaxPayload = 1
    Payloads = {0, 1}
    Extras = {0, 1}
    Repeats = TRUE
SPECIFICATION FairSpec
PROPERTY TransactionsEnd
