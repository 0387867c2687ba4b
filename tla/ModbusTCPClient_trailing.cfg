\* A peer that sends nothing but what its headers count.
CONSTANTS
    MaxTransactions = 2
    MaxScheduled = 2
    MaxAnswers = 2
    IdCount = 4
    Masks <- OnlyDefault
    Timeout = 1
    HeaderLength = 2
    MinPayload = 1
    MaxPayload = 2
    Payloads = {1}
    Extras = {0}
    Repeats = FALSE
SPECIFICATION Spec
INVARIANT TrailingIsGarbage
