\* A connect callback of a late answer releases its share and acquires another.
CONSTANTS
    Hosts = {h1}
    MaxSlots = 1
    MaxShares = 1
    MaxAcquires = 2
    LateAnswers = TRUE
SPECIFICATION Spec
PROPERTY ReasonIsUnused
