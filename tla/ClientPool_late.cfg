\* The resolver answers late, and users call the pool from the callback of that.
CONSTANTS
    Hosts = {h1, h2}
    MaxSlots = 2
    MaxShares = 2
    MaxAcquires = 3
    LateAnswers = TRUE
SPECIFICATION Spec
SYMMETRY HostSymmetry
INVARIANTS
    TypeOK
    SharesAreCounted
    OneSlotPerHost
PROPERTIES
    PrimaryFirstAndLast
    UndefinedOnlyIfLate
