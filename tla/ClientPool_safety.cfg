\* The resolver answers before it returns, as in test/test_pool.cpp.
CONSTANTS
    Hosts = {h1, h2}
    MaxSlots = 2
    MaxShares = 2
    MaxAcquires = 3
    LateAnswers = FALSE
SPECIFICATION FairSpec
INVARIANTS
    DeletedIsClosed
    SharesFollowClient
PROPERTIES
    ImplementsContract
    SharesAreReported
    PoolBecomesEmpty
