SPECIFICATION FairSpec
CONSTANTS
    t1 = t1  t2 = t2  t3 = t3  t4 = t4
    NULL = NULL
    PublishingThreads <- MCPublishing
    TakingThreads <- MCTaking
    Profiles <- MCProfiles
    INT32_MAX = 3
    MaxMessages = 3
    MaxFaults = 1
INVARIANTS
    PublishedExactlyOnce
    TakesAreOrdered
    ReliableKeepsLast
PROPERTIES
    SampleLockIsReleased
    DataIsConsumed
CHECK_DEADLOCK FALSE
