SPECIFICATION FairSpec
CONSTANTS
    w1 = w1  w2 = w2  s1 = s1  g1 = g1  g2 = g2
    NULL = NULL
    WaitSets <- TwoWaitSets
    Subscriptions = {s1}
    Guards = {g1, g2}
    Capacity = 2
    Requests <- SomeRequests
    DestroyAllowed = TRUE
INVARIANTS
    TypeOK
    AttachmentsAreRecorded
    TriggerIsNotLost
    OutcomeIsHonest
    GoodWaitsRecover
PROPERTIES
    TriggerEndsAWait
