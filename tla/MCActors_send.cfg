CONSTANTS
    s1 = s1
    s2 = s2
    s3 = s3
    Senders <- ThreeSenders
    Capacity = 2
    NDEBUG = FALSE
    MaxSend = 3
SPECIFICATION FairSpec
INVARIANT TypeOK
INVARIANT WritesAreExclusive
INVARIANT ArriveInOrder
PROPERTY EverythingArrives
CHECK_DEADLOCK FALSE
