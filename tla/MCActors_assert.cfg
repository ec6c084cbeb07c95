CONSTANTS
    s1 = s1
    s2 = s2
    s3 = s3
    Senders <- TwoSenders
    Capacity = 2
    NDEBUG = FALSE
    MaxSend = 2
SPECIFICATION Spec
INVARIANT TakesAMessage
CHECK_DEADLOCK FALSE
