CONSTANTS
    Fds = {0, 3, 4}
    NULL = null
    Addresses = 2
    Backlog = 1
    BufSize = 2
    SndBuf = 1
    MaxClients = 2
    MaxPieces = 3
    Crowds <- SmallCrowds
    Meetings = 3
    MailboxSize = 2
    Arrays <- SmallArrays
    Keys = {1, 2, 5}
    NLookups = 3
    Streams = {0, 1, 2, 3}
    RingSize = 2
SPECIFICATION ProgramsSpec
INVARIANT ProgramTypeOK
INVARIANT DescriptorsAreOwned
INVARIANT ResponsesAreWhole
INVARIANT ResultsAreRight
PROPERTY ResetsAreReclaimed
PROPERTY ProgramsEnd
CHECK_DEADLOCK FALSE
