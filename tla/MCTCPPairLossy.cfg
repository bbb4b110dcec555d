CONSTANTS
    TwoTo32 = 14
    TwoTo16 = 4
    MaxPayload = 1
    SendCapacity = 2
    RecvCapacity = 1
    RtTimeout = 1
    MaxRetxAttempts = 3
    LingerFactor = 4
    ISN <- ISNs
    BytesToSend <- BothWays
    MaxQueue = 4
    MaxLosses = 1
    MaxDuplicates = 0
    Reorders = FALSE
    EndsWhenAcked = FALSE
    Prompt = TRUE
SPECIFICATION FairSpec
INVARIANTS
    CleanCloseIsComplete
    StatesAgree
PROPERTY BothFinish
CHECK_DEADLOCK FALSE
