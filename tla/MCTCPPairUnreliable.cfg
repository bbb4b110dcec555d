CONSTANTS
    TwoTo32 = 14
    TwoTo16 = 4
    MaxPayload = 1
    SendCapacity = 2
    RecvCapacity = 2
    RtTimeout = 1
    MaxRetxAttempts = 3
    LingerFactor = 4
    ISN <- ISNs
    BytesToSend <- OneWay
    MaxQueue = 2
    MaxLosses = 1
    MaxDuplicates = 1
    Reorders = TRUE
    EndsWhenAcked = TRUE
    Prompt = TRUE
SPECIFICATION Spec
INVARIANTS
    ReceivedIsPrefixOfSent
    AckedWasReceived
    CleanCloseIsComplete
CHECK_DEADLOCK FALSE
