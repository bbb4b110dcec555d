CONSTANTS
    TwoTo32 = 14
    TwoTo16 = 4
    MaxPayload = 2
    SendCapacity = 2
    RecvCapacity = 2
    RtTimeout = 1
    MaxRetxAttempts = 1
    LingerFactor = 2
    ISN <- ISNs
    BytesToSend <- Bytes
    MaxQueue = 2
    MaxLosses = 0
    MaxDuplicates = 0
    Reorders = FALSE
    EndsWhenAcked = FALSE
    Prompt = TRUE
    UpCapacity = 3
    DownCapacity = 1
    InputCapacity = 4
    CopyCapacity = 2
    Scenarios <- AllScenarios
SPECIFICATION FairSocketSpec
INVARIANTS
    NothingLeftUnsent
    EofMeansWhole
    ThreadDoesNotThrow
PROPERTY OwnerReturns
CHECK_DEADLOCK FALSE
