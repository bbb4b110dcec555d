CONSTANTS
    TwoTo32 = 20
    RecvCapacity = 4
    PeerISN = 15
    StreamLength = 7
    SynPayload = 1
    FinOvertakes = TRUE
SPECIFICATION Spec
INVARIANT AckIsFirstMissing
