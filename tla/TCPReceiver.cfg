CONSTANTS
    TwoTo32 = 14
    RecvCapacity = 5
    PeerISN = 11
    StreamLength = 18
    SynPayload = 1
    FinOvertakes = FALSE
SPECIFICATION Spec
INVARIANTS
    DeliveredInOrder
    AckIsFirstMissing
    EofIsComplete
    UnwrapIsClosest
PROPERTY AdvertisedEdgesAdvance
