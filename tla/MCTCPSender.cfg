CONSTANTS
    TwoTo32 = 12
    TwoTo16 = 4
    MaxPayload = 2
    SendCapacity = 3
    RtTimeout = 1
    ISNs = {9}
    MaxBytes = 4
    TickSizes = {1}
    MaxTimeouts = 1
SPECIFICATION Spec
INVARIANTS
    TypeOK
    InFlightTiled
    InFlightBounded
    TrackedContent
    SentIsRead
    TimerDiscipline
    ClosedFormIsLoop
PROPERTIES
    EdgesAdvance
    RetransmitsOldest
    DataWithinWindow
