CONSTANTS
    TwoTo32 = 12
    TwoTo16 = 4
    MaxPayload = 1
    SendCapacity = 2
    RtTimeout = 1
    ISNs = {9}
    MaxBytes = 2
    TickSizes = {1}
    MaxTimeouts = 1
SPECIFICATION Spec
PROPERTY SegmentsWithinWindow
