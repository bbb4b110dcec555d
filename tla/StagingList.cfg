CONSTANTS
    Capacity = 5
    StreamLength = 8
SPECIFICATION Spec
INVARIANTS
    ListInOrder
    CapacityIsRespected
    OutputIsStream
    AssembledIsWritten
    EndsAtEof
PROPERTY ImplementsReassembler
