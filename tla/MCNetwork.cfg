CONSTANTS
    Broadcast <- Everyone
    NoEthernet <- Nobody
    Direct <- NoHop
    AddressBits = 4
    RequestPending = 1
    MappingLife = 2
    Topologies <- Networks
SPECIFICATION FairSpec
INVARIANTS
    OneCopy
    DeliveredIsRouted
PROPERTIES
    RequestDiscipline
    AllArrive
CHECK_DEADLOCK FALSE
