CONSTANTS
    Broadcast <- Everyone
    NoEthernet <- Nobody
    Direct <- NoHop
    AddressBits = 4
    RequestPending = 1
    MappingLife = 2
    Topologies <- RouteWithHostBits
SPECIFICATION Spec
INVARIANT DeliveredIsRouted
CHECK_DEADLOCK FALSE
