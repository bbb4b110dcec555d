SPECIFICATION Spec
CONSTANTS
    Setups <- AllSetups
    Deltas = {1, 128}
    MaxDamage = 1
    MaxTime = 1
    Broadcast <- BroadcastAddress
    NoEthernet <- NoAddress
    RequestPending = 1
    MappingLife = 2
INVARIANTS AcceptedIsSent OnePeer IntactIsAccepted
PROPERTY ListenerAnswersCaller
