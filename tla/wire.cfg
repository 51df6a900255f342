SPECIFICATION Spec
INVARIANTS TypeOK PlacesAreHeld BridgeDelivers EndSaidOnce
PROPERTIES ServerLetsGo IsAQueue LiveDropsNothing WaitingIsTaken DeadLegEnds
CONSTANTS
    Addresses = {a1, a2}
    Sessions = {s1, s2, s3}
    PAIRED = 1
    PAIRING = 2
    PAIRING_LIFE = 1
    Starts = 2
    QUEUE = 1
    MaxChunks = 2
    MaxUnis = 1
    UNANSWERED = 3
    Slots = 3
    MaxDatagrams = 5
    MaxConns = 2
CHECK_DEADLOCK FALSE
