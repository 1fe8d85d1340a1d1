SPECIFICATION Spec
CONSTANTS
    SeqSpace = 16
    Peers = {p1,p2}
    NoPeer = NoPeer
    ReceiveCapacity = 1
    TransmitCapacity = 2
    PendingCapacity = 1
    SegmentLimit = 1
    MaxRetransmissions = 1
    ArpMaxAttempts = 1
    PassiveSequence = 14
    ActiveSequence = 13
    PeerSequence = 14
    Setups <- MCLifecycle
    Timed = FALSE
CHECK_DEADLOCK FALSE
SYMMETRY Symmetry
INVARIANTS
    ConnectionsApart
PROPERTIES
    ImplementsStreamContract
