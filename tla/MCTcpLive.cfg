SPECIFICATION FairSpec
CONSTANTS
    SeqSpace = 16
    Peers = {p1}
    NoPeer = NoPeer
    ReceiveCapacity = 1
    TransmitCapacity = 2
    PendingCapacity = 1
    SegmentLimit = 1
    MaxRetransmissions = 1
    ArpMaxAttempts = 1
    PassiveSequence = 14
    ActiveSequence = 13
    PeerSequence = 14
    Setups <- MCLive
    Timed = TRUE
PROPERTIES
    ConnectResolves
    CloseCompletes
    HalfOpenExpires
    ImplementsStreamContract
CHECK_DEADLOCK FALSE
