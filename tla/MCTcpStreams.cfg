SPECIFICATION Spec
CONSTANTS
    SeqSpace = 16
    Peers = {p1}
    NoPeer = NoPeer
    ReceiveCapacity = 2
    TransmitCapacity = 2
    PendingCapacity = 2
    SegmentLimit = 2
    MaxRetransmissions = 1
    ArpMaxAttempts = 1
    PassiveSequence = 14
    ActiveSequence = 13
    PeerSequence = 14
    Setups <- MCStreams
    Timed = FALSE
CHECK_DEADLOCK FALSE
INVARIANTS
    UnfinishedIsHeld
    FinAfterAllData
PROPERTIES
    StreamsExact
