SPECIFICATION MCSpec
CONSTANTS
    DiskSectors = 6
    RegionFirst = 1
    RegionSectors = 5
    SectorSize = 16
    ManifestTokens = 7
    SuperblockLba = 0
    ManifestLba = 1
    ManifestSectors = 2
    DataLba = 3
    MaxManifestSectors = 2
    MaxEntries = 2
    MaxNames = 2
    ReadCapacity = 33
    WriteCapacity = 32
    KeyCapacity = 2
    ConfigCapacity = 16
    LogCapacity = 3
    MaxErrors = 1
    MaxLosses = 1
    MaxEvents = 5
    Nul = Nul
    home = home
    conf = conf
    k = k
    space = space
    Superblock <- MCSuperblock
    ConfigPath <- MCConfigPath
    PortTexts <- MCPorts
    DefaultPort <- MCDefaultPort
    KeyCharacters = {k}
    Keys <- MCKeys
    OtherTexts <- MCOtherTexts
    ReceiveLimit = 1
    TaskCapacity = 2
    TcpCapacity = 3
    UdpCapacity = 2
    HandleCapacity = 2
    Ports = {1, 2}
    RemotePort = 2
    Interval = 3
    Minimum = 2
    Maximum = 5
    MaxRetransmissions = 2
    PendingCapacity = 2
    VarianceFloor = 1
    Horizon = 11
    ConnectionBound = 1
CHECK_DEADLOCK FALSE
INVARIANTS
    ServiceMatchesListener
    LogKeepsNewest
    
    HandlesAndEndpointsAgree
    RetransmissionTimingSound
