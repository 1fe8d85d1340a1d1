SPECIFICATION Spec
CONSTANTS
    DiskSectors = 8
    RegionFirst = 1
    RegionSectors = 6
    SectorSize = 2
    ManifestTokens = 7
    SuperblockLba = 0
    ManifestLba = 1
    ManifestSectors = 2
    DataLba = 3
    MaxManifestSectors = 2
    MaxEntries = 3
    MaxNames = 2
    ReadCapacity = 9
    WriteCapacity = 8
    MaxErrors = 1
    MaxLosses = 0
    Nul = Nul
    Blank = Blank
    Anything = Anything
    d = d
    f = f
    g = g
    a = a
    b = b
    Superblock <- MCSuperblock
    Paths <- MCPaths
    ShippedPath <- MCShippedPath
    Files <- MCFiles
CHECK_DEADLOCK FALSE
INVARIANT ManifestPointsToWrittenData
