CONSTANTS
    LineCapacity = 6
    PathCapacity = 4
    HistoryCapacity = 2
    KeyCapacity = 3
    Commands <- MCCommands
    FixedArguments <- MCFixedArguments
    Listing <- MCListing
    AppsDirectory <- MCApps
    ProgramSuffix <- MCSuffix
    Leads = {"d0", "d1"}
    Continuations = {"b0", "8e"}
    RussianLayout <- MCLayout
    Scenarios <- MCScenarios
    CurrentDirectory <- MCDirectory
    DocumentCapacity = 3
    Columns = 2
    Rows = 2
    EscapeLimit = 2
    Characters = {"x"}
    EscapeCharacters = {"[", "O", "A", "B", "C", "D", "H", "F", "~", "1", "3", "4", ";"}
    Files <- MCFiles
    MaxWrites = 1
    Responses <- MCResponses
    HeaderCapacity = 10
    PieceCapacity = 3
    RequestLength = 5
    SizeMax = 15
    TaskCapacity = 2
    InputCapacity = 1
    MaxPid = 3
    AddressCount = 16
    UserPage = 2
    CodeBase = 2
    CodePages = 1
    StackBase = 8
    StackPages = 1
    WriteLimit = 2
    FileLimit = 2
    IoLimit = 2
    PathLimit = 1
    AwpHeader = 1
    Images <- MCImages
    Ranges <- MCRanges
    MaxCallsMade = 2
SPECIFICATION MCSpec
CHECK_DEADLOCK FALSE
INVARIANTS
    ScreenShowsLine
    HistoryKeepsLatest
    CursorFollowsText
    PrintedIsBody
    KernelStaysInside
    OwnBytesOnly
PROPERTIES
    TabKeepsCandidates
    
    
