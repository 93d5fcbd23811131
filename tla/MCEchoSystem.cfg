SPECIFICATION FairSpec
CONSTANTS
    s = s
    w = w
    v = v
    ShutClients <- OneShut
    WriteClients <- TwoWrite
    Lines <- LinesEach
    Pastes = {2}
    MAXLINE = 2
    UpRoom = 2
    DownRoom = 2
    FD_SETSIZE = 6
    OPEN_MAX = 6
INVARIANTS
    SlotsMatchConnections
    NreadyCountsReady
    EchoesInOrder
    NoStandoff
PROPERTIES
    OnlyLeaversEndServer
    ShutClientsComplete
