\* Two clients, every kind of request, and datagrams of one type.
CONSTANTS
    Sockets = {s1, s2}
    NoSocket = NoSocket
    Handles = {h1, h2}
    INVALID_SOCKET = INVALID_SOCKET
    Server = Server
    Senders = {Server, Stranger}
    MayFail <- SomeFail
    MaxHeld = 2
    IntRange = 1048576
    MaxDatagram = 65507
    SendSizes = {}
    Clients = {c1, c2}
    NoClient = NoClient
    MaxClients = 2
    Requests <- AllRequests
    NoRequest = NoRequest
    NoSender = NoSender
    Types = {"ENTRY_LIST"}
    Received = {0, 7}
    StringSizes = {0}
    Counts = {0}
    LongCounts = {0, 4}
    IndexRange = 4
    BufferSize = 8
    StackSize = 9
    NoMemory = TRUE
SPECIFICATION AccSpec
SYMMETRY Symmetry
CHECK_DEADLOCK FALSE
INVARIANTS AccTypeOK BufferIsFilled SentIsUnderstood NothingIsLost
