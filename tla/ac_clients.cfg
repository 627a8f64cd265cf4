\* Two clients, one datagram at a time, from the game or from a stranger; requests
\* to the game may be lost.
CONSTANTS
    Sockets = {s1, s2}
    NoSocket = NoSocket
    Handles = {h1, h2}
    INVALID_SOCKET = INVALID_SOCKET
    Server = Server
    Senders = {Server, Stranger}
    MayFail <- SomeFail
    MaxHeld = 2
    IntRange = 1048576
    MaxDatagram = 65507
    SendSizes = {}
    Clients = {c1, c2}
    NoClient = NoClient
    MaxClients = 2
    MaxInbox = 1
    Lossy = TRUE
SPECIFICATION AcSpec
SYMMETRY Symmetry
INVARIANTS AcTypeOK SessionIsRemembered ClientsOwnTheirSockets LostOnlyByGarbageFlag
CHECK_DEADLOCK FALSE
