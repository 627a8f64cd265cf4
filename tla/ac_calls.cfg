\* Two clients, the game alone sends; only sendto may fail, requests may be lost.
CONSTANTS
    Sockets = {s1, s2}
    NoSocket = NoSocket
    Handles = {h1, h2}
    INVALID_SOCKET = INVALID_SOCKET
    Server = Server
    Senders = {Server}
    MayFail = {"sendto"}
    MaxHeld = 2
    IntRange = 1048576
    MaxDatagram = 65507
    SendSizes = {}
    Clients = {c1, c2}
    NoClient = NoClient
    MaxClients = 2
    MaxInbox = 1
    Lossy = TRUE
SPECIFICATION AcFairSpec
CHECK_DEADLOCK FALSE
PROPERTIES CallsReturn
