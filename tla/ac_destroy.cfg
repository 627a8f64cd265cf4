\* Two clients, no call fails on its own account.
CONSTANTS
    Sockets = {s1, s2}
    NoSocket = NoSocket
    Handles = {h1, h2}
    INVALID_SOCKET = INVALID_SOCKET
    Server = Server
    Senders = {Server}
    MayFail = {}
    MaxHeld = 2
    IntRange = 1048576
    MaxDatagram = 65507
    SendSizes = {}
    Clients = {c1, c2}
    NoClient = NoClient
    MaxClients = 2
    MaxInbox = 1
    Lossy = FALSE
SPECIFICATION AcSpec
CHECK_DEADLOCK FALSE
PROPERTIES DestroyDoesNotFail
