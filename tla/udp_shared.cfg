\* Four sockets, three of them kept at a time; every system call may fail.
CONSTANTS
    Sockets = {s1, s2, s3, s4}
    NoSocket = NoSocket
    Handles = {h1, h2}
    INVALID_SOCKET = INVALID_SOCKET
    Server = Server
    Senders = {Server, Stranger}
    MayFail <- SysCalls
    MaxHeld = 3
    IntRange = 16
    MaxDatagram = 6
    SendSizes = {2, 7, 9, 18}
SPECIFICATION UdpSpec
SYMMETRY Symmetry
PROPERTIES WinsockIsShared
