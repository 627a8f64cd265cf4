\* Three sockets competing for two handles; every call but the clean-up ones may fail.
CONSTANTS
    Sockets = {s1, s2, s3}
    NoSocket = NoSocket
    Handles = {h1, h2}
    INVALID_SOCKET = INVALID_SOCKET
    Server = Server
    Senders = {Server, Stranger}
    MayFail <- CleanupReliable
    MaxHeld = 3
    IntRange = 16
    MaxDatagram = 6
    SendSizes = {2, 7, 9, 18}
SPECIFICATION UdpSpec
SYMMETRY Symmetry
INVARIANTS TypeOK UsersCountSockets StartedAtMostOnce HandlesAreOwn NoLeakUnlessWedged
PROPERTIES WedgeIsForever FailedCreateReportsItsCause
