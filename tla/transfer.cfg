CONSTANTS
    c1 = c1
    c2 = c2
    Clients = {c1}
    NoClient = NoClient
    PicoSockets = {p1, p2}
    NoSock = NoSock
    NumSockets = 1
    Quota <- QuotaTwo
    MaxRx = 1
    MaxPending = 1
    Ops = {"create", "bind", "connect", "close", "read", "write", "sendto", "recvfrom", "getPendingEvents"}
    SocketTypes = {"STREAM", "DGRAM"}
    NetEvents = {"established", "refused", "data", "datagram", "writable", "error", "peerclose", "reset", "resetwait", "shutdown"}
    ReuseAddresses = FALSE
SPECIFICATION SilentSpec
INVARIANT TypeOK
INVARIANT ConnectedMeansEstablished
INVARIANT EstablishedMeansConnected
INVARIANT ClosedIsReleased
PROPERTY EventsKept
PROPERTY WorkTakenUp
CHECK_DEADLOCK FALSE
