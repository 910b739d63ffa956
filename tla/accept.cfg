CONSTANTS
    c1 = c1
    c2 = c2
    Clients = {c1, c2}
    NoClient = NoClient
    PicoSockets = {p1, p2, p3}
    NoSock = NoSock
    NumSockets = 2
    Quota <- QuotaMixed
    MaxRx = 1
    MaxPending = 2
    Ops = {"create", "listen", "accept", "close"}
    SocketTypes = {"STREAM"}
    NetEvents = {"incoming", "peerclose", "reset", "shutdown"}
    ReuseAddresses = FALSE
SPECIFICATION Spec
SYMMETRY AddressSymmetry
INVARIANT ConnectionsAnnounced
INVARIANT QuotaKept
INVARIANT AnnouncementCounted
PROPERTY LeftOpenByCloseOnly
PROPERTY CleanReservation
PROPERTY OwnSocketsOnly
PROPERTY ServiceSpec
PROPERTY AcceptSpec
PROPERTY EventsKept
CHECK_DEADLOCK FALSE
