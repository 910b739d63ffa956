CONSTANTS
    c1 = c1
    c2 = c2
    Clients = {c1}
    NoClient = NoClient
    PicoSockets = {p1, p2}
    NoSock = NoSock
    NumSockets = 2
    Quota <- QuotaTwo
    MaxRx = 1
    MaxPending = 1
    Ops = {"create", "connect", "listen", "accept", "getPendingEvents"}
    SocketTypes = {"STREAM"}
    NetEvents = {"established", "reset"}
    ReuseAddresses = FALSE
SPECIFICATION FairSpec
INVARIANT EventsFit
PROPERTY EventsReported
PROPERTY EventsSignalled
PROPERTY CallsReturn
PROPERTY RoundsEnd
CHECK_DEADLOCK FALSE
