CONSTANTS
    c1 = c1
    c2 = c2
    Clients = {c1}
    NoClient = NoClient
    PicoSockets = {p1}
    NoSock = NoSock
    NumSockets = 1
    Quota <- QuotaOne
    MaxRx = 1
    MaxPending = 1
    Ops = {"create", "connect", "read"}
    SocketTypes = {"STREAM"}
    NetEvents = {"established", "data"}
    ReuseAddresses = FALSE
SPECIFICATION Spec
PROPERTY ClearedWhenDrained
CHECK_DEADLOCK FALSE
