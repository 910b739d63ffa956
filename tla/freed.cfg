CONSTANTS
    c1 = c1
    c2 = c2
    Clients = {c1}
    NoClient = NoClient
    PicoSockets = {p1}
    NoSock = NoSock
    NumSockets = 1
    Quota <- QuotaOne
    MaxRx = 1
    MaxPending = 1
    Ops = {"create", "connect", "write"}
    SocketTypes = {"STREAM"}
    NetEvents = {"established", "reset"}
    ReuseAddresses = FALSE
SPECIFICATION Spec
INVARIANT NoCallOnFreedSocket
CHECK_DEADLOCK FALSE
