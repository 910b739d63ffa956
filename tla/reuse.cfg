CONSTANTS
    c1 = c1
    c2 = c2
    Clients = {c1}
    NoClient = NoClient
    PicoSockets = {p1, p2}
    NoSock = NoSock
    NumSockets = 2
    Quota <- QuotaTwo
    MaxRx = 1
    MaxPending = 1
    Ops = {"create", "connect", "listen"}
    SocketTypes = {"STREAM"}
    NetEvents = {"refused", "incoming"}
    ReuseAddresses = TRUE
SPECIFICATION Spec
INVARIANT UnacceptedHasNoHandle
CHECK_DEADLOCK FALSE
