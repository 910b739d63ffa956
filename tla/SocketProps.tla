---------------------------- MODULE SocketProps ----------------------------
(***************************************************************************)
(* What the socket layer should guarantee.                                 *)
(***************************************************************************)
EXTENDS SocketLayer

InUse(h) == sockets[h].status = "IN_USE"

\* currentSocketsInUse counts the sockets a client really holds, and never
\* exceeds the quota: whatever fails in between, reserve_handle and
\* free_handle stay paired.
QuotaKept ==
    \A c \in Clients :
        /\ clients[c].currentSocketsInUse = Cardinality(SocketsOf(c))
        /\ clients[c].currentSocketsInUse <= Quota[c]

\* A socket starts its life with no event of its predecessor in the same
\* table entry.  reserve_handle does not reset eventMask; it relies on
\* free_handle having the last word over the control thread.
CleanReservation ==
    [][\A h \in Handles :
          sockets[h].status = "FREE" /\ sockets'[h].status = "IN_USE" =>
              /\ sockets'[h].eventMask = {}
              /\ sockets'[h].pending = 0]_vars

\* A call made by one client never changes the entry of a socket that
\* belongs to another client (CHECK_CLIENT_ID).
OwnSocketsOnly ==
    [][rpc' # rpc =>
        \A h \in Handles :
            sockets'[h] # sockets[h] =>
                sockets[h].clientId \in {rpc.client, NoClient}]_vars

\* While an established connection waits at a listening socket, the server
\* is told so: pendingConnections covers it and CONN_ACPT stays set.
ConnectionsAnnounced ==
    \A h \in Handles :
        (InUse(h) /\ sockets[h].impl # NoSock
                  /\ ~(ctl.pc = "event" /\ ctl.h = h)) =>
            /\ Cardinality(Acceptable(sockets[h].impl)) <= sockets[h].pending
            /\ Acceptable(sockets[h].impl) # {} =>
                    "CONN_ACPT" \in sockets[h].eventMask

\* An open pico socket that the clients have no way to reach: no handle leads
\* to it, and it does not wait at a listening socket to be accepted.
LeftOpen(a) ==
    /\ pico[a].state \notin {"free", "closing"}
    /\ NoHandleFound(a)
    /\ \A l \in PicoSockets : a \notin Acceptable(l)

\* network_stack_pico.c:241-244: a connection that can get no handle is closed
\* "in order to avoid a handle leak".  It does not hold as it stands (see
\* LeftOpenByCloseOnly): the connections that wait at a listening socket are
\* left open when it is closed.
NoSocketLeak == \A a \in PicoSockets : ~LeftOpen(a)

\* The one way to leave a pico socket open behind is to close a listening
\* socket at which connections wait.  Every other path on which create,
\* accept, close or the callback gives a pico socket up closes it, too.
LeftOpenByCloseOnly ==
    [][\A a \in PicoSockets :
          ~LeftOpen(a) /\ LeftOpen(a)' =>
              rpc.pc = "locked" /\ rpc.op = "close" /\ a \in Acceptable(rpc.impl)]_vars

\* read and write pass CHECK_SOCKET_CONNECTED only on a connection that was
\* really established: its pico socket is past the handshake, or gone.
ConnectedMeansEstablished ==
    \A h \in Handles :
        InUse(h) /\ sockets[h].connected =>
            pico[sockets[h].impl].state \in
                {"estab", "closewait", "closing", "free"}

\* getPendingEvents() never copies more events into the client's dataport
\* than it has room for, whatever the control thread adds during the call.
EventsFit == rpc.count <= rpc.max

\* Who owns a handle.
Owner == [h \in Handles |-> IF InUse(h) THEN sockets[h].clientId ELSE NoClient]

Service == INSTANCE HandleService WITH Nobody <- NoClient, owner <- Owner

\* The socket table implements the abstract handle service: create and accept
\* acquire handles for one client within its quota, close releases them, and
\* nothing else that any thread does changes who owns a handle.
ServiceSpec == Service!Spec

\* What a handle holds, and what can be accepted from it.
Holding == [h \in Handles |-> IF InUse(h) THEN sockets[h].impl ELSE NoSock]

Backlog ==
    [h \in Handles |-> IF InUse(h) /\ sockets[h].impl # NoSock
                       THEN Acceptable(sockets[h].impl) ELSE {}]

Accepting == INSTANCE AcceptService
    WITH Connections <- PicoSockets, Nobody <- NoClient, NoConnection <- NoSock,
         owner <- Owner, held <- Holding, waiting <- Backlog

\* The socket layer implements the abstract service of connections: each that
\* arrives is handed out at most once, to the client that owns the listening
\* socket it arrived at, and a handle keeps the connection it was given until
\* it is released -- over the whole way through accept, close and the
\* callback, whatever the peers do in between.
AcceptSpec == Accepting!Spec

\* The converse of ConnectedMeansEstablished: once the callback has returned,
\* an established connection with a handle passes CHECK_SOCKET_CONNECTED, so
\* that what the peer has sent can be read.
EstablishedMeansConnected ==
    \A h \in Handles :
        /\ InUse(h) /\ sockets[h].impl # NoSock
        /\ ~(ctl.pc = "event" /\ ctl.h = h)
        /\ pico[sockets[h].impl].state \in {"estab", "closewait"}
        => sockets[h].connected

\* CONN_ACPT is set exactly while pendingConnections is positive.  A
\* connection that dies before it is accepted stays counted; its announcement
\* is withdrawn by the accept that finds nothing, and never too early.
AnnouncementCounted ==
    \A h \in Handles :
        InUse(h) /\ ~(ctl.pc = "event" /\ ctl.h = h) =>
            ("CONN_ACPT" \in sockets[h].eventMask <=> sockets[h].pending > 0)

\* A handle never stays behind on a pico socket that is being shut down:
\* between pico_socket_close() and free_handle there is only the rest of the
\* same close call, whether picoTCP reports an error or not.
ClosedIsReleased ==
    \A h \in Handles :
        /\ InUse(h) /\ sockets[h].impl # NoSock
        /\ pico[sockets[h].impl].state = "closing"
        => rpc.pc = "free" /\ rpc.h = h

\* An event that is recorded for a socket in use is withdrawn only by a call:
\* getPendingEvents takes what only informs the client, accept takes the
\* announcement with the last connection, close takes CLOSE, and the unlocked
\* update at the end of read and recvfrom takes whatever it does not see.
\* The callback stores a mask it loaded earlier, and still loses nothing.
EventsKept ==
    [][\A h \in Handles :
          InUse(h) /\ sockets'[h].status = "IN_USE" =>
            \A e \in sockets[h].eventMask \ sockets'[h].eventMask :
                \/ rpc.pc = "store" /\ rpc.h = h
                \/ rpc.pc = "visit" /\ e \in {"CONN_EST", "WRITE", "ERROR"}
                \/ /\ rpc.pc = "locked" /\ rpc.op = "accept" /\ rpc.h = h
                   /\ e = "CONN_ACPT" /\ sockets'[h].pending = 0
                \/ /\ rpc.pc = "locked" /\ rpc.op = "close" /\ rpc.h = h
                   /\ e = "CLOSE"]_vars

\* The entries that getPendingEvents has still to visit in this call.
Left(c) ==
    IF clients[c].tail > clients[c].head
    THEN clients[c].tail - clients[c].head
    ELSE NumSockets + clients[c].tail - clients[c].head

\* The loop of getPendingEvents ends: each round that goes on leaves fewer
\* entries to visit, and none is skipped, whatever limit the client gives
\* and whatever the control thread changes meanwhile.
RoundsEnd ==
    [][\A c \in Clients :
          /\ rpc.client = c /\ rpc'.client = c
          /\ rpc.pc \in {"visit", "advance"} /\ rpc'.pc = "visit"
          /\ clients'[c].head # clients[c].head
          => Left(c)' = Left(c) - 1 /\ Left(c)' > 0]_vars

-----------------------------------------------------------------------------
(* Liveness.                                                               *)

\* seL4 schedules both threads and its mutexes serve waiting threads in
\* turn; picoTCP ends every tick.
ThreadFairness ==
    /\ WF_vars(CtlStep)
    /\ SF_vars(TickDone)
    /\ SF_vars(CtlLock)
    /\ SF_vars(RpcStep)

\* The ticker and the NIC driver may be silent for ever.
SilentSpec == Spec /\ ThreadFairness

\* The ticker emits the loop event once a second.
TickerFairness == WF_vars(TickOrData)

\* A client that has been notified calls getPendingEvents again, with some
\* limit of its choice.
ClientFairness ==
    \A c \in Clients :
        SF_vars(/\ notified[c]
                /\ \E max \in 1..NumSockets : CallGetPendingEvents(c, max))

FairSpec == Spec /\ ThreadFairness /\ TickerFairness /\ ClientFairness

HasPending(c) == \E h \in Handles : InUse(h) /\ HasEvents(c, h)

Faulted == ctl.pc = "fault"

\* Every call returns, unless the control thread has faulted.
CallsReturn == rpc.pc # "idle" ~> (rpc.pc = "idle" \/ Faulted)

\* An event is reported to its client: whatever limit the client uses in its
\* calls, the round robin over the table reaches every socket.
EventsReported ==
    \A h \in Handles :
        (InUse(h) /\ "WRITE" \in sockets[h].eventMask) ~>
            ("WRITE" \notin sockets[h].eventMask \/ Faulted)

\* A client with pending events is notified, and is notified again as long as
\* it leaves them pending.  needsToBeNotified is written by both threads
\* without a lock, so a store to it can be lost; the search through the table
\* makes up for it.
EventsSignalled ==
    \A c \in Clients :
        HasPending(c) ~> (notified[c] \/ ~HasPending(c) \/ Faulted)

\* What a call leaves for picoTCP to do is taken up without the help of the
\* ticker: the control thread starts over after the close of a pico socket,
\* and after a read that has found a queue empty, also when their wake-up
\* comes while it is still at work on the last one.
WorkTakenUp ==
    Locked("close") \/ (rpc.pc = "store" /\ rpc.notify) ~>
        ctl.pc = "lock" \/ Faulted

-----------------------------------------------------------------------------
(* What comments of the code say, and the code does not keep.              *)

\* network_stack_pico.c:330: after FIN the implementation_socket "will be
\* freed automatically and may not be accessed any more".
NoCallOnFreedSocket ==
    rpc.pc = "locked" /\ rpc.op # "create" => Alive(rpc.impl)

\* network_stack_pico.c:869: "No further data available in the queue."  The
\* READ event is cleared on that ground.
ClearedWhenDrained ==
    [][\A h \in Handles :
          /\ rpc.notify
          /\ "READ" \in sockets[h].eventMask
          /\ "READ" \notin sockets'[h].eventMask
          => pico[sockets[h].impl].rx = 0]_vars

\* network_stack_config.h:47:  the event mask is "written from one thread
\* (control thread) and read from another (RPC thread)", so what the control
\* thread records is not lost: FIN stays until the handle is freed.
FinKept ==
    [][\A h \in Handles :
          /\ InUse(h) /\ "FIN" \in sockets[h].eventMask
          /\ sockets'[h].status = "IN_USE"
          => "FIN" \in sockets'[h].eventMask]_vars

\* network_stack_pico.c:234: there is no handle for a connection on which
\* accept was not called yet.
UnacceptedHasNoHandle ==
    \A a \in PicoSockets : pico[a].parent # NoSock => NoHandleFound(a)

\* network_stack_pico.c:236: there is no handle for a socket on which close
\* was called, so the callback always finds a client.
CallbackFindsClient == ~Faulted
=============================================================================
