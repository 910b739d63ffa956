---------------------------- MODULE SocketLayer ----------------------------
(***************************************************************************)
(* The socket API of the network stack component: two threads over the     *)
(* socket table and over picoTCP.                                          *)
(*                                                                         *)
(*  - The RPC thread serves networkStack_rpc_socket_*().  There is one     *)
(*    thread for the interface, so calls of all clients are serialised.    *)
(*    Each call checks its arguments and the FIN event and copies the pico *)
(*    socket pointer WITHOUT a lock, then calls picoTCP under the          *)
(*    stackThreadSafe mutex, then (read, recvfrom, close) updates the      *)
(*    socket table WITHOUT that mutex.                                     *)
(*  - The control thread runs NetworkStack_run(): wait for the loop event, *)
(*    take the mutex, let picoTCP process a tick -- which calls            *)
(*    handle_pico_socket_event() -- notify the clients, release the mutex. *)
(*                                                                         *)
(* What the RPC thread does while it holds the mutex is one action, since  *)
(* the control thread touches shared state only with the mutex.  Outside   *)
(* the mutex every read-modify-write of an event mask is two actions.      *)
(*                                                                         *)
(* A call that fails an argument check changes nothing and has no action.  *)
(* The component is RUNNING (CHECK_IS_RUNNING succeeds).                   *)
(***************************************************************************)
EXTENDS SocketTable

CONSTANTS
    Ops,             \* the operations the clients call
    SocketTypes,     \* the socket types they create
    ReuseAddresses   \* may the heap reuse an address a table entry still holds?

ASSUME SocketTypesAssumption == SocketTypes \subseteq {"STREAM", "DGRAM"}
ASSUME ReuseAssumption == ReuseAddresses \in BOOLEAN

VARIABLES
    ts,          \* stackThreadSafeMutex: "none", "rpc" or "ctl"
    loopEvent,   \* event_tick_or_data: a binary notification
    notified,    \* networkStack_<i>_event_notify of each client: binary, too
    rpc,         \* the RPC thread: program counter, call and locals
    ctl          \* the control thread

vars == <<pico, sockets, clients, ts, loopEvent, notified, rpc, ctl>>

StreamOps    == {"connect", "listen", "accept", "write", "read"}
DgramOps     == {"sendto", "recvfrom"}
ConnectedOps == {"write", "read"}
SocketOps    == StreamOps \cup DgramOps \cup {"bind", "close"}

IdleRpc == [pc |-> "idle", op |-> "none", client |-> NoClient, h |-> -1,
            impl |-> NoSock, val |-> {}, notify |-> FALSE,
            max |-> 0, count |-> 0]

IdleCtl == [pc |-> "wait", h |-> -1, val |-> {}, bits |-> {},
            client |-> NoClient, todo |-> {}]

RpcRecord ==
    [pc     : {"idle", "lock", "locked", "clear", "store", "free", "freeing",
               "visit", "advance"},
     op     : SocketOps \cup {"create", "getPendingEvents", "none"},
     client : Clients \cup {NoClient},
     h      : {-1} \cup Handles,
     impl   : PicoSockets \cup {NoSock},
     val    : SUBSET EventBits,
     notify : BOOLEAN,
     max    : 0..NumSockets,
     count  : 0..NumSockets]

CtlRecord ==
    [pc     : {"wait", "lock", "tick", "event", "notify", "emitted", "fault"},
     h      : {-1} \cup Handles,
     val    : SUBSET EventBits,
     bits   : SUBSET EventBits,
     client : Clients \cup {NoClient},
     todo   : SUBSET Clients]

\* The type invariant.
TypeOK ==
    /\ PicoTypeOK
    /\ TableTypeOK
    /\ ts \in {"none", "rpc", "ctl"}
    /\ loopEvent \in BOOLEAN
    /\ notified \in [Clients -> BOOLEAN]
    /\ rpc \in RpcRecord
    /\ ctl \in CtlRecord

Init ==
    /\ PicoInit
    /\ TableInit
    /\ ts = "none"
    /\ loopEvent = FALSE
    /\ notified = [c \in Clients |-> FALSE]
    /\ rpc = IdleRpc
    /\ ctl = IdleCtl

-----------------------------------------------------------------------------
(* The RPC thread: entering a call.                                        *)

\* Fault: no CHECK_CLIENT_ID.
AdmitsAnyClient(c, op, h) ==
    /\ op \in StreamOps => sockets[h].socketType = "STREAM"
    /\ op \in DgramOps => sockets[h].socketType = "DGRAM"
    /\ op \in ConnectedOps => sockets[h].connected
    /\ sockets[h].clientId # NoClient

\* The checks of networkStack_rpc_socket_<op>() before it calls the pico
\* layer.  connected only ever becomes TRUE and FIN only ever becomes set
\* under the control thread, so testing them in one step loses no order.
Admits(c, op, h) ==
    /\ op \in StreamOps => sockets[h].socketType = "STREAM"
    /\ op \in DgramOps => sockets[h].socketType = "DGRAM"
    /\ op \in ConnectedOps => sockets[h].connected
    /\ sockets[h].clientId = c

\* networkStack_rpc_socket_create()
CallCreate(c) ==
    /\ rpc.pc = "idle"
    /\ "create" \in Ops
    /\ rpc' = [IdleRpc EXCEPT !.pc = "lock", !.op = "create", !.client = c]
    /\ UNCHANGED <<pico, sockets, clients, ts, loopEvent, notified, ctl>>

\* Any call on an existing socket.  The FIN event is tested and the pico
\* socket pointer is read here, before the mutex is taken.
CallOnSocket(c, op, h) ==
    /\ rpc.pc = "idle"
    /\ op \in Ops
    /\ Admits(c, op, h)
    /\ "FIN" \notin sockets[h].eventMask
    /\ sockets[h].impl # NoSock
    /\ rpc' = [IdleRpc EXCEPT !.pc = "lock", !.op = op, !.client = c, !.h = h,
                              !.impl = sockets[h].impl]
    /\ UNCHANGED <<pico, sockets, clients, ts, loopEvent, notified, ctl>>

\* close() of a socket that has seen FIN does not call picoTCP any more.
CallCloseAfterFin(c, h) ==
    /\ rpc.pc = "idle"
    /\ "close" \in Ops
    /\ Admits(c, "close", h)
    /\ "FIN" \in sockets[h].eventMask
    /\ rpc' = [IdleRpc EXCEPT !.pc = "free", !.op = "close", !.client = c,
                              !.h = h]
    /\ UNCHANGED <<pico, sockets, clients, ts, loopEvent, notified, ctl>>

\* internal_network_stack_thread_safety_mutex_lock()
RpcLock ==
    /\ rpc.pc = "lock"
    /\ ts = "none"
    /\ ts' = "rpc"
    /\ rpc' = [rpc EXCEPT !.pc = "locked"]
    /\ UNCHANGED <<pico, sockets, clients, loopEvent, notified, ctl>>

-----------------------------------------------------------------------------
(* The RPC thread: what each operation does under the mutex, up to and     *)
(* including the unlock.                                                   *)

Locked(op) == rpc.pc = "locked" /\ rpc.op = op

\* Unlock and go on with the call as given by next; notify says whether
\* internal_notify_main_loop() is called.
Unlock(next, notify) ==
    /\ ts' = "none"
    /\ rpc' = next
    /\ loopEvent' = (loopEvent \/ notify)
    /\ UNCHANGED <<notified, ctl>>

\* An address malloc() may return for a new pico socket.
Available(a) ==
    /\ ~Alive(a)
    /\ ReuseAddresses \/ NoHandleFound(a)

\* Fault: the error path returns with the mutex held.
CreateFailsLocked ==
    /\ Locked("create")
    /\ rpc' = IdleRpc
    /\ UNCHANGED <<pico, sockets, clients, ts, loopEvent, notified, ctl>>

\* network_stack_pico_socket_create()
CreateFails ==
    /\ Locked("create")
    /\ Unlock(IdleRpc, FALSE)
    /\ UNCHANGED <<pico, sockets, clients>>

Create(a, h, type) ==
    /\ Locked("create")
    /\ Available(a)
    /\ Reservable(rpc.client, h)
    /\ pico' = PicoOpen(a, type)
    /\ sockets' = [sockets EXCEPT ![h] =
            [ReservedEntry(h, a, rpc.client) EXCEPT !.socketType = type]]
    /\ clients' = CountUp(rpc.client)
    /\ Unlock(IdleRpc, FALSE)

\* No handle: the pico socket is closed again.
CreateRefused(a, type) ==
    /\ Locked("create")
    /\ Available(a)
    /\ CannotReserve(rpc.client)
    /\ pico' = [PicoOpen(a, type) EXCEPT ![a].state = "closing"]
    /\ Unlock(IdleRpc, TRUE)
    /\ UNCHANGED <<sockets, clients>>

\* Fault: the call returns when picoTCP reports an error.
CloseMayReturn ==
    /\ Locked("close")
    /\ pico' = PicoClose(rpc.impl)
    /\ sockets' = [sockets EXCEPT ![rpc.h].eventMask = @ \ {"CLOSE"}]
    /\ \E failed \in BOOLEAN :
            Unlock(IF failed THEN IdleRpc ELSE [rpc EXCEPT !.pc = "free"], TRUE)
    /\ UNCHANGED clients

\* network_stack_pico_socket_close(): whether picoTCP reports an error or
\* not, the handle is freed next.
Close ==
    /\ Locked("close")
    /\ pico' = PicoClose(rpc.impl)
    /\ sockets' = [sockets EXCEPT ![rpc.h].eventMask = @ \ {"CLOSE"}]
    /\ Unlock([rpc EXCEPT !.pc = "free"], TRUE)
    /\ UNCHANGED clients

\* network_stack_pico_socket_connect() and _listen()
ConnectOrListen(op, state) ==
    /\ Locked(op)
    /\ pico' \in PicoTurn(rpc.impl, state)
    /\ Unlock(IdleRpc, pico' # pico)
    /\ UNCHANGED <<sockets, clients>>

\* Fault: the socket counts as connected as soon as connect() was called.
ConnectEager ==
    /\ Locked("connect")
    /\ pico' \in PicoTurn(rpc.impl, "synsent")
    /\ sockets' = [sockets EXCEPT ![rpc.h].connected = TRUE]
    /\ Unlock(IdleRpc, pico' # pico)
    /\ UNCHANGED clients

Connect == ConnectOrListen("connect", "synsent")
Listen  == ConnectOrListen("listen", "listen")

\* network_stack_pico_socket_bind(), _write() and _sendto(): beyond
\* current_error, what they change is inside picoTCP.
PlainCall(op) ==
    /\ Locked(op)
    /\ \E success \in BOOLEAN : Unlock(IdleRpc, success)
    /\ UNCHANGED <<pico, sockets, clients>>

Bind   == PlainCall("bind")
Write  == PlainCall("write")
SendTo == PlainCall("sendto")

\* Fault: every accept clears the event, also when connections are left.
AcceptedFromClears(h) ==
    [sockets[h] EXCEPT !.pending = IF @ > 0 THEN @ - 1 ELSE 0,
                       !.eventMask = @ \ {"CONN_ACPT"}]

\* Fault: the count is tested before it is taken down.
AcceptedFromLate(h) ==
    [sockets[h] EXCEPT
        !.pending = IF @ > 0 THEN @ - 1 ELSE 0,
        !.eventMask = IF sockets[h].pending = 0 THEN @ \ {"CONN_ACPT"} ELSE @]

\* network_stack_pico_socket_accept(): the listening socket's entry after
\* the call of pico_socket_accept(), whatever it returned.
AcceptedFrom(h) ==
    LET left == IF sockets[h].pending > 0 THEN sockets[h].pending - 1 ELSE 0
    IN  [sockets[h] EXCEPT
            !.pending = left,
            !.eventMask = IF left = 0 THEN @ \ {"CONN_ACPT"} ELSE @]

AcceptNone ==
    /\ Locked("accept")
    /\ Acceptable(rpc.impl) = {}
    /\ sockets' = [sockets EXCEPT ![rpc.h] = AcceptedFrom(rpc.h)]
    /\ Unlock(IdleRpc, TRUE)
    /\ UNCHANGED <<pico, clients>>

\* Fault: the new entry gets the listening socket.
AcceptOfListener(b, h) ==
    /\ Locked("accept")
    /\ b \in Acceptable(rpc.impl)
    /\ Reservable(rpc.client, h)
    /\ pico' = PicoAccept(b)
    /\ sockets' = [sockets EXCEPT
            ![rpc.h] = AcceptedFrom(rpc.h),
            ![h] = [ReservedEntry(h, rpc.impl, rpc.client) EXCEPT
                        !.parentHandle = rpc.h,
                        !.clientId = sockets[rpc.h].clientId,
                        !.socketType = "STREAM", !.connected = TRUE]]
    /\ clients' = CountUp(rpc.client)
    /\ Unlock(IdleRpc, FALSE)

Accept(b, h) ==
    /\ Locked("accept")
    /\ b \in Acceptable(rpc.impl)
    /\ Reservable(rpc.client, h)
    /\ pico' = PicoAccept(b)
    /\ sockets' = [sockets EXCEPT
            ![rpc.h] = AcceptedFrom(rpc.h),
            ![h] = [ReservedEntry(h, b, rpc.client) EXCEPT
                        !.parentHandle = rpc.h,
                        !.clientId = sockets[rpc.h].clientId,
                        !.socketType = "STREAM", !.connected = TRUE]]
    /\ clients' = CountUp(rpc.client)
    /\ Unlock(IdleRpc, FALSE)

\* Fault: without a handle the new connection is not closed.
AcceptRefusedLeaks(b) ==
    /\ Locked("accept")
    /\ b \in Acceptable(rpc.impl)
    /\ CannotReserve(rpc.client)
    /\ pico' = PicoAccept(b)
    /\ sockets' = [sockets EXCEPT ![rpc.h] = AcceptedFrom(rpc.h)]
    /\ Unlock(IdleRpc, FALSE)
    /\ UNCHANGED clients

\* No handle for the new connection: it is closed.
AcceptRefused(b) ==
    /\ Locked("accept")
    /\ b \in Acceptable(rpc.impl)
    /\ CannotReserve(rpc.client)
    /\ pico' = [PicoAccept(b) EXCEPT ![b].state = "closing"]
    /\ sockets' = [sockets EXCEPT ![rpc.h] = AcceptedFrom(rpc.h)]
    /\ Unlock(IdleRpc, FALSE)
    /\ UNCHANGED clients

\* network_stack_pico_socket_read() and _recvfrom(): the call of picoTCP.
\* The READ event is cleared afterwards, when the mutex is released.
ThenClear(notify) == [rpc EXCEPT !.pc = "clear", !.notify = notify]

ReadFails(op) ==
    /\ Locked(op)
    /\ pico[rpc.impl].rx = 0 \/ pico[rpc.impl].state = "closing"
    /\ Unlock(ThenClear(FALSE), FALSE)
    /\ UNCHANGED <<pico, sockets, clients>>

ReadEmpty(op) ==
    /\ Locked(op)
    /\ pico[rpc.impl].rx = 0
    /\ Unlock(ThenClear(TRUE), FALSE)
    /\ UNCHANGED <<pico, sockets, clients>>

\* read() of len data units; a short read means that the queue is drained.
ReadSome(len) ==
    LET rx == pico[rpc.impl].rx IN
    /\ Locked("read")
    /\ rx > 0
    /\ pico' = PicoTake(rpc.impl, IF len < rx THEN len ELSE rx)
    /\ Unlock(IF len > rx THEN ThenClear(FALSE) ELSE IdleRpc, FALSE)
    /\ UNCHANGED <<sockets, clients>>

\* recvfrom() takes one datagram and leaves the READ event alone.
RecvFromSome ==
    /\ Locked("recvfrom")
    /\ pico[rpc.impl].rx > 0
    /\ pico' = PicoTake(rpc.impl, 1)
    /\ Unlock(IdleRpc, FALSE)
    /\ UNCHANGED <<sockets, clients>>

-----------------------------------------------------------------------------
(* The RPC thread: what is left to do after the unlock.                    *)

\* socket->eventMask &= ~OS_SOCK_EV_READ, without a lock: load ...
ClearLoad ==
    /\ rpc.pc = "clear"
    /\ rpc' = [rpc EXCEPT !.pc = "store", !.val = sockets[rpc.h].eventMask]
    /\ UNCHANGED <<pico, sockets, clients, ts, loopEvent, notified, ctl>>

\* ... and store.
ClearStore ==
    /\ rpc.pc = "store"
    /\ sockets' = [sockets EXCEPT ![rpc.h].eventMask = rpc.val \ {"READ"}]
    /\ loopEvent' = (loopEvent \/ rpc.notify)
    /\ rpc' = IdleRpc
    /\ UNCHANGED <<pico, clients, ts, notified, ctl>>

\* free_handle()
FreeHandle ==
    /\ rpc.pc = "free"
    /\ clients' = CountDown(rpc.client)
    /\ sockets' = [sockets EXCEPT ![rpc.h] = HalfFreedEntry(rpc.h)]
    /\ rpc' = [rpc EXCEPT !.pc = "freeing"]
    /\ UNCHANGED <<pico, ts, loopEvent, notified, ctl>>

FreeHandleRest ==
    /\ rpc.pc = "freeing"
    /\ sockets' = [sockets EXCEPT ![rpc.h] = FreedEntry(rpc.h)]
    /\ rpc' = IdleRpc
    /\ UNCHANGED <<pico, clients, ts, loopEvent, notified, ctl>>

-----------------------------------------------------------------------------
(* The RPC thread: networkStack_rpc_socket_getPendingEvents().             *)

\* Fault: every call starts at the first entry instead of where the last one
\* stopped.
CallGetPendingEventsRestarts(c, max) ==
    /\ rpc.pc = "idle"
    /\ "getPendingEvents" \in Ops
    /\ notified' = [notified EXCEPT ![c] = FALSE]
    /\ clients' = [clients EXCEPT ![c].head = 0, ![c].tail = 0]
    /\ rpc' = [IdleRpc EXCEPT !.pc = "visit", !.op = "getPendingEvents",
                              !.client = c, !.max = max]
    /\ UNCHANGED <<pico, sockets, ts, loopEvent, ctl>>

\* A client asks for at most max events; it has picked up its notification.
CallGetPendingEvents(c, max) ==
    /\ rpc.pc = "idle"
    /\ "getPendingEvents" \in Ops
    /\ notified' = [notified EXCEPT ![c] = FALSE]
    /\ rpc' = [IdleRpc EXCEPT !.pc = "visit", !.op = "getPendingEvents",
                              !.client = c, !.max = max]
    /\ UNCHANGED <<pico, sockets, clients, ts, loopEvent, ctl>>

HasEvents(c, h) == sockets[h].clientId = c /\ sockets[h].eventMask # {}

\* Fault: head is not wrapped around.
NextIndexNoWrap(i) == i + 1

NextIndex(i) == IF i + 1 = NumSockets THEN 0 ELSE i + 1

\* Fault: the room in the dataport is not looked at.
GoesOnUnbounded(next) == next # clients[rpc.client].tail

\* The loop goes on until it is back at tail or has max events.
GoesOn(next) ==
    next # clients[rpc.client].tail /\ rpc.count < rpc.max

\* One round of the loop ends.  When it is the last one and sockets are left
\* the client is to be notified again.
Advance ==
    LET c    == rpc.client
        next == NextIndex(clients[c].head)
    IN  IF GoesOn(next)
        THEN /\ clients' = [clients EXCEPT ![c].head = next]
             /\ rpc' = [rpc EXCEPT !.pc = "visit"]
        ELSE /\ clients' = [clients EXCEPT
                    ![c].head = next,
                    ![c].tail = next,
                    ![c].needsToBeNotified =
                        IF rpc.count >= rpc.max /\ next # clients[c].tail
                        THEN TRUE ELSE @]
             /\ rpc' = IdleRpc

VisitQuiet ==
    /\ rpc.pc = "visit"
    /\ ~HasEvents(rpc.client, clients[rpc.client].head)
    /\ Advance
    /\ UNCHANGED <<pico, sockets, ts, loopEvent, notified, ctl>>

\* The event is copied, and the bits that only inform the client are
\* cleared, under the mutex.
VisitPending ==
    LET h == clients[rpc.client].head IN
    /\ rpc.pc = "visit"
    /\ HasEvents(rpc.client, h)
    /\ ts = "none"
    /\ sockets' = [sockets EXCEPT ![h].eventMask =
                        @ \ {"CONN_EST", "WRITE", "ERROR"}]
    /\ rpc' = [rpc EXCEPT !.pc = "advance", !.count = @ + 1]
    /\ UNCHANGED <<pico, clients, ts, loopEvent, notified, ctl>>

AfterPending ==
    /\ rpc.pc = "advance"
    /\ Advance
    /\ UNCHANGED <<pico, sockets, ts, loopEvent, notified, ctl>>

RpcCritical ==
    \/ CreateFails
    \/ \E a \in PicoSockets, type \in SocketTypes :
            CreateRefused(a, type) \/ \E h \in Handles : Create(a, h, type)
    \/ Close
    \/ Connect
    \/ Listen
    \/ Bind \/ Write \/ SendTo
    \/ AcceptNone
    \/ \E b \in PicoSockets :
            AcceptRefused(b) \/ \E h \in Handles : Accept(b, h)
    \/ \E op \in {"read", "recvfrom"} : ReadFails(op) \/ ReadEmpty(op)
    \/ \E len \in 1..MaxRx + 1 : ReadSome(len)
    \/ RecvFromSome

\* The steps of a call that has been made.
RpcStep ==
    \/ RpcLock
    \/ RpcCritical
    \/ ClearLoad \/ ClearStore
    \/ FreeHandle \/ FreeHandleRest
    \/ VisitQuiet \/ VisitPending \/ AfterPending

ClientCall ==
    \E c \in Clients :
        \/ CallCreate(c)
        \/ \E h \in Handles, op \in SocketOps : CallOnSocket(c, op, h)
        \/ \E h \in Handles : CallCloseAfterFin(c, h)
        \/ \E max \in 1..NumSockets : CallGetPendingEvents(c, max)

-----------------------------------------------------------------------------
(* The control thread: NetworkStack_run().                                 *)

\* The ticker (once a second) or the NIC driver emits the loop event.
TickOrData ==
    /\ ~loopEvent
    /\ loopEvent' = TRUE
    /\ UNCHANGED <<pico, sockets, clients, ts, notified, rpc, ctl>>

\* wait_network_event()
CtlWait ==
    /\ ctl.pc = "wait"
    /\ loopEvent
    /\ loopEvent' = FALSE
    /\ ctl' = [ctl EXCEPT !.pc = "lock"]
    /\ UNCHANGED <<pico, sockets, clients, ts, notified, rpc>>

CtlLock ==
    /\ ctl.pc = "lock"
    /\ ts = "none"
    /\ ts' = "ctl"
    /\ ctl' = [ctl EXCEPT !.pc = "tick"]
    /\ UNCHANGED <<pico, sockets, clients, loopEvent, notified, rpc>>

\* The OS events handle_pico_socket_event() derives from its arguments.
OsEvents(mask, refused, listening) ==
    (IF "CONN" \in mask THEN {IF listening THEN "CONN_ACPT" ELSE "CONN_EST"}
                        ELSE {})
    \cup (IF "RD" \in mask THEN {"READ"} ELSE {})
    \cup (IF "WR" \in mask THEN {"WRITE"} ELSE {})
    \cup (IF "CLOSE" \in mask THEN {"CLOSE"} ELSE {})
    \cup (IF "FIN" \in mask THEN {"FIN"} ELSE {})
    \cup (IF "ERR" \in mask THEN {"ERROR"} ELSE {})
    \cup (IF "ERR" \in mask /\ refused THEN {"FIN"} ELSE {})

\* handle_pico_socket_event() for a pico socket that entry h holds: the
\* handle is found and the event mask loaded.  Nothing stops the RPC thread
\* from freeing the entry before the callback goes on.
Callback(h, bits) ==
    ctl' = [ctl EXCEPT !.pc = "event", !.h = h,
                       !.val = sockets[h].eventMask, !.bits = bits]

\* The tick brings event e for the socket at address a.
EventBegin(a, e, h) ==
    /\ ctl.pc = "tick"
    /\ CanHappen(a, e)
    /\ HandleFound(a, h)
    /\ pico' = PicoAfter(a, e)
    /\ Callback(h, OsEvents(e.mask, e.refused, FALSE))
    /\ UNCHANGED <<sockets, clients, ts, loopEvent, notified, rpc>>

\* Without a handle the callback only closes a connection that the peer has
\* closed before it was accepted.
EventNoHandle(a, e) ==
    /\ ctl.pc = "tick"
    /\ CanHappen(a, e)
    /\ NoHandleFound(a)
    /\ pico' = IF e.to = "closewait" THEN PicoClose(a) ELSE PicoAfter(a, e)
    /\ UNCHANGED <<sockets, clients, ts, loopEvent, notified, rpc, ctl>>

\* A connection arrives at the listening socket l.
EventIncoming(l, b, h) ==
    /\ ctl.pc = "tick"
    /\ "incoming" \in NetEvents
    /\ pico[l].state = "listen"
    /\ Available(b)
    /\ HandleFound(l, h)
    /\ sockets[h].pending < MaxPending
    /\ pico' = PicoIncoming(l, b)
    /\ Callback(h, OsEvents({"CONN"}, FALSE, TRUE))
    /\ UNCHANGED <<sockets, clients, ts, loopEvent, notified, rpc>>

\* Fault: the connection is announced, but not marked as connected.
WithEventsNotConnected(h) ==
    [sockets[h] EXCEPT
        !.eventMask = ctl.val \cup ctl.bits,
        !.pending   = IF "CONN_ACPT" \in ctl.bits THEN @ + 1 ELSE @]

\* Fault: the new events replace the old ones.
WithEventsReplaced(h) ==
    [sockets[h] EXCEPT
        !.eventMask = ctl.bits,
        !.pending   = IF "CONN_ACPT" \in ctl.bits THEN @ + 1 ELSE @,
        !.connected = IF "CONN_EST" \in ctl.bits THEN TRUE ELSE @]

\* The entry after the callback has stored what it derived.
WithEvents(h) ==
    [sockets[h] EXCEPT
        !.eventMask = ctl.val \cup ctl.bits,
        !.pending   = IF "CONN_ACPT" \in ctl.bits THEN @ + 1 ELSE @,
        !.connected = IF "CONN_EST" \in ctl.bits THEN TRUE ELSE @]

\* The rest of the callback: store, then mark the client of the socket.
EventFinish ==
    /\ ctl.pc = "event"
    /\ sockets[ctl.h].clientId # NoClient
    /\ sockets' = [sockets EXCEPT ![ctl.h] = WithEvents(ctl.h)]
    /\ clients' = [clients EXCEPT
                        ![sockets[ctl.h].clientId].needsToBeNotified = TRUE]
    /\ ctl' = [IdleCtl EXCEPT !.pc = "tick"]
    /\ UNCHANGED <<pico, ts, loopEvent, notified, rpc>>

\* get_client_from_clientId() returns NULL for an entry that was freed in
\* the meantime, and the callback writes through that pointer: the control
\* thread faults and stops, with the mutex held.
EventFault ==
    /\ ctl.pc = "event"
    /\ sockets[ctl.h].clientId = NoClient
    /\ sockets' = [sockets EXCEPT ![ctl.h] = WithEvents(ctl.h)]
    /\ ctl' = [ctl EXCEPT !.pc = "fault"]
    /\ UNCHANGED <<pico, clients, ts, loopEvent, notified, rpc>>

\* stack_tick() returns.
TickDone ==
    /\ ctl.pc = "tick"
    /\ ctl' = [ctl EXCEPT !.pc = "notify", !.todo = Clients]
    /\ UNCHANGED <<pico, sockets, clients, ts, loopEvent, notified, rpc>>

\* Fault: the table is not looked through for old events.
MustNotifyFlagOnly(c) == clients[c].needsToBeNotified

\* notify_clients_about_pending_events(): the loop over the clients.
MustNotify(c) ==
    \/ clients[c].needsToBeNotified
    \/ \E h \in Handles : sockets[h].status = "IN_USE" /\ HasEvents(c, h)

SkipClient(c) ==
    /\ ctl.pc = "notify"
    /\ c \in ctl.todo
    /\ ~MustNotify(c)
    /\ ctl' = [ctl EXCEPT !.todo = @ \ {c}]
    /\ UNCHANGED <<pico, sockets, clients, ts, loopEvent, notified, rpc>>

NotifyClient(c) ==
    /\ ctl.pc = "notify"
    /\ c \in ctl.todo
    /\ MustNotify(c)
    /\ notified' = [notified EXCEPT ![c] = TRUE]
    /\ ctl' = [ctl EXCEPT !.pc = "emitted", !.client = c, !.todo = @ \ {c}]
    /\ UNCHANGED <<pico, sockets, clients, ts, loopEvent, rpc>>

\* needsToBeNotified = false comes after the emit, unprotected.
NotifyClear ==
    /\ ctl.pc = "emitted"
    /\ clients' = [clients EXCEPT ![ctl.client].needsToBeNotified = FALSE]
    /\ ctl' = [ctl EXCEPT !.pc = "notify", !.client = NoClient]
    /\ UNCHANGED <<pico, sockets, ts, loopEvent, notified, rpc>>

\* Fault: the wake-ups that came during the tick count as served by it.
CtlUnlockClears ==
    /\ ctl.pc = "notify"
    /\ ctl.todo = {}
    /\ ts' = "none"
    /\ ctl' = IdleCtl
    /\ loopEvent' = FALSE
    /\ UNCHANGED <<pico, sockets, clients, notified, rpc>>

CtlUnlock ==
    /\ ctl.pc = "notify"
    /\ ctl.todo = {}
    /\ ts' = "none"
    /\ ctl' = IdleCtl
    /\ UNCHANGED <<pico, sockets, clients, loopEvent, notified, rpc>>

\* What picoTCP does during a tick.
PicoStep ==
    \E a \in PicoSockets :
        \/ \E e \in PicoEvents :
                EventNoHandle(a, e) \/ \E h \in Handles : EventBegin(a, e, h)
        \/ \E b \in PicoSockets, h \in Handles : EventIncoming(a, b, h)

\* The control thread's own steps.
CtlStep ==
    \/ CtlWait \/ CtlLock
    \/ EventFinish \/ EventFault
    \/ TickDone
    \/ \E c \in Clients : SkipClient(c) \/ NotifyClient(c)
    \/ NotifyClear
    \/ CtlUnlock

Next == ClientCall \/ RpcStep \/ TickOrData \/ PicoStep \/ CtlStep

Spec == Init /\ [][Next]_vars
=============================================================================
