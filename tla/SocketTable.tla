---------------------------- MODULE SocketTable ----------------------------
(***************************************************************************)
(* The socket table and the client table of network_stack_core.c: the      *)
(* static arrays behind "instance.sockets" and "instance.clients", and     *)
(* the functions that look up, reserve and free their entries.             *)
(*                                                                         *)
(* A handle is an index of the socket table.  Clients are the entries of   *)
(* the client table that are in use; the value NoClient stands for every   *)
(* clientId that no client has (0 at start, -1 after free_handle).  Fields *)
(* no property tells apart are left out: current_error, buf_io, buf.       *)
(***************************************************************************)
EXTENDS PicoTcp

CONSTANTS
    Clients,       \* the clients connected to the component
    NoClient,
    NumSockets,    \* OS_NETWORK_MAXIMUM_SOCKET_NO
    Quota,         \* socketQuota of each client
    MaxPending     \* bound: pendingConnections of one socket

ASSUME NoClientAssumption == NoClient \notin Clients
ASSUME NumSocketsAssumption == NumSockets \in Nat \ {0}
ASSUME QuotaAssumption == Quota \in [Clients -> Nat]
ASSUME MaxPendingAssumption == MaxPending \in Nat \ {0}

VARIABLES
    sockets,       \* instance.sockets
    clients        \* instance.clients

Handles == 0 .. NumSockets - 1

\* OS_SOCK_EV_*
EventBits == {"CONN_EST", "CONN_ACPT", "READ", "WRITE", "CLOSE", "FIN", "ERROR"}

SocketRecord ==
    [status       : {"FREE", "IN_USE"},
     impl         : PicoSockets \cup {NoSock},
     parentHandle : {-1} \cup Handles,
     eventMask    : SUBSET EventBits,
     pending      : 0..MaxPending,
     connected    : BOOLEAN,
     clientId     : Clients \cup {NoClient},
     socketType   : {"NONE", "STREAM", "DGRAM"}]

ClientRecord ==
    [needsToBeNotified   : BOOLEAN,
     currentSocketsInUse : Int,
     head                : Handles,
     tail                : Handles]

TableTypeOK ==
    /\ sockets \in [Handles -> SocketRecord]
    /\ clients \in [Clients -> ClientRecord]

\* The arrays are static and therefore zeroed; initializeNetworkStack()
\* then fills in the client entries.
ZeroSocket ==
    [status |-> "FREE", impl |-> NoSock, parentHandle |-> 0, eventMask |-> {},
     pending |-> 0, connected |-> FALSE, clientId |-> NoClient,
     socketType |-> "NONE"]

NewClient ==
    [needsToBeNotified |-> FALSE, currentSocketsInUse |-> 0,
     head |-> 0, tail |-> 0]

TableInit ==
    /\ sockets = [h \in Handles |-> ZeroSocket]
    /\ clients = [c \in Clients |-> NewClient]

-----------------------------------------------------------------------------
(* Look-ups.                                                               *)

SocketsOf(c) ==
    {h \in Handles : sockets[h].status = "IN_USE" /\ sockets[h].clientId = c}

\* get_handle_from_implementation_socket(a) returns h: the first entry that
\* holds the address.  The status of the entry is not looked at.
HandleFound(a, h) ==
    /\ sockets[h].impl = a
    /\ \A g \in Handles : sockets[g].impl = a => h <= g

NoHandleFound(a) == \A h \in Handles : sockets[h].impl # a

-----------------------------------------------------------------------------
(* reserve_handle                                                          *)

\* Fault: the quota test is off by one.
ReservableOffByOne(c, h) ==
    /\ clients[c].currentSocketsInUse <= Quota[c]
    /\ sockets[h].status = "FREE"
    /\ \A g \in Handles : sockets[g].status = "FREE" => h <= g

\* A client below its quota gets the free entry with the lowest index.
Reservable(c, h) ==
    /\ clients[c].currentSocketsInUse < Quota[c]
    /\ sockets[h].status = "FREE"
    /\ \A g \in Handles : sockets[g].status = "FREE" => h <= g

\* reserve_handle returns -1.
CannotReserve(c) ==
    \/ clients[c].currentSocketsInUse >= Quota[c]
    \/ \A h \in Handles : sockets[h].status # "FREE"

\* The entry as reserve_handle leaves it.  It writes every field except
\* eventMask, which keeps what free_handle (or the program start) left.
ReservedEntry(h, a, c) ==
    [sockets[h] EXCEPT !.status = "IN_USE", !.impl = a, !.parentHandle = -1,
                       !.clientId = c, !.pending = 0, !.socketType = "NONE",
                       !.connected = FALSE]

CountUp(c) ==
    [clients EXCEPT ![c].currentSocketsInUse = @ + 1]

-----------------------------------------------------------------------------
(* free_handle.  It holds only the socketCB mutex, which the control       *)
(* thread never takes, so the control thread can run between its writes.   *)
(* They are cut in two where the control thread can tell: before and after *)
(* the entry loses its clientId.                                           *)

\* Fault: the counter is not given back.
CountDownForgotten(c) == clients

CountDown(c) ==
    [clients EXCEPT ![c].currentSocketsInUse = @ - 1]

HalfFreedEntry(h) ==
    [sockets[h] EXCEPT !.status = "FREE", !.impl = NoSock, !.parentHandle = -1]

\* Fault: the events are not reset.
FreedEntryKeepsEvents(h) ==
    [sockets[h] EXCEPT !.clientId = NoClient, !.pending = 0,
                       !.socketType = "NONE", !.connected = FALSE]

FreedEntry(h) ==
    [sockets[h] EXCEPT !.clientId = NoClient, !.pending = 0, !.eventMask = {},
                       !.socketType = "NONE", !.connected = FALSE]
=============================================================================
