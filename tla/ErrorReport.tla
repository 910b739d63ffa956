---------------------------- MODULE ErrorReport ----------------------------
(***************************************************************************)
(* How an error gets from picoTCP to a client: picoTCP leaves it in the    *)
(* global pico_err, which both threads overwrite; the adaptation           *)
(* translates it with pico_err2os(), returns it and keeps it in the        *)
(* entry's current_error, which getPendingEvents() reports with an event.  *)
(*                                                                         *)
(* picoTCP is EXTERNAL: a call that fails has set pico_err to an error; a  *)
(* call that succeeds, and the work of a tick, may leave anything in it.   *)
(* Of an entry the model keeps current_error and the two events that have  *)
(* to do with errors.                                                      *)
(***************************************************************************)
EXTENDS Integers

CONSTANTS
    Sockets,    \* the entries of the socket table
    NoSocket,
    PicoErrs    \* the values pico_err takes

VARIABLES
    pico_err,
    mutex,      \* the stack mutex: "free", "rpc" or "control"
    sockets,    \* the socket table
    rpc         \* the socket RPC thread

vars == <<pico_err, mutex, sockets, rpc>>

ASSUME ErrAssumption == PicoErrs \subseteq STRING /\ "NOERR" \in PicoErrs

\* pico_err2os(), by the names after PICO_ERR_ and OS_ERROR_.
Err2Os(e) ==
    CASE e = "NOERR"                -> "SUCCESS"
      [] e = "ENOENT"               -> "NOT_FOUND"
      [] e \in {"EIO", "ENXIO"}     -> "IO"
      [] e \in {"EAGAIN", "EBUSY"}  -> "TRY_AGAIN"
      [] e = "ENOMEM"               -> "INSUFFICIENT_SPACE"
      [] e = "EACCESS"              -> "ACCESS_DENIED"
      [] e = "EEXIST"               -> "EXISTS"
      [] e = "EINVAL"               -> "INVALID_PARAMETER"
      [] e = "ENONET"               -> "NETWORK_NO_ROUTE"
      [] e = "EPROTO"               -> "NETWORK_PROTO"
      [] e = "ENOPROTOOPT"          -> "NETWORK_PROTO_OPT_NO_SUPPORT"
      [] e = "EPROTONOSUPPORT"      -> "NETWORK_PROTO_NO_SUPPORT"
      [] e = "EOPNOTSUPP"           -> "NETWORK_OP_NO_SUPPORT"
      [] e = "EADDRINUSE"           -> "NETWORK_ADDR_IN_USE"
      [] e = "EADDRNOTAVAIL"        -> "NETWORK_ADDR_NOT_AVAILABLE"
      [] e = "ENETDOWN"             -> "NETWORK_DOWN"
      [] e = "ENETUNREACH"          -> "NETWORK_UNREACHABLE"
      [] e = "ECONNRESET"           -> "NETWORK_CONN_RESET"
      [] e = "EISCONN"              -> "NETWORK_CONN_ALREADY_BOUND"
      [] e = "ENOTCONN"             -> "NETWORK_CONN_NONE"
      [] e = "ESHUTDOWN"            -> "NETWORK_CONN_SHUTDOWN"
      [] e = "ETIMEDOUT"            -> "TIMEOUT"
      [] e = "ECONNREFUSED"         -> "NETWORK_CONN_REFUSED"
      [] e = "EHOSTDOWN"            -> "NETWORK_HOST_DOWN"
      [] e = "EHOSTUNREACH"         -> "NETWORK_HOST_UNREACHABLE"
      [] e = "EINPROGRESS"          -> "IN_PROGRESS"
      [] OTHER                      -> "GENERIC"

OsErrors == {Err2Os(e) : e \in PicoErrs} \cup {"SUCCESS", "INSUFFICIENT_SPACE"}

FreeEntry == [inUse |-> FALSE, current_error |-> "SUCCESS", events |-> {}]

EntryRecord ==
    [inUse : BOOLEAN, current_error : OsErrors,
     events : SUBSET {"ERROR", "FIN"}]

Idle == [pc |-> "idle", op |-> "none", socket |-> NoSocket,
         failed |-> FALSE, own |-> "NOERR", err |-> "SUCCESS"]

RpcRecord ==
    [pc     : {"idle", "lock", "call", "store", "free", "done"},
     op     : {"none", "create", "accept", "close", "other"},
     socket : Sockets \cup {NoSocket},
     failed : BOOLEAN,     \* did picoTCP's function fail?
     own    : PicoErrs,    \* history: the pico_err it failed with
     err    : OsErrors]    \* what the call returns

\* The type invariant.
TypeOK ==
    /\ pico_err \in PicoErrs
    /\ mutex \in {"free", "rpc", "control"}
    /\ sockets \in [Sockets -> EntryRecord]
    /\ rpc \in RpcRecord

Init ==
    /\ pico_err = "NOERR"
    /\ mutex = "free"
    /\ sockets = [s \in Sockets |-> FreeEntry]
    /\ rpc = Idle

-----------------------------------------------------------------------------
(* The control thread: a tick, with the mutex.                             *)

TickBegin ==
    /\ mutex = "free"
    /\ mutex' = "control"
    /\ UNCHANGED <<pico_err, sockets, rpc>>

\* picoTCP's own work.
TickWork ==
    /\ mutex = "control"
    /\ pico_err' \in PicoErrs
    /\ UNCHANGED <<mutex, sockets, rpc>>

\* handle_pico_socket_event() with PICO_SOCK_EV_ERR: picoTCP has set pico_err.
\* It frees a socket whose connection was refused and has no further events
\* for it.
ErrorEvent(s) ==
    /\ mutex = "control"
    /\ pico_err # "NOERR"
    /\ sockets[s].inUse /\ "FIN" \notin sockets[s].events
    /\ sockets' = [sockets EXCEPT
                     ![s].current_error = Err2Os(pico_err),
                     ![s].events = @ \cup {"ERROR"} \cup
                        (IF pico_err = "ECONNREFUSED" THEN {"FIN"} ELSE {})]
    /\ UNCHANGED <<pico_err, mutex, rpc>>

\* ... and with PICO_SOCK_EV_FIN.
FinEvent(s) ==
    /\ mutex = "control"
    /\ sockets[s].inUse /\ "FIN" \notin sockets[s].events
    /\ sockets' = [sockets EXCEPT ![s].events = @ \cup {"FIN"}]
    /\ UNCHANGED <<pico_err, mutex, rpc>>

TickEnd ==
    /\ mutex = "control"
    /\ mutex' = "free"
    /\ UNCHANGED <<pico_err, sockets, rpc>>

-----------------------------------------------------------------------------
(* The RPC thread: a call into picoTCP.                                    *)

Enter(op, s, pc) ==
    /\ rpc.pc = "idle"
    /\ rpc' = [Idle EXCEPT !.pc = pc, !.op = op, !.socket = s]
    /\ UNCHANGED <<pico_err, mutex, sockets>>

CallCreate == Enter("create", NoSocket, "lock")

\* A call on a socket that has seen FIN returns OS_ERROR_CONNECTION_CLOSED
\* and changes nothing ...
Call(op, s) ==
    /\ sockets[s].inUse /\ "FIN" \notin sockets[s].events
    /\ Enter(op, s, "lock")

\* ... but close() still frees the handle.
CallCloseDead(s) ==
    /\ sockets[s].inUse /\ "FIN" \in sockets[s].events
    /\ Enter("close", s, "free")

LockMutex ==
    /\ rpc.pc = "lock"
    /\ mutex = "free"
    /\ mutex' = "rpc"
    /\ rpc' = [rpc EXCEPT !.pc = "call"]
    /\ UNCHANGED <<pico_err, sockets>>

\* Fault: the mutex is released before pico_err was read.
PicoFailsUnlocked ==
    /\ rpc.pc = "call"
    /\ \E e \in PicoErrs \ {"NOERR"} :
          /\ pico_err' = e
          /\ rpc' = [rpc EXCEPT !.pc = "store", !.failed = TRUE, !.own = e]
    /\ mutex' = "free"
    /\ UNCHANGED <<sockets>>

\* picoTCP's function fails ...
PicoFails ==
    /\ rpc.pc = "call"
    /\ \E e \in PicoErrs \ {"NOERR"} :
          /\ pico_err' = e
          /\ rpc' = [rpc EXCEPT !.pc = "store", !.failed = TRUE, !.own = e]
    /\ UNCHANGED <<mutex, sockets>>

\* ... or succeeds.
PicoSucceeds ==
    /\ rpc.pc = "call"
    /\ pico_err' \in PicoErrs
    /\ rpc' = [rpc EXCEPT !.pc = "store"]
    /\ UNCHANGED <<mutex, sockets>>

Unlock(pc, err) ==
    /\ mutex' = "free"
    /\ rpc' = [rpc EXCEPT !.pc = pc, !.err = err]

\* Only now, still with the mutex, pico_err is read; the result of the call
\* is err or OS_SUCCESS.  (read() and recvfrom() return OS_ERROR_TRY_AGAIN
\* when there was nothing to read; that is not told apart here.)
Result == IF rpc.failed THEN Err2Os(pico_err) ELSE "SUCCESS"

\* Fault: pico_err is kept as it is.
StoreRaw ==
    /\ rpc.pc = "store"
    /\ rpc.op \in {"other", "close"} \/ (rpc.op = "accept" /\ rpc.failed)
    /\ sockets' = [sockets EXCEPT ![rpc.socket].current_error = pico_err]
    /\ Unlock(IF rpc.op = "close" THEN "free" ELSE "done", Result)
    /\ UNCHANGED <<pico_err>>

Store ==
    /\ rpc.pc = "store"
    /\ rpc.op \in {"other", "close"} \/ (rpc.op = "accept" /\ rpc.failed)
    /\ sockets' =
          [sockets EXCEPT ![rpc.socket].current_error = Err2Os(pico_err)]
    /\ Unlock(IF rpc.op = "close" THEN "free" ELSE "done", Result)
    /\ UNCHANGED <<pico_err>>

\* reserve_handle(); which free handle it takes makes no difference here.
Reserved(s, err) ==
    [sockets[s] EXCEPT !.inUse = TRUE, !.current_error = err]

\* Setting the options of a new socket may set pico_err once more.
StoreCreate ==
    /\ rpc.pc = "store"
    /\ rpc.op = "create" /\ ~rpc.failed
    /\ \E s \in Sockets :
          /\ ~sockets[s].inUse
          /\ sockets' =
                [sockets EXCEPT ![s] = Reserved(s, Err2Os(pico_err))]
    /\ pico_err' \in PicoErrs
    /\ Unlock("done", Result)

CreateFails ==
    /\ rpc.pc = "store"
    /\ rpc.op = "create" /\ rpc.failed
    /\ Unlock("done", Result)
    /\ UNCHANGED <<pico_err, sockets>>

\* The listening socket keeps the error, the accepted one has none.
StoreAccept ==
    /\ rpc.pc = "store"
    /\ rpc.op = "accept" /\ ~rpc.failed
    /\ \E s \in Sockets :
          /\ ~sockets[s].inUse
          /\ sockets' = [sockets EXCEPT
                           ![rpc.socket].current_error = Err2Os(pico_err),
                           ![s] = Reserved(s, "SUCCESS")]
    /\ pico_err' \in PicoErrs
    /\ Unlock("done", Result)

\* No handle is free: the new pico socket is closed again.
NoHandle ==
    /\ rpc.pc = "store"
    /\ rpc.op \in {"create", "accept"} /\ ~rpc.failed
    /\ \A s \in Sockets : sockets[s].inUse
    /\ sockets' = IF rpc.op = "create" THEN sockets
                  ELSE [sockets EXCEPT
                          ![rpc.socket].current_error = Err2Os(pico_err)]
    /\ pico_err' \in PicoErrs
    /\ Unlock("done", "INSUFFICIENT_SPACE")

\* free_handle(), after the mutex was released.
FreeHandle ==
    /\ rpc.pc = "free"
    /\ sockets' = [sockets EXCEPT ![rpc.socket] = FreeEntry]
    /\ rpc' = [rpc EXCEPT !.pc = "done"]
    /\ UNCHANGED <<pico_err, mutex>>

Return ==
    /\ rpc.pc = "done"
    /\ rpc' = Idle
    /\ UNCHANGED <<pico_err, mutex, sockets>>

\* getPendingEvents() reports the entry's events with its current_error.
Report(s) ==
    /\ rpc.pc = "idle"
    /\ mutex = "free"
    /\ sockets[s].inUse /\ "ERROR" \in sockets[s].events
    /\ sockets' = [sockets EXCEPT ![s].events = @ \ {"ERROR"}]
    /\ UNCHANGED <<pico_err, mutex, rpc>>

-----------------------------------------------------------------------------
ControlStep ==
    \/ TickBegin \/ TickWork \/ TickEnd
    \/ \E s \in Sockets : ErrorEvent(s) \/ FinEvent(s)

RpcStep ==
    \/ CallCreate
    \/ \E s \in Sockets :
          \/ \E op \in {"accept", "close", "other"} : Call(op, s)
          \/ CallCloseDead(s)
          \/ Report(s)
    \/ LockMutex \/ PicoFails \/ PicoSucceeds
    \/ Store \/ StoreCreate \/ CreateFails \/ StoreAccept \/ NoHandle
    \/ FreeHandle \/ Return

Next == ControlStep \/ RpcStep

Spec == Init /\ [][Next]_vars

-----------------------------------------------------------------------------
(* Properties.                                                             *)

\* A call that picoTCP refused returns the error of this very call, not one
\* that the control thread or another call left in pico_err, and never
\* OS_SUCCESS.
OwnError ==
    rpc.pc = "done" /\ rpc.failed =>
        rpc.err = Err2Os(rpc.own) /\ rpc.err # "SUCCESS"
=============================================================================
