-------------------------- MODULE SocketEventProofs --------------------------
(***************************************************************************)
(* Proofs about the events of a socket, about the sockets that are open,   *)
(* and about the service that accepts connections, for every number of     *)
(* sockets, clients, quotas and pico sockets.                              *)
(***************************************************************************)
EXTENDS SocketAcceptProofs

-----------------------------------------------------------------------------
(* No event is lost but by a call.  This needs no assumption about the     *)
(* heap.                                                                   *)

\* The calls that withdraw event e of entry h.
Withdrawn(h, e) ==
    \/ rpc.pc = "store" /\ rpc.h = h
    \/ rpc.pc = "visit" /\ e \in {"CONN_EST", "WRITE", "ERROR"}
    \/ /\ rpc.pc = "locked" /\ rpc.op = "accept" /\ rpc.h = h
       /\ e = "CONN_ACPT" /\ sockets'[h].pending = 0
    \/ rpc.pc = "locked" /\ rpc.op = "close" /\ rpc.h = h /\ e = "CLOSE"

\* What the callback has loaded covers what it will overwrite ...
LoadCovers ==
    \A h \in Handles :
        InUse(h) /\ CallbackAt(h) => sockets[h].eventMask \subseteq ctl.val

\* ... and a call that clears READ adds nothing to what is there.
StoreShrinks == rpc.pc = "store" => rpc.val \subseteq sockets[rpc.h].eventMask

MaskInv == LoadCovers /\ StoreShrinks

\* An entry that keeps all of its events, or loses some to a call.
MaskMove(h) ==
    /\ InUse(h)
    /\ sockets'[h].eventMask \subseteq sockets[h].eventMask
    /\ \A e \in sockets[h].eventMask \ sockets'[h].eventMask : Withdrawn(h, e)

\* An entry that a call may put into use.
Unused(h) == rpc.pc = "locked" /\ ~InUse(h)

\* An entry that a step does not touch is one of these.
LEMMA SameMask ==
    ASSUME NEW h \in Handles, sockets'[h] = sockets[h]
    PROVE  InUse(h)' => MaskMove(h)
  BY DEF MaskMove, InUse

\* The calls that change an event mask inside one action.
LEMMA RpcMasks ==
    ASSUME IInv, ClientCall \/ RpcStep, ~ClearLoad, ~ClearStore
    PROVE  /\ rpc'.pc # "store" /\ ctl' = ctl
           /\ \A h \in Handles : InUse(h)' => MaskMove(h) \/ Unused(h)
  <1>0. /\ sockets \in [Handles -> SocketRecord]
        /\ rpc \in RpcRecord
    BY DEF IInv, TypeOK, TableTypeOK
  <1> DEFINE Goal == /\ rpc'.pc # "store" /\ ctl' = ctl
                     /\ \A h \in Handles :
                          InUse(h)' => MaskMove(h) \/ Unused(h)
  <1>1. ASSUME sockets' = sockets, rpc'.pc # "store", ctl' = ctl
        PROVE  Goal
    BY <1>1, SameMask
  <1>2. CASE ClientCall
    BY <1>1, <1>2, CallStarts
  <1>3. ASSUME NEW op, NEW state, ConnectOrListen(op, state) \/ PlainCall(op)
        PROVE  Goal
    <2>1. sockets' = sockets /\ ctl' = ctl /\ rpc'.pc = "idle"
      BY <1>3, IdleFields DEF ConnectOrListen, PlainCall, Unlock
    <2> QED
      BY <1>1, <2>1
  <1>4. ASSUME \/ \E op \in {"read", "recvfrom"} : ReadFails(op) \/ ReadEmpty(op)
               \/ \E len \in 1..MaxRx + 1 : ReadSome(len)
               \/ RecvFromSome
        PROVE  Goal
    <2>1. \A notify : ThenClear(notify).pc = "clear"
      BY <1>0 DEF ThenClear, RpcRecord
    <2>2. sockets' = sockets /\ ctl' = ctl /\ rpc'.pc \in {"idle", "clear"}
      BY <1>4, <2>1, IdleFields
      DEF ReadFails, ReadEmpty, ReadSome, RecvFromSome, Unlock
    <2> QED
      BY <1>1, <2>2
  <1>5. CASE RpcLock \/ CreateFails \/ \E a \in PicoSockets, type \in SocketTypes :
                                                CreateRefused(a, type)
    <2>1. sockets' = sockets /\ ctl' = ctl /\ rpc'.pc \in {"idle", "locked"}
      BY <1>0, <1>5, IdleFields
      DEF RpcLock, CreateFails, CreateRefused, Unlock, RpcRecord
    <2> QED
      BY <1>1, <2>1
  <1>6. CASE VisitQuiet \/ AfterPending
    <2>1. sockets' = sockets /\ ctl' = ctl /\ rpc'.pc \in {"idle", "visit"}
      BY <1>0, <1>6, IdleFields DEF VisitQuiet, AfterPending, Advance, RpcRecord
    <2> QED
      BY <1>1, <2>1
  <1>7. CASE VisitPending
    <2>1. rpc.pc = "visit" /\ rpc'.pc = "advance" /\ ctl' = ctl
      BY <1>0, <1>7 DEF VisitPending, RpcRecord
    <2>2. ASSUME NEW h \in Handles
          PROVE  /\ sockets'[h].status = sockets[h].status
                 /\ sockets'[h].eventMask \subseteq sockets[h].eventMask
                 /\ \A e \in sockets[h].eventMask \ sockets'[h].eventMask :
                        e \in {"CONN_EST", "WRITE", "ERROR"}
      BY <1>0, <1>7 DEF VisitPending, SocketRecord
    <2> QED
      BY <2>1, <2>2 DEF MaskMove, InUse, Withdrawn
  <1>8. CASE FreeHandle
    <2>1. PICK k \in Handles : k = rpc.h
      BY <1>8, FreeHandleEffect DEF SocketsOf
    <2>2. /\ sockets'[k].status = "FREE" /\ rpc'.pc = "freeing" /\ ctl' = ctl
          /\ \A h \in Handles \ {k} : sockets'[h] = sockets[h]
      BY <1>0, <1>8, <2>1, FreeHandleEffect
    <2> QED
      BY <2>2 DEF MaskMove, InUse
  <1>9. CASE FreeHandleRest
    <2>1. PICK k \in Handles : k = rpc.h
      BY <1>9, FreeHandleRestEffect
    <2>2. /\ sockets'[k].status = "FREE" /\ rpc'.pc = "idle" /\ ctl' = ctl
          /\ \A h \in Handles \ {k} : sockets'[h] = sockets[h]
      BY <1>0, <1>9, <2>1, FreeHandleRestEffect, IdleFields
    <2> QED
      BY <2>2 DEF MaskMove, InUse
  <1>10. CASE Close
    <2>1. PICK k \in Handles : k = rpc.h
      BY <1>10 DEF IInv, CallInv, Holds, OnSocket, SocketsOf, Close, Locked
    <2>2. /\ rpc.pc = "locked" /\ rpc.op = "close" /\ rpc'.pc = "free"
          /\ ctl' = ctl
      BY <1>0, <1>10 DEF Close, Locked, Unlock, RpcRecord
    <2>3. /\ \A h \in Handles \ {k} : sockets'[h] = sockets[h]
          /\ sockets'[k].status = sockets[k].status
          /\ sockets'[k].eventMask = sockets[k].eventMask \ {"CLOSE"}
      BY <1>0, <1>10, <2>1 DEF Close, SocketRecord
    <2> QED
      BY <2>1, <2>2, <2>3 DEF MaskMove, InUse, Withdrawn
  <1>11. ASSUME NEW a \in PicoSockets, NEW h \in Handles, NEW type,
                Create(a, h, type)
         PROVE  Goal
    <2>1. /\ rpc.pc = "locked" /\ rpc'.pc = "idle" /\ ctl' = ctl /\ ~InUse(h)
          /\ \A g \in Handles \ {h} : sockets'[g] = sockets[g]
      BY <1>0, <1>11, IdleFields
      DEF Create, Locked, Unlock, Reservable, InUse
    <2> QED
      BY <2>1, SameMask DEF Unused
  <1>12. ASSUME NEW k \in Handles, k = rpc.h, Locked("accept"), ctl' = ctl,
                rpc'.pc = "idle", sockets'[k] = AcceptedFrom(k),
                \A g \in Handles \ {k} :
                    sockets'[g] = sockets[g] \/ ~InUse(g)
         PROVE  Goal
    <2>0. \A g \in Handles \ {k} : InUse(g)' => MaskMove(g) \/ Unused(g)
      BY <1>12, SameMask DEF Unused, Locked
    <2>1. /\ sockets'[k].status = sockets[k].status
          /\ sockets'[k].eventMask \subseteq sockets[k].eventMask
          /\ \A e \in sockets[k].eventMask \ sockets'[k].eventMask :
                e = "CONN_ACPT" /\ sockets'[k].pending = 0
      BY <1>0, <1>12 DEF AcceptedFrom, SocketRecord
    <2> QED
      BY <1>12, <2>0, <2>1 DEF MaskMove, InUse, Withdrawn, Locked
  <1>13. ASSUME NEW b \in PicoSockets,
                \/ AcceptNone \/ AcceptRefused(b)
                \/ \E h \in Handles : Accept(b, h)
         PROVE  Goal
    <2>1. Locked("accept") /\ ctl' = ctl /\ rpc'.pc = "idle"
      BY <1>13, IdleFields DEF AcceptNone, AcceptRefused, Accept, Unlock
    <2>2. PICK k \in Handles : k = rpc.h /\ InUse(k)
      BY <2>1 DEF IInv, CallInv, Holds, OnSocket, SocketsOf, Locked, InUse
    <2>3. CASE AcceptNone \/ AcceptRefused(b)
      BY <1>0, <1>12, <2>1, <2>2, <2>3 DEF AcceptNone, AcceptRefused
    <2>4. ASSUME NEW h \in Handles, Accept(b, h)
          PROVE  Goal
      <3>1. ~InUse(h)
        BY <2>4 DEF Accept, Reservable, InUse
      <3>2. sockets'[k] = AcceptedFrom(k)
            /\ \A g \in Handles \ {k} : sockets'[g] = sockets[g] \/ g = h
        BY <1>0, <2>2, <2>4, <3>1 DEF Accept
      <3> QED
        BY <1>12, <2>1, <2>2, <3>1, <3>2
    <2> QED
      BY <1>13, <2>3, <2>4
  <1>14. CASE AcceptNone
    <2>1. CASE PicoSockets = {}
      BY <1>14, <2>1 DEF AcceptNone, IInv, CallInv, OnSocket, Locked
    <2> QED
      BY <1>13, <1>14, <2>1
  <1> QED
    BY <1>2, <1>3, <1>4, <1>5, <1>6, <1>7, <1>8, <1>9, <1>10, <1>11, <1>13,
       <1>14
    DEF RpcStep, RpcCritical, Connect, Listen, Bind, Write, SendTo

\* The control thread never takes an event away.
LEMMA ControlMasks ==
    ASSUME IInv, LoadCovers, TickOrData \/ PicoStep \/ CtlStep
    PROVE  /\ rpc' = rpc
           /\ \A h \in Handles :
                /\ sockets'[h].status = sockets[h].status
                /\ InUse(h) => sockets[h].eventMask \subseteq sockets'[h].eventMask
                /\ CallbackAt(h)' => \/ ctl' = ctl /\ sockets' = sockets
                                     \/ ctl'.val = sockets'[h].eventMask
  <1>0. /\ sockets \in [Handles -> SocketRecord]
        /\ ctl \in CtlRecord
    BY DEF IInv, TypeOK, TableTypeOK
  <1> DEFINE Goal == /\ rpc' = rpc
                     /\ \A h \in Handles :
                          /\ sockets'[h].status = sockets[h].status
                          /\ InUse(h) => sockets[h].eventMask \subseteq
                                                    sockets'[h].eventMask
                          /\ CallbackAt(h)' =>
                                \/ ctl' = ctl /\ sockets' = sockets
                                \/ ctl'.val = sockets'[h].eventMask
  <1>1. CASE TickOrData \/ CtlWait \/ CtlLock \/ TickDone \/ CtlUnlock
    BY <1>0, <1>1, IdleFields
    DEF TickOrData, CtlWait, CtlLock, TickDone, CtlUnlock, CtlRecord, CallbackAt
  <1>2. CASE NotifyClear
    BY <1>0, <1>2 DEF NotifyClear, CtlRecord, CallbackAt
  <1>3. ASSUME NEW c \in Clients, SkipClient(c) \/ NotifyClient(c)
        PROVE  Goal
    BY <1>0, <1>3 DEF SkipClient, NotifyClient, CtlRecord, CallbackAt
  <1>4. ASSUME NEW h \in Handles, NEW bits, Callback(h, bits),
               sockets' = sockets, rpc' = rpc
        PROVE  Goal
    BY <1>0, <1>4 DEF Callback, CtlRecord, CallbackAt
  <1>5. CASE PicoStep
    <2>1. ASSUME NEW a \in PicoSockets, NEW e \in PicoEvents, EventNoHandle(a, e)
          PROVE  Goal
      BY <2>1 DEF EventNoHandle, CallbackAt
    <2>2. ASSUME NEW a \in PicoSockets, NEW e \in PicoEvents, NEW h \in Handles,
                 EventBegin(a, e, h)
          PROVE  Goal
      BY <1>4, <2>2 DEF EventBegin
    <2>3. ASSUME NEW l \in PicoSockets, NEW b \in PicoSockets, NEW h \in Handles,
                 EventIncoming(l, b, h)
          PROVE  Goal
      BY <1>4, <2>3 DEF EventIncoming
    <2> QED
      BY <1>5, <2>1, <2>2, <2>3 DEF PicoStep
  <1>6. CASE EventFinish \/ EventFault
    <2>1. PICK k \in Handles : k = ctl.h
      BY <1>6 DEF IInv, CtlInv, EventFinish, EventFault
    <2>2. /\ rpc' = rpc /\ ctl.pc = "event" /\ ctl'.pc # "event"
          /\ sockets' = [sockets EXCEPT ![k] = WithEvents(k)]
      BY <1>0, <1>6, <2>1 DEF EventFinish, EventFault, IdleCtl, CtlRecord
    <2>4. /\ \A g \in Handles \ {k} : sockets'[g] = sockets[g]
          /\ sockets'[k].status = sockets[k].status
          /\ sockets'[k].eventMask = ctl.val \cup ctl.bits
      BY <1>0, <2>1, <2>2 DEF WithEvents, SocketRecord
    <2>3. InUse(k) => sockets[k].eventMask \subseteq ctl.val
      BY <2>1, <2>2 DEF LoadCovers, CallbackAt
    <2> QED
      BY <2>2, <2>3, <2>4 DEF CallbackAt
  <1> QED
    BY <1>1, <1>2, <1>3, <1>5, <1>6 DEF CtlStep

\* The two halves of the update that clears READ.
LEMMA ClearMasks ==
    ASSUME IInv, StoreShrinks, ClearLoad \/ ClearStore
    PROVE  /\ ctl' = ctl
           /\ \A h \in Handles : InUse(h)' => MaskMove(h)
           /\ rpc'.pc = "store" => rpc'.val \subseteq sockets'[rpc'.h].eventMask
  <1>0. /\ sockets \in [Handles -> SocketRecord]
        /\ rpc \in RpcRecord
    BY DEF IInv, TypeOK, TableTypeOK
  <1>1. CASE ClearLoad
    <2>1. /\ sockets' = sockets /\ ctl' = ctl
          /\ rpc'.h = rpc.h /\ rpc'.val = sockets[rpc.h].eventMask
      BY <1>0, <1>1 DEF ClearLoad, RpcRecord
    <2> QED
      BY <2>1, SameMask
  <1>2. CASE ClearStore
    <2>1. PICK k \in Handles : k = rpc.h
      BY <1>2 DEF IInv, CallInv, Holds, SocketsOf, ClearStore
    <2>2. /\ rpc.pc = "store" /\ rpc'.pc = "idle" /\ ctl' = ctl
          /\ \A g \in Handles \ {k} : sockets'[g] = sockets[g]
          /\ sockets'[k].status = sockets[k].status
          /\ sockets'[k].eventMask = rpc.val \ {"READ"}
      BY <1>0, <1>2, <2>1, IdleFields DEF ClearStore, SocketRecord
    <2>3. sockets'[k].eventMask \subseteq sockets[k].eventMask
      BY <2>1, <2>2 DEF StoreShrinks
    <2>4. InUse(k)' => MaskMove(k)
      BY <2>1, <2>2, <2>3 DEF MaskMove, InUse, Withdrawn
    <2> QED
      BY <2>2, <2>4, SameMask
  <1> QED
    BY <1>1, <1>2

\* What a step does to the events of the entries in use.
LEMMA MaskStep ==
    ASSUME IInv, MaskInv, [Next]_vars
    PROVE  /\ MaskInv'
           /\ \A h \in Handles : InUse(h) /\ InUse(h)' =>
                \A e \in sockets[h].eventMask \ sockets'[h].eventMask :
                    Withdrawn(h, e)
  <1> DEFINE Lost(h) == sockets[h].eventMask \ sockets'[h].eventMask
             Goal == /\ MaskInv'
                     /\ \A h \in Handles : InUse(h) /\ InUse(h)' =>
                            \A e \in Lost(h) : Withdrawn(h, e)
  <1>1. CASE UNCHANGED vars
    BY <1>1 DEF vars, MaskInv, LoadCovers, StoreShrinks, CallbackAt, InUse
  <1>2. CASE TickOrData \/ PicoStep \/ CtlStep
    <2>0. LoadCovers /\ StoreShrinks
      BY DEF MaskInv
    <2>1. /\ rpc' = rpc
          /\ \A h \in Handles :
                /\ InUse(h)' = InUse(h)
                /\ InUse(h) => Lost(h) = {}
                /\ CallbackAt(h)' => \/ ctl' = ctl /\ sockets' = sockets
                                     \/ ctl'.val = sockets'[h].eventMask
      BY <1>2, <2>0, ControlMasks DEF InUse
    <2>2. LoadCovers'
      BY <2>0, <2>1 DEF LoadCovers, CallbackAt
    <2>3. rpc.pc = "store" => /\ rpc.h \in Handles /\ InUse(rpc.h)
                              /\ rpc.val \subseteq sockets[rpc.h].eventMask
      BY <2>0 DEF IInv, CallInv, Holds, SocketsOf, InUse, StoreShrinks
    <2>4. StoreShrinks'
      BY <2>1, <2>3 DEF StoreShrinks
    <2> QED
      BY <2>1, <2>2, <2>4 DEF MaskInv
  <1>3. ASSUME ctl' = ctl,
               \A h \in Handles : InUse(h)' => MaskMove(h) \/ Unused(h)
        PROVE  LoadCovers' /\ \A h \in Handles : InUse(h) /\ InUse(h)' =>
                                    \A e \in Lost(h) : Withdrawn(h, e)
    <2>1. ASSUME NEW h \in Handles, InUse(h)', CallbackAt(h)'
          PROVE  sockets'[h].eventMask \subseteq ctl'.val
      <3>1. ctl.pc = "event" /\ CallbackAt(h)
        BY <1>3, <2>1 DEF CallbackAt
      <3>2. MaskMove(h)
        BY <1>3, <2>1, <3>1, NoCallback DEF Unused
      <3> QED
        BY <1>3, <3>1, <3>2 DEF MaskMove, MaskInv, LoadCovers
    <2> QED
      BY <1>3, <2>1 DEF LoadCovers, MaskMove, Unused
  <1>4. CASE (ClientCall \/ RpcStep) /\ ~ClearLoad /\ ~ClearStore
    BY <1>3, <1>4, RpcMasks DEF MaskInv, StoreShrinks
  <1>5. CASE ClearLoad \/ ClearStore
    BY <1>3, <1>5, ClearMasks DEF MaskInv, StoreShrinks
  <1> QED
    BY <1>1, <1>2, <1>4, <1>5 DEF Next

\* At start no thread has loaded anything.
LEMMA MaskInit == Init => MaskInv
  BY IdleFields DEF Init, MaskInv, LoadCovers, StoreShrinks, CallbackAt

\* The unlocked read-modify-writes of both threads are covered by what is in
\* the mask: what the callback stores includes it, what a call stores does
\* not go beyond it.
THEOREM MasksCovered == Spec => []MaskInv
  <1>1. IInv /\ MaskInv /\ [Next]_vars => MaskInv'
    BY MaskStep
  <1> QED
    BY <1>1, MaskInit, Invariant, PTL DEF Spec

\* An event of a socket in use is withdrawn only by getPendingEvents, accept,
\* close, or the unlocked update at the end of read and recvfrom; the callback,
\* which stores what it has loaded earlier, loses nothing.
THEOREM EventsKeptHolds == Spec => EventsKept
  <1>1. IInv /\ MaskInv /\ [Next]_vars =>
            \A h \in Handles : InUse(h) /\ sockets'[h].status = "IN_USE" =>
                \A e \in sockets[h].eventMask \ sockets'[h].eventMask :
                    \/ rpc.pc = "store" /\ rpc.h = h
                    \/ rpc.pc = "visit" /\ e \in {"CONN_EST", "WRITE", "ERROR"}
                    \/ /\ rpc.pc = "locked" /\ rpc.op = "accept" /\ rpc.h = h
                       /\ e = "CONN_ACPT" /\ sockets'[h].pending = 0
                    \/ /\ rpc.pc = "locked" /\ rpc.op = "close" /\ rpc.h = h
                       /\ e = "CLOSE"
    BY MaskStep DEF InUse, Withdrawn
  <1> QED
    BY <1>1, MasksCovered, Invariant, PTL DEF Spec, EventsKept

-----------------------------------------------------------------------------
(* What a call goes on with.                                               *)

OpsInv ==
    /\ rpc.pc # "idle" => rpc.op \in Ops
    /\ rpc.pc \in {"clear", "store"} => rpc.op \in {"read", "recvfrom"}
    /\ rpc.pc \in {"free", "freeing"} => rpc.op = "close"

\* A call stays the same operation until it returns; only read and recvfrom
\* go on to clear READ, only close goes on to free the handle.
LEMMA CallGoesOn ==
    ASSUME IInv, RpcStep
    PROVE  \/ rpc'.pc = "idle"
           \/ /\ rpc.pc # "idle" /\ rpc'.op = rpc.op
              /\ rpc'.pc = "clear" => rpc.op \in {"read", "recvfrom"}
              /\ rpc'.pc = "store" => rpc.pc = "clear"
              /\ rpc'.pc = "free" => rpc.op = "close"
              /\ rpc'.pc = "freeing" => rpc.pc = "free"
  <1>0. rpc \in RpcRecord
    BY DEF IInv, TypeOK
  <1> DEFINE Goal == \/ rpc'.pc = "idle"
                     \/ /\ rpc.pc # "idle" /\ rpc'.op = rpc.op
                        /\ rpc'.pc = "clear" => rpc.op \in {"read", "recvfrom"}
                        /\ rpc'.pc = "store" => rpc.pc = "clear"
                        /\ rpc'.pc = "free" => rpc.op = "close"
                        /\ rpc'.pc = "freeing" => rpc.pc = "free"
  <1>1. CASE RpcLock \/ ClearLoad \/ FreeHandle
    BY <1>0, <1>1 DEF RpcLock, ClearLoad, FreeHandle, RpcRecord
  <1>2. CASE VisitPending
    BY <1>0, <1>2 DEF VisitPending, RpcRecord
  <1>3. CASE VisitQuiet \/ AfterPending
    BY <1>0, <1>3, IdleFields DEF VisitQuiet, AfterPending, Advance, RpcRecord
  <1>4. CASE ClearStore \/ FreeHandleRest
    BY <1>4, IdleFields DEF ClearStore, FreeHandleRest
  <1>5. CASE Close
    BY <1>0, <1>5 DEF Close, Locked, Unlock, RpcRecord
  <1>6. ASSUME \/ \E op \in {"read", "recvfrom"} : ReadFails(op) \/ ReadEmpty(op)
               \/ \E len \in 1..MaxRx + 1 : ReadSome(len)
               \/ RecvFromSome
        PROVE  Goal
    <2>1. \A notify : /\ ThenClear(notify).pc = "clear"
                      /\ ThenClear(notify).op = rpc.op
      BY <1>0 DEF ThenClear, RpcRecord
    <2>2. /\ rpc.pc = "locked" /\ rpc.op \in {"read", "recvfrom"}
          /\ rpc' = IdleRpc \/ \E notify : rpc' = ThenClear(notify)
      BY <1>6
      DEF ReadFails, ReadEmpty, ReadSome, RecvFromSome, Locked, Unlock
    <2> QED
      BY <2>1, <2>2, IdleFields
  <1>7. ASSUME NEW op, NEW state, ConnectOrListen(op, state) \/ PlainCall(op)
        PROVE  Goal
    BY <1>7, IdleFields DEF ConnectOrListen, PlainCall, Unlock
  <1>8. ASSUME \/ CreateFails \/ AcceptNone
               \/ \E a \in PicoSockets, type \in SocketTypes :
                    CreateRefused(a, type) \/ \E h \in Handles : Create(a, h, type)
               \/ \E b \in PicoSockets :
                    AcceptRefused(b) \/ \E h \in Handles : Accept(b, h)
        PROVE  Goal
    BY <1>8, IdleFields
    DEF CreateFails, AcceptNone, CreateRefused, Create, AcceptRefused, Accept,
        Unlock
  <1> QED
    BY <1>1, <1>2, <1>3, <1>4, <1>5, <1>6, <1>7, <1>8
    DEF RpcStep, RpcCritical, Connect, Listen, Bind, Write, SendTo

\* Every step keeps this.
LEMMA OpsStep ==
    ASSUME IInv, OpsInv, [Next]_vars
    PROVE  OpsInv'
  <1>1. CASE UNCHANGED vars \/ TickOrData \/ PicoStep \/ CtlStep
    <2>1. rpc' = rpc
      BY <1>1
      DEF vars, TickOrData, PicoStep, CtlStep, CtlWait, CtlLock, EventBegin,
          EventNoHandle, EventIncoming, EventFinish, EventFault, TickDone,
          SkipClient, NotifyClient, NotifyClear, CtlUnlock
    <2> QED
      BY <2>1 DEF OpsInv
  <1>2. CASE ClientCall
    <2>1. ASSUME NEW c \in Clients, CallCreate(c)
          PROVE  OpsInv'
      BY <2>1 DEF CallCreate, IdleRpc, OpsInv
    <2>2. ASSUME NEW c \in Clients, NEW h \in Handles, NEW op \in SocketOps,
                 CallOnSocket(c, op, h)
          PROVE  OpsInv'
      BY <2>2 DEF CallOnSocket, IdleRpc, OpsInv
    <2>3. ASSUME NEW c \in Clients, NEW h \in Handles, CallCloseAfterFin(c, h)
          PROVE  OpsInv'
      BY <2>3 DEF CallCloseAfterFin, IdleRpc, OpsInv
    <2>4. ASSUME NEW c \in Clients, NEW max \in 1..NumSockets,
                 CallGetPendingEvents(c, max)
          PROVE  OpsInv'
      BY <2>4 DEF CallGetPendingEvents, IdleRpc, OpsInv
    <2> QED
      BY <1>2, <2>1, <2>2, <2>3, <2>4 DEF ClientCall
  <1>3. CASE RpcStep
    BY <1>3, CallGoesOn DEF OpsInv
  <1> QED
    BY <1>1, <1>2, <1>3 DEF Next

\* A call goes on only with what its own operation is made of.
LEMMA OpsHold == Spec => []OpsInv
  <1>1. Init => OpsInv
    BY IdleFields DEF Init, OpsInv
  <1>2. IInv /\ OpsInv /\ [Next]_vars => OpsInv'
    BY OpsStep
  <1> QED
    BY <1>1, <1>2, Invariant, PTL DEF Spec

\* The comment that FIN stays until the handle is freed fails in the code; it
\* is read and recvfrom alone that break it.  Where clients only write, or
\* send datagrams, FIN is never lost.
THEOREM FinKeptWithoutReads ==
    ASSUME {"read", "recvfrom"} \cap Ops = {}
    PROVE  Spec => FinKept
  <1>1. IInv /\ MaskInv /\ OpsInv /\ [Next]_vars =>
            \A h \in Handles :
                /\ InUse(h) /\ "FIN" \in sockets[h].eventMask
                /\ sockets'[h].status = "IN_USE"
                => "FIN" \in sockets'[h].eventMask
    <2> SUFFICES ASSUME IInv, MaskInv, OpsInv, [Next]_vars, NEW h \in Handles,
                        InUse(h), "FIN" \in sockets[h].eventMask,
                        sockets'[h].status = "IN_USE",
                        "FIN" \notin sockets'[h].eventMask
                 PROVE  FALSE
      OBVIOUS
    <2>1. Withdrawn(h, "FIN")
      BY MaskStep DEF InUse
    <2>2. rpc.pc = "store"
      BY <2>1 DEF Withdrawn
    <2> QED
      BY <2>2 DEF OpsInv
  <1> QED
    BY <1>1, MasksCovered, OpsHold, Invariant, PTL DEF Spec, FinKept

-----------------------------------------------------------------------------
(* The sockets that are open: what an entry in use says of its socket, and *)
(* which sockets an entry in use may have.                                 *)

\* The call that frees entry h next.
FreesNext(h) == rpc.pc = "free" /\ rpc.h = h

\* No peer resets or refuses a connection.
PeersStay == {"refused", "reset", "resetwait"} \cap NetEvents = {}

Open == {"estab", "closewait"}

Marked(h) == sockets[h].connected \/ EstSeen(h)

\* An established connection is marked, or the callback is about to mark it.
OpenLink ==
    \A h \in Handles : InUse(h) /\ pico[Impl(h)].state \in Open => Marked(h)

\* A socket that is being shut down is about to lose its handle ...
ClosedLink ==
    \A h \in Handles :
        InUse(h) /\ pico[Impl(h)].state = "closing" => FreesNext(h)

\* ... and so is one that is gone, unless a peer took it away.
GoneLink ==
    PeersStay => \A h \in Handles :
                    InUse(h) /\ pico[Impl(h)].state = "free" => FreesNext(h)

\* A connection that lost its listening socket has no handle.
OrphanLink ==
    \A h \in Handles : InUse(h) => pico[Impl(h)].state # "orphan"

OpenInv == OpenLink /\ ClosedLink /\ GoneLink /\ OrphanLink

\* What a step that neither reserves nor frees may do to an entry in use.
OpenMove ==
    \A h \in Handles :
        InUse(h) =>
            /\ pico'[Impl(h)].state \in Open =>
                    pico[Impl(h)].state \in Open \/ Marked(h)'
            /\ Marked(h) => Marked(h)'
            /\ pico'[Impl(h)].state = "closing" =>
                    pico[Impl(h)].state = "closing" \/ FreesNext(h)'
            /\ PeersStay /\ pico'[Impl(h)].state = "free" =>
                    pico[Impl(h)].state \in {"free", "closing"}
            /\ pico'[Impl(h)].state = "orphan" =>
                    pico[Impl(h)].state = "orphan"
            /\ FreesNext(h) => FreesNext(h)'

\* A step with these effects keeps the invariant.
LEMMA OpenKeeps ==
    ASSUME OpenInv, SameLinks, OpenMove
    PROVE  OpenInv'
  <1>1. \A h \in Handles : InUse(h)' = InUse(h) /\ Impl(h)' = Impl(h)
    BY DEF SameLinks, InUse, Impl
  <1>2. OpenLink'
    BY <1>1 DEF OpenInv, OpenLink, OpenMove
  <1>3. ClosedLink'
    BY <1>1 DEF OpenInv, ClosedLink, OpenMove
  <1>4. GoneLink'
    BY <1>1 DEF OpenInv, ClosedLink, GoneLink, OpenMove
  <1>5. OrphanLink'
    BY <1>1 DEF OpenInv, OrphanLink, OpenMove
  <1> QED
    BY <1>2, <1>3, <1>4, <1>5 DEF OpenInv

\* The sockets with a handle stay in their states.
HeldQuiet ==
    \A a \in PicoSockets : ~NoHandleFound(a) => pico'[a].state = pico[a].state

LEMMA HeldMove ==
    ASSUME LinkInv, OpenInv, SameLinks, HeldQuiet,
           \A h \in Handles : InUse(h) => /\ Marked(h) => Marked(h)'
                                          /\ FreesNext(h) => FreesNext(h)'
    PROVE  OpenInv'
  <1>1. \A h \in Handles : InUse(h) => pico'[Impl(h)].state = pico[Impl(h)].state
    BY HandleHeld DEF LinkInv, Linked, HeldQuiet
  <1>2. OpenMove
    BY <1>1 DEF OpenMove
  <1> QED
    BY <1>2, OpenKeeps

\* A socket without a handle is closed, or changed by the network.
LEMMA UnheldQuiet ==
    ASSUME LinkInv, IInv, NEW a \in PicoSockets, NoHandleFound(a),
           \/ pico' = PicoClose(a)
           \/ \E e \in PicoEvents : pico' = PicoAfter(a, e)
           \/ \E l \in PicoSockets : pico' = PicoIncoming(l, a)
    PROVE  HeldQuiet
  <1>1. ASSUME NEW b \in PicoSockets, ~NoHandleFound(b)
        PROVE  b # a /\ pico[b].parent # a
    BY <1>1, NoSockAssumption DEF LinkInv, Waiting
  <1>2. CASE pico' = PicoClose(a)
    BY <1>1, <1>2 DEF HeldQuiet, PicoClose
  <1>3. CASE \/ \E e \in PicoEvents : pico' = PicoAfter(a, e)
             \/ \E l \in PicoSockets : pico' = PicoIncoming(l, a)
    <2>1. \A b \in PicoSockets \ {a} : pico'[b] = pico[b]
      BY <1>3, PicoTyped DEF PicoAfter, PicoIncoming
    <2> QED
      BY <1>1, <2>1 DEF HeldQuiet
  <1> QED
    BY <1>2, <1>3

\* A step of the control thread or of picoTCP that leaves the table alone and
\* ends no callback.
LEMMA OpenCtl ==
    ASSUME LinkInv, OpenInv, HeldQuiet, sockets' = sockets, rpc' = rpc,
           ctl' = ctl \/ ctl.pc # "event"
    PROVE  OpenInv'
  <1>1. SameLinks
    BY DEF SameLinks
  <1>2. \A h \in Handles : /\ Marked(h) => Marked(h)'
                           /\ FreesNext(h) => FreesNext(h)'
    BY DEF Marked, EstSeen, FreesNext
  <1> QED
    BY <1>1, <1>2, HeldMove

\* An event of a socket with a handle.
LEMMA OpenEventBegin ==
    ASSUME LinkInv, OpenInv, IInv, NEW a \in PicoSockets, NEW e \in PicoEvents,
           NEW h \in Handles, EventBegin(a, e, h)
    PROVE  OpenInv'
  <1>1. /\ Impl(h) = a /\ sockets' = sockets /\ rpc' = rpc
        /\ pico[a].state = e.from
        /\ ctl.pc = "tick"
        /\ Callback(h, OsEvents(e.mask, e.refused, FALSE))
    BY DEF EventBegin, HandleFound, Impl, CanHappen
  <1>2. /\ pico'[a].state = e.to
        /\ \A b \in PicoSockets \ {a} : pico'[b] = pico[b]
    BY PicoTyped DEF EventBegin, PicoAfter, NoPicoSocket, PicoRecord
  <1>3. /\ e.to \in Open =>
                \/ e.from \in Open \/ e.from = "orphan"
                \/ "CONN_EST" \in OsEvents(e.mask, e.refused, FALSE)
        /\ e.to # "closing"
        /\ e.to = "free" =>
                e.from = "closing" \/ e.name \in {"refused", "reset", "resetwait"}
        /\ e.name \in NetEvents
    BY DEF PicoEvents, AllPicoEvents, PicoEvent, OsEvents, Open
  <1>4. InUse(h) /\ e.from # "orphan"
    BY <1>1, NoSockAssumption DEF LinkInv, Linked, OpenInv, OrphanLink
  <1>5. /\ e.to # "orphan"
        /\ PeersStay /\ e.to = "free" => e.from = "closing"
    BY <1>3 DEF PicoEvents, AllPicoEvents, PicoEvent, PeersStay
  <1>6. "CONN_EST" \in OsEvents(e.mask, e.refused, FALSE) => Marked(h)'
    BY <1>1 DEF Callback, IInv, TypeOK, CtlRecord, Marked, EstSeen
  <1>7. ASSUME NEW g \in Handles, InUse(g)
        PROVE  /\ Marked(g) => Marked(g)'
               /\ FreesNext(g) => FreesNext(g)'
               /\ g # h => pico'[Impl(g)] = pico[Impl(g)]
    <2>1. g # h => Impl(g) \in PicoSockets \ {a}
      BY <1>1, <1>4, <1>7 DEF LinkInv, Linked, Unshared
    <2> QED
      BY <1>1, <1>2, <2>1 DEF Marked, EstSeen, FreesNext
  <1>8. SameLinks
    BY <1>1 DEF SameLinks
  <1>9. OpenMove
    BY <1>1, <1>2, <1>3, <1>4, <1>5, <1>6, <1>7 DEF OpenMove
  <1> QED
    BY <1>8, <1>9, OpenKeeps

\* The callback marks what it was about to mark.
LEMMA OpenEventEnd ==
    ASSUME LinkInv, OpenInv, IInv, EventFinish \/ EventFault
    PROVE  OpenInv'
  <1>0. /\ sockets \in [Handles -> SocketRecord]
        /\ ctl \in CtlRecord
    BY DEF IInv, TypeOK, TableTypeOK
  <1>1. PICK k \in Handles : k = ctl.h
    BY DEF IInv, CtlInv, EventFinish, EventFault
  <1>2. /\ rpc' = rpc /\ pico' = pico
        /\ sockets' = [sockets EXCEPT ![k] = WithEvents(k)]
    BY <1>1 DEF EventFinish, EventFault
  <1>3. /\ \A g \in Handles \ {k} : sockets'[g] = sockets[g]
        /\ sockets'[k].status = sockets[k].status
        /\ sockets'[k].impl = sockets[k].impl
        /\ sockets[k].connected \/ "CONN_EST" \in ctl.bits =>
                sockets'[k].connected
    BY <1>0, <1>1, <1>2 DEF WithEvents, SocketRecord
  <1>4. SameLinks /\ HeldQuiet
    BY <1>2, <1>3 DEF SameLinks, HeldQuiet
  <1>5. ASSUME NEW h \in Handles
        PROVE  /\ Marked(h) => Marked(h)'
               /\ FreesNext(h) => FreesNext(h)'
    BY <1>1, <1>2, <1>3 DEF Marked, EstSeen, FreesNext
  <1> QED
    BY <1>4, <1>5, HeldMove

\* Every step of the control thread and of picoTCP.
LEMMA OpenControl ==
    ASSUME ~ReuseAddresses, LinkInv, OpenInv, IInv,
           TickOrData \/ PicoStep \/ CtlStep
    PROVE  OpenInv'
  <1>1. ASSUME UNCHANGED <<pico, sockets, rpc>>, ctl' = ctl \/ ctl.pc # "event"
        PROVE  OpenInv'
    BY <1>1, OpenCtl DEF HeldQuiet
  <1>2. CASE TickOrData \/ CtlWait \/ CtlLock \/ TickDone \/ CtlUnlock \/ NotifyClear
    BY <1>1, <1>2
    DEF TickOrData, CtlWait, CtlLock, TickDone, CtlUnlock, NotifyClear
  <1>3. ASSUME NEW c \in Clients, SkipClient(c) \/ NotifyClient(c)
        PROVE  OpenInv'
    BY <1>1, <1>3 DEF SkipClient, NotifyClient
  <1>4. ASSUME NEW a \in PicoSockets, NEW e \in PicoEvents, EventNoHandle(a, e)
        PROVE  OpenInv'
    <2>1. HeldQuiet
      BY <1>4, UnheldQuiet DEF EventNoHandle
    <2> QED
      BY <1>4, <2>1, OpenCtl DEF EventNoHandle
  <1>5. ASSUME NEW l \in PicoSockets, NEW b \in PicoSockets, NEW h \in Handles,
               EventIncoming(l, b, h)
        PROVE  OpenInv'
    <2>1. HeldQuiet
      BY <1>5, UnheldQuiet DEF EventIncoming, Available
    <2> QED
      BY <1>5, <2>1, OpenCtl DEF EventIncoming
  <1>6. CASE PicoStep
    BY <1>4, <1>5, <1>6, OpenEventBegin DEF PicoStep
  <1> QED
    BY <1>2, <1>3, <1>6, OpenEventEnd DEF CtlStep

\* A step of the RPC thread that keeps links and marks, and frees nothing.
LEMMA OpenRpc ==
    ASSUME LinkInv, OpenInv, HeldQuiet, ctl' = ctl, rpc.pc # "free",
           \A h \in Handles :
                /\ sockets'[h].status = sockets[h].status
                /\ sockets'[h].impl = sockets[h].impl
                /\ InUse(h) => sockets'[h].connected = sockets[h].connected
    PROVE  OpenInv'
  <1>1. SameLinks
    BY DEF SameLinks
  <1>2. \A h \in Handles : InUse(h) => /\ Marked(h) => Marked(h)'
                                       /\ FreesNext(h) => FreesNext(h)'
    BY DEF Marked, EstSeen, FreesNext
  <1> QED
    BY <1>1, <1>2, HeldMove

\* create or accept puts a pico socket that has no handle into a free entry.
LEMMA OpenReserve ==
    ASSUME LinkInv, OpenInv, IInv, NEW a \in PicoSockets, NEW h \in Handles,
           rpc.pc = "locked", ctl' = ctl, ~InUse(h), NoHandleFound(a),
           sockets'[h].impl = a,
           \/ pico'[a].state \in {"fresh", "dgram"}
           \/ pico'[a].state = "estab" /\ sockets'[h].connected,
           \A g \in Handles \ {h} :
                /\ sockets'[g].status = sockets[g].status
                /\ sockets'[g].impl = sockets[g].impl
                /\ sockets'[g].connected = sockets[g].connected,
           \A b \in PicoSockets \ {a} : pico'[b] = pico[b]
    PROVE  OpenInv'
  <1>1. Impl(h)' = a
    BY DEF Impl
  <1>2. ASSUME NEW g \in Handles \ {h}, InUse(g)'
        PROVE  /\ InUse(g) /\ Impl(g)' = Impl(g)
               /\ pico'[Impl(g)] = pico[Impl(g)]
               /\ Marked(g)' = Marked(g)
    <2>1. InUse(g) /\ Impl(g)' = Impl(g) /\ Impl(g) \in PicoSockets \ {a}
      BY <1>2 DEF InUse, Impl, NoHandleFound, LinkInv, Linked
    <2> QED
      BY <2>1 DEF Marked, EstSeen
  <1>3. Marked(h)' \/ pico'[a].state \in {"fresh", "dgram"}
    BY DEF Marked
  <1>4. \A g \in Handles : ~FreesNext(g)
    BY DEF FreesNext
  <1>5. OpenLink'
    BY <1>1, <1>2, <1>3 DEF OpenInv, OpenLink, Open
  <1>6. ClosedLink'
    BY <1>1, <1>2, <1>4 DEF OpenInv, ClosedLink
  <1>7. GoneLink'
    BY <1>1, <1>2, <1>4 DEF OpenInv, GoneLink
  <1>8. OrphanLink'
    BY <1>1, <1>2 DEF OpenInv, OrphanLink
  <1> QED
    BY <1>5, <1>6, <1>7, <1>8 DEF OpenInv

\* close: the socket is shut down, and its handle is freed next.
LEMMA OpenClose ==
    ASSUME LinkInv, OpenInv, IInv, Close
    PROVE  OpenInv'
  <1>0. /\ sockets \in [Handles -> SocketRecord]
        /\ rpc \in RpcRecord
        /\ rpc.pc = "locked" /\ rpc.op # "create"
    BY DEF IInv, TypeOK, TableTypeOK, Close, Locked
  <1>1. PICK k \in Handles : /\ k = rpc.h /\ InUse(k) /\ Impl(k) = rpc.impl
                             /\ rpc.impl \in PicoSockets
    BY <1>0, OnSocketFacts
  <1>2. ctl' = ctl /\ rpc'.pc = "free" /\ rpc'.h = k
    BY <1>0, <1>1 DEF Close, Unlock, RpcRecord
  <1>3. \A h \in Handles :
            /\ sockets'[h].status = sockets[h].status
            /\ sockets'[h].impl = sockets[h].impl
            /\ sockets'[h].connected = sockets[h].connected
    BY <1>0 DEF Close, SocketRecord
  <1>4. pico'[rpc.impl].state =
            IF pico[rpc.impl].state = "free" THEN "free" ELSE "closing"
    BY <1>1, PicoTyped DEF Close, PicoClose, PicoRecord
  <1>5. ASSUME NEW g \in Handles \ {k}, InUse(g)
        PROVE  pico'[Impl(g)] = pico[Impl(g)]
    <2>1. Impl(g) \in PicoSockets /\ Impl(g) # rpc.impl
      BY <1>1, <1>5 DEF LinkInv, Linked, Unshared
    <2>2. pico[Impl(g)].parent # rpc.impl
      BY <1>1, <2>1, HandleHeld, NoSockAssumption DEF LinkInv, Waiting
    <2> QED
      BY <2>1, <2>2 DEF Close, PicoClose
  <1>6. \A h \in Handles : /\ Marked(h)' = Marked(h)
                           /\ ~FreesNext(h)
    BY <1>0, <1>2, <1>3 DEF Marked, EstSeen, FreesNext
  <1>7. FreesNext(k)'
    BY <1>2 DEF FreesNext
  <1>8. SameLinks
    BY <1>3 DEF SameLinks
  <1>9. OpenMove
    BY <1>1, <1>4, <1>5, <1>6, <1>7 DEF OpenMove, Open
  <1> QED
    BY <1>8, <1>9, OpenKeeps

\* connect and listen: the socket that turns is not open yet.
LEMMA OpenConnectOrListen ==
    ASSUME LinkInv, OpenInv, IInv, NEW op \in {"connect", "listen"},
           NEW state \in {"synsent", "listen"}, ConnectOrListen(op, state)
    PROVE  OpenInv'
  <1>0. /\ rpc.pc = "locked" /\ rpc.op # "create"
        /\ pico' \in PicoTurn(rpc.impl, state)
        /\ sockets' = sockets /\ ctl' = ctl
    BY DEF ConnectOrListen, Locked, Unlock
  <1>1. rpc.impl \in PicoSockets
    BY <1>0, OnSocketFacts
  <1>2. CASE pico' = pico
    BY <1>0, <1>2, OpenRpc DEF HeldQuiet
  <1>3. CASE pico' # pico
    <2>1. pico' = [pico EXCEPT ![rpc.impl].state = state]
      BY <1>0, <1>3 DEF PicoTurn
    <2>2. /\ pico'[rpc.impl].state = state
          /\ \A b \in PicoSockets \ {rpc.impl} : pico'[b] = pico[b]
      BY <1>1, <2>1, PicoTyped DEF PicoRecord
    <2>3. SameLinks /\ \A h \in Handles : /\ Marked(h)' = Marked(h)
                                          /\ ~FreesNext(h)
      BY <1>0 DEF SameLinks, Marked, EstSeen, FreesNext
    <2>4. \A h \in Handles : InUse(h) => Impl(h) \in PicoSockets
      BY DEF LinkInv, Linked
    <2>5. OpenMove
      BY <1>1, <2>2, <2>3, <2>4 DEF OpenMove, Open
    <2> QED
      BY <2>3, <2>5, OpenKeeps
  <1> QED
    BY <1>2, <1>3

\* create.
LEMMA OpenCreate ==
    ASSUME ~ReuseAddresses, LinkInv, OpenInv, IInv, NEW a \in PicoSockets,
           NEW h \in Handles, NEW type, Create(a, h, type)
    PROVE  OpenInv'
  <1>0. /\ sockets \in [Handles -> SocketRecord]
        /\ rpc.pc = "locked" /\ ctl' = ctl
        /\ NoHandleFound(a) /\ ~InUse(h)
    BY DEF IInv, TypeOK, TableTypeOK, Create, Locked, Unlock, Available,
           Reservable, InUse
  <1>1. /\ sockets'[h].impl = a
        /\ \A g \in Handles \ {h} : sockets'[g] = sockets[g]
    BY <1>0 DEF Create, ReservedEntry, SocketRecord
  <1>2. /\ \A b \in PicoSockets \ {a} : pico'[b] = pico[b]
        /\ pico'[a].state \in {"fresh", "dgram"}
    BY PicoTyped DEF Create, PicoOpen, NoPicoSocket
  <1> QED
    BY <1>0, <1>1, <1>2, OpenReserve

\* accept of a connection.
LEMMA OpenAccept ==
    ASSUME LinkInv, OpenInv, IInv, NEW b \in PicoSockets, NEW h \in Handles,
           Accept(b, h)
    PROVE  OpenInv'
  <1>0. /\ sockets \in [Handles -> SocketRecord]
        /\ rpc.pc = "locked" /\ rpc.op # "create" /\ ctl' = ctl
        /\ pico[b].state = "estab" /\ pico[b].parent = rpc.impl
        /\ ~InUse(h)
    BY DEF IInv, TypeOK, TableTypeOK, Accept, Locked, Unlock, Acceptable,
           Reservable, InUse
  <1>1. rpc.h \in Handles /\ InUse(rpc.h) /\ rpc.impl \in PicoSockets
    BY <1>0, OnSocketFacts
  <1>2. NoHandleFound(b)
    BY <1>0, <1>1, NoSockAssumption DEF LinkInv, Waiting
  <1>3. sockets'[h].impl = b /\ sockets'[h].connected
    BY <1>0, <1>1 DEF Accept, ReservedEntry, SocketRecord
  <1>4. ASSUME NEW g \in Handles \ {h}
        PROVE  /\ sockets'[g].status = sockets[g].status
               /\ sockets'[g].impl = sockets[g].impl
               /\ sockets'[g].connected = sockets[g].connected
    <2>1. sockets'[g] = IF g = rpc.h THEN AcceptedFrom(g) ELSE sockets[g]
      BY <1>0, <1>1 DEF Accept
    <2> QED
      BY <2>1, AcceptedFromLinks
  <1>5. /\ \A d \in PicoSockets \ {b} : pico'[d] = pico[d]
        /\ pico'[b].state = "estab"
    BY <1>0, PicoTyped DEF Accept, PicoAccept, PicoRecord
  <1> QED
    BY <1>0, <1>2, <1>3, <1>4, <1>5, OpenReserve

\* create and accept without a free handle, and accept without a connection.
LEMMA OpenRefused ==
    ASSUME ~ReuseAddresses, LinkInv, OpenInv, IInv,
           \/ AcceptNone
           \/ \E a \in PicoSockets : \/ AcceptRefused(a)
                                     \/ \E type : CreateRefused(a, type)
    PROVE  OpenInv'
  <1>0. sockets \in [Handles -> SocketRecord]
    BY DEF IInv, TypeOK, TableTypeOK
  <1>1. rpc.pc = "locked" /\ ctl' = ctl
    BY DEF AcceptNone, AcceptRefused, CreateRefused, Locked, Unlock
  <1>2. ASSUME NEW h \in Handles
        PROVE  /\ sockets'[h].status = sockets[h].status
               /\ sockets'[h].impl = sockets[h].impl
               /\ sockets'[h].connected = sockets[h].connected
    BY <1>0, AcceptedFromLinks DEF AcceptNone, AcceptRefused, CreateRefused
  <1>3. CASE AcceptNone
    BY <1>1, <1>2, <1>3, OpenRpc DEF AcceptNone, HeldQuiet
  <1>4. ASSUME NEW a \in PicoSockets, NoHandleFound(a),
               \A d \in PicoSockets \ {a} : pico'[d] = pico[d]
        PROVE  OpenInv'
    <2>1. HeldQuiet
      BY <1>4 DEF HeldQuiet
    <2> QED
      BY <1>1, <1>2, <2>1, OpenRpc
  <1>5. ASSUME NEW b \in PicoSockets, AcceptRefused(b)
        PROVE  OpenInv'
    <2>1. /\ rpc.op # "create" /\ pico[b].parent = rpc.impl
          /\ \A d \in PicoSockets \ {b} : pico'[d] = pico[d]
      BY <1>5, PicoTyped DEF AcceptRefused, PicoAccept, Locked, Acceptable
    <2>2. NoHandleFound(b)
      BY <1>1, <2>1, OnSocketFacts, NoSockAssumption DEF LinkInv, Waiting
    <2> QED
      BY <1>4, <2>1, <2>2
  <1>6. ASSUME NEW a \in PicoSockets, NEW type, CreateRefused(a, type)
        PROVE  OpenInv'
    <2>1. /\ NoHandleFound(a)
          /\ \A d \in PicoSockets \ {a} : pico'[d] = pico[d]
      BY <1>6, PicoTyped DEF CreateRefused, PicoOpen, Available
    <2> QED
      BY <1>4, <2>1
  <1> QED
    BY <1>3, <1>5, <1>6

\* free_handle: the entry goes out of use.
LEMMA OpenFreeHandle ==
    ASSUME OpenInv, IInv, FreeHandle
    PROVE  OpenInv'
  <1>a. PICK k \in Handles : k = rpc.h
    BY FreeHandleEffect DEF SocketsOf
  <1>0. sockets \in [Handles -> SocketRecord]
    BY DEF IInv, TypeOK, TableTypeOK
  <1>1. /\ sockets'[k].status = "FREE"
        /\ \A g \in Handles \ {k} : sockets'[g] = sockets[g]
        /\ pico' = pico /\ ctl' = ctl
    BY <1>a, <1>0, FreeHandleEffect DEF FreeHandle
  <1>2. ASSUME NEW g \in Handles, InUse(g)'
        PROVE  /\ InUse(g) /\ Impl(g)' = Impl(g) /\ Marked(g)' = Marked(g)
               /\ ~FreesNext(g)
    BY <1>a, <1>1, <1>2 DEF InUse, Impl, Marked, EstSeen, FreesNext
  <1>3. OpenLink' /\ OrphanLink'
    BY <1>1, <1>2 DEF OpenInv, OpenLink, OrphanLink
  <1>4. ClosedLink' /\ GoneLink'
    BY <1>1, <1>2 DEF OpenInv, ClosedLink, GoneLink
  <1> QED
    BY <1>3, <1>4 DEF OpenInv

\* The steps that change neither states nor the table's links.
LEMMA OpenPlain ==
    ASSUME LinkInv, OpenInv, IInv,
           \/ ClientCall \/ RpcLock \/ CreateFails \/ \E op : PlainCall(op)
           \/ ClearLoad \/ ClearStore \/ FreeHandleRest
           \/ VisitQuiet \/ VisitPending \/ AfterPending
    PROVE  OpenInv'
  <1>0. sockets \in [Handles -> SocketRecord]
    BY DEF IInv, TypeOK, TableTypeOK
  <1>1. CASE ClientCall
    <2>1. rpc.pc = "idle" /\ UNCHANGED <<pico, ctl, sockets>>
      BY <1>1, CallStarts DEF ClientCall, CallCreate, CallOnSocket,
                              CallCloseAfterFin, CallGetPendingEvents
    <2> QED
      BY <2>1, OpenRpc DEF HeldQuiet
  <1>2. CASE FreeHandleRest
    <2>1. /\ rpc.pc = "freeing" /\ pico' = pico /\ ctl' = ctl
          /\ sockets' = [sockets EXCEPT ![rpc.h] = FreedEntry(rpc.h)]
          /\ sockets[rpc.h].status = "FREE" /\ ~InUse(rpc.h)
      BY <1>2, FreeHandleRestEffect DEF FreeHandleRest, InUse
    <2>2. \A h \in Handles :
            /\ sockets'[h].status = sockets[h].status
            /\ sockets'[h].impl = sockets[h].impl
            /\ InUse(h) => sockets'[h].connected = sockets[h].connected
      BY <1>0, <2>1 DEF FreedEntry, SocketRecord
    <2> QED
      BY <2>1, <2>2, OpenRpc DEF HeldQuiet
  <1>3. CASE ClearStore \/ VisitPending
    <2>1. rpc.pc # "free" /\ pico' = pico /\ ctl' = ctl
      BY <1>3 DEF ClearStore, VisitPending
    <2>2. \A h \in Handles :
            /\ sockets'[h].status = sockets[h].status
            /\ sockets'[h].impl = sockets[h].impl
            /\ sockets'[h].connected = sockets[h].connected
      BY <1>0, <1>3 DEF ClearStore, VisitPending, SocketRecord
    <2> QED
      BY <2>1, <2>2, OpenRpc DEF HeldQuiet
  <1>4. CASE \/ RpcLock \/ CreateFails \/ \E op : PlainCall(op)
             \/ ClearLoad \/ VisitQuiet \/ AfterPending
    <2>1. rpc.pc # "free" /\ UNCHANGED <<pico, ctl, sockets>>
      BY <1>4 DEF RpcLock, CreateFails, PlainCall, ClearLoad, VisitQuiet,
                  AfterPending, Locked, Unlock
    <2> QED
      BY <2>1, OpenRpc DEF HeldQuiet
  <1> QED
    BY <1>1, <1>2, <1>3, <1>4

\* read and recvfrom.
LEMMA OpenRead ==
    ASSUME LinkInv, OpenInv, IInv,
           \/ \E op \in {"read", "recvfrom"} : ReadFails(op) \/ ReadEmpty(op)
           \/ \E len \in 1..MaxRx + 1 : ReadSome(len)
           \/ RecvFromSome
    PROVE  OpenInv'
  <1>1. /\ rpc.pc = "locked" /\ rpc.op # "create"
        /\ sockets' = sockets /\ ctl' = ctl
    BY DEF ReadFails, ReadEmpty, ReadSome, RecvFromSome, Locked, Unlock
  <1>2. pico' = pico \/ \E n : pico' = PicoTake(rpc.impl, n)
    BY DEF ReadFails, ReadEmpty, ReadSome, RecvFromSome
  <1>3. PicoQuiet
    BY <1>1, <1>2, OnSocketFacts, TakeMove DEF PicoQuiet
  <1> QED
    BY <1>1, <1>3, OpenRpc DEF HeldQuiet, PicoQuiet

\* Every step.
LEMMA OpenStep ==
    ASSUME ~ReuseAddresses, LinkInv, OpenInv, IInv, [Next]_vars
    PROVE  OpenInv'
  <1>1. CASE UNCHANGED vars
    <2>1. /\ pico' = pico /\ sockets' = sockets /\ rpc' = rpc /\ ctl' = ctl
      BY <1>1 DEF vars
    <2> QED
      BY <2>1, OpenCtl DEF HeldQuiet
  <1>2. CASE RpcCritical
    <2>1. ASSUME NEW a \in PicoSockets, NEW type \in SocketTypes,
                 CreateRefused(a, type) \/ \E h \in Handles : Create(a, h, type)
          PROVE  OpenInv'
      BY <2>1, OpenCreate, OpenRefused
    <2>2. CASE Connect \/ Listen
      BY <2>2, OpenConnectOrListen DEF Connect, Listen
    <2>3. ASSUME NEW b \in PicoSockets,
                 AcceptRefused(b) \/ \E h \in Handles : Accept(b, h)
          PROVE  OpenInv'
      BY <2>3, OpenAccept, OpenRefused
    <2> QED
      BY <1>2, <2>1, <2>2, <2>3, OpenClose, OpenRefused, OpenRead, OpenPlain
      DEF RpcCritical, Bind, Write, SendTo
  <1> QED
    BY <1>1, <1>2, OpenControl, OpenPlain, OpenFreeHandle DEF Next, RpcStep

\* At start no entry is in use.
LEMMA OpenInit == Init => OpenInv
  <1> SUFFICES ASSUME Init
               PROVE  OpenInv
    OBVIOUS
  <1>1. \A h \in Handles : ~InUse(h)
    BY DEF Init, TableInit, ZeroSocket, InUse
  <1> QED
    BY <1>1 DEF OpenInv, OpenLink, ClosedLink, GoneLink, OrphanLink

\* What an entry in use says of its socket, and which sockets it may have.
LEMMA OpenHolds ==
    ASSUME ~ReuseAddresses
    PROVE  Spec => []OpenInv
  <1>1. LinkInv /\ OpenInv /\ IInv /\ [Next]_vars => OpenInv'
    BY OpenStep
  <1> QED
    BY <1>1, OpenInit, Invariant, LinkHolds, PTL DEF Spec

\* Once the callback has returned, an established connection with a handle
\* passes CHECK_SOCKET_CONNECTED.
THEOREM EstablishedMeansConnectedHolds ==
    ASSUME ~ReuseAddresses
    PROVE  Spec => []EstablishedMeansConnected
  <1>1. OpenInv => EstablishedMeansConnected
    BY DEF OpenInv, OpenLink, Marked, EstSeen, EstablishedMeansConnected, Impl,
           Open
  <1> QED
    BY <1>1, OpenHolds, PTL

\* A handle stays behind on a socket that is being shut down only until the
\* same close call frees it.
THEOREM ClosedIsReleasedHolds ==
    ASSUME ~ReuseAddresses
    PROVE  Spec => []ClosedIsReleased
  <1>1. OpenInv => ClosedIsReleased
    BY DEF OpenInv, ClosedLink, FreesNext, ClosedIsReleased, Impl
  <1> QED
    BY <1>1, OpenHolds, PTL

\* The comment that a socket is not accessed after picoTCP has freed it fails
\* in the code; it takes a peer that resets or refuses a connection while a
\* call waits for the mutex.  Without one every call finds its socket alive.
THEOREM NoCallOnFreedSocketWithoutResets ==
    ASSUME ~ReuseAddresses, {"refused", "reset", "resetwait"} \cap NetEvents = {}
    PROVE  Spec => []NoCallOnFreedSocket
  <1>1. LinkInv /\ OpenInv /\ IInv => NoCallOnFreedSocket
    <2> SUFFICES ASSUME LinkInv, OpenInv, IInv,
                        rpc.pc = "locked", rpc.op # "create"
                 PROVE  pico[rpc.impl].state # "free"
      BY DEF NoCallOnFreedSocket, Alive
    <2>1. rpc.h \in Handles /\ InUse(rpc.h) /\ Impl(rpc.h) = rpc.impl
      BY OnSocketFacts
    <2>2. ~FreesNext(rpc.h)
      BY DEF FreesNext
    <2> QED
      BY <2>1, <2>2 DEF OpenInv, GoneLink, PeersStay
  <1> QED
    BY <1>1, OpenHolds, LinkHolds, Invariant, PTL

-----------------------------------------------------------------------------
(* The pico sockets that nobody can reach.                                 *)

\* A step that lets a socket listen, or takes the listening socket away from
\* a connection, is a listen or a close.
Turned(a) ==
    /\ pico'[a].state = "listen" =>
            pico[a].state = "listen" \/ Locked("listen")
    /\ pico'[a].state = "orphan" =>
            \/ pico[a].state = "orphan"
            \/ Locked("close") /\ a \in Acceptable(rpc.impl)

\* What pico_socket_close() does to a socket.
LEMMA CloseTurns ==
    ASSUME IInv, QueueInv, NEW a \in PicoSockets, NEW b \in PicoSockets,
           pico' = PicoClose(b)
    PROVE  /\ pico'[a].state = "listen" => pico[a].state = "listen"
           /\ pico'[a].state = "orphan" =>
                pico[a].state = "orphan" \/ a \in Acceptable(b)
  <1>1. CASE a = b
    BY <1>1, PicoTyped DEF PicoClose, PicoRecord
  <1>2. CASE a # b /\ pico[a].parent = b
    <2>1. pico[b].state = "listen"
      BY <1>2, NoSockAssumption DEF QueueInv, Parented
    <2> QED
      BY <1>2, <2>1, PicoTyped DEF PicoClose, PicoRecord, Acceptable
  <1>3. CASE a # b /\ pico[a].parent # b
    BY <1>3 DEF PicoClose
  <1> QED
    BY <1>1, <1>2, <1>3

\* picoTCP during a tick.
LEMMA PicoTurns ==
    ASSUME IInv, QueueInv, PicoStep, NEW a \in PicoSockets
    PROVE  Turned(a)
  <1>1. ASSUME NEW b \in PicoSockets, NEW e \in PicoEvents,
               CanHappen(b, e), pico' = PicoAfter(b, e)
        PROVE  Turned(a)
    <2>1. e.to \notin {"listen", "orphan"}
      BY DEF PicoEvents, AllPicoEvents, PicoEvent
    <2>2. pico'[a] = pico[a] \/ pico'[a].state = e.to
      BY <1>1, <2>1, PicoTyped DEF PicoAfter, NoPicoSocket, PicoRecord
    <2> QED
      BY <2>1, <2>2 DEF Turned
  <1>2. ASSUME NEW b \in PicoSockets, NEW e \in PicoEvents,
               CanHappen(b, e), e.to = "closewait", pico' = PicoClose(b)
        PROVE  Turned(a)
    <2>1. pico[b].state # "listen"
      BY <1>2 DEF CanHappen, PicoEvents, AllPicoEvents, PicoEvent
    <2> QED
      BY <1>2, <2>1, CloseTurns DEF Turned, Acceptable
  <1>3. ASSUME NEW l \in PicoSockets, NEW b \in PicoSockets, NEW h \in Handles,
               EventIncoming(l, b, h)
        PROVE  Turned(a)
    <2>1. pico'[a] = pico[a] \/ pico'[a].state = "estab"
      BY <1>3, PicoTyped DEF EventIncoming, PicoIncoming, NoPicoSocket
    <2> QED
      BY <2>1 DEF Turned
  <1> QED
    BY <1>1, <1>2, <1>3 DEF PicoStep, EventBegin, EventNoHandle

\* The RPC thread.
LEMMA RpcTurns ==
    ASSUME LinkInv, IInv, QueueInv, RpcStep, NEW a \in PicoSockets
    PROVE  Turned(a)
  <1>1. CASE Close
    <2>1. rpc.impl \in PicoSockets
      BY <1>1, OnSocketFacts DEF Close, Locked
    <2> QED
      BY <1>1, <2>1, CloseTurns DEF Close, Turned
  <1>2. CASE Connect \/ Listen
    <2>1. rpc.impl \in PicoSockets
      BY <1>2, OnSocketFacts DEF Connect, Listen, ConnectOrListen, Locked
    <2>2. CASE Connect
      <3>1. pico'[a] = pico[a] \/ pico'[a].state = "synsent"
        BY <2>1, <2>2, PicoTyped
        DEF Connect, ConnectOrListen, PicoTurn, PicoRecord
      <3> QED
        BY <3>1 DEF Turned
    <2>3. CASE Listen
      <3>1. pico'[a] = pico[a] \/ pico'[a].state = "listen"
        BY <2>1, <2>3, PicoTyped
        DEF Listen, ConnectOrListen, PicoTurn, PicoRecord
      <3> QED
        BY <2>3, <3>1 DEF Turned, Listen, ConnectOrListen
    <2> QED
      BY <1>2, <2>2, <2>3
  <1>3. ASSUME NEW b \in PicoSockets, NEW type,
               CreateRefused(b, type) \/ \E h \in Handles : Create(b, h, type)
        PROVE  Turned(a)
    <2>1. \/ pico'[a] = pico[a]
          \/ pico'[a].state \in {"fresh", "dgram", "closing"}
      BY <1>3, PicoTyped DEF CreateRefused, Create, PicoOpen, NoPicoSocket
    <2> QED
      BY <2>1 DEF Turned
  <1>4. ASSUME NEW b \in PicoSockets,
               AcceptRefused(b) \/ \E h \in Handles : Accept(b, h)
        PROVE  Turned(a)
    <2>1. \/ pico' = PicoAccept(b)
          \/ pico' = [PicoAccept(b) EXCEPT ![b].state = "closing"]
      BY <1>4 DEF AcceptRefused, Accept
    <2>2. pico'[a].state = pico[a].state \/ pico'[a].state = "closing"
      BY <2>1, PicoTyped DEF PicoAccept, PicoRecord
    <2> QED
      BY <2>2 DEF Turned
  <1>5. ASSUME PicoQuiet
        PROVE  Turned(a)
    BY <1>5 DEF PicoQuiet, Turned
  <1>6. CASE \/ \E op \in {"read", "recvfrom"} : ReadFails(op) \/ ReadEmpty(op)
             \/ \E len \in 1..MaxRx + 1 : ReadSome(len)
             \/ RecvFromSome
    <2>1. rpc.pc = "locked" /\ rpc.op # "create"
      BY <1>6 DEF ReadFails, ReadEmpty, ReadSome, RecvFromSome, Locked
    <2>2. pico' = pico \/ \E n : pico' = PicoTake(rpc.impl, n)
      BY <1>6 DEF ReadFails, ReadEmpty, ReadSome, RecvFromSome
    <2>3. PicoQuiet
      BY <2>1, <2>2, OnSocketFacts, TakeMove DEF PicoQuiet
    <2> QED
      BY <1>5, <2>3
  <1>7. CASE pico' = pico
    BY <1>7 DEF Turned
  <1> QED
    BY <1>1, <1>2, <1>3, <1>4, <1>6, <1>7
    DEF RpcStep, RpcCritical, CreateFails, Bind, Write, SendTo, PlainCall,
        AcceptNone, RpcLock, ClearLoad, ClearStore, FreeHandle,
        FreeHandleRest, VisitQuiet, VisitPending, AfterPending

\* Every step.
LEMMA StepTurns ==
    ASSUME LinkInv, IInv, QueueInv, [Next]_vars, NEW a \in PicoSockets
    PROVE  Turned(a)
  <1>1. CASE pico' = pico
    BY <1>1 DEF Turned
  <1>2. CASE TickOrData \/ ClientCall \/ CtlStep
    BY <1>1, <1>2
    DEF TickOrData, ClientCall, CallCreate, CallOnSocket, CallCloseAfterFin,
        CallGetPendingEvents, CtlStep, CtlWait, CtlLock, EventFinish,
        EventFault, TickDone, SkipClient, NotifyClient, NotifyClear, CtlUnlock
  <1> QED
    BY <1>1, <1>2, PicoTurns, RpcTurns DEF Next, vars

\* After a step, too, a pico socket that nobody can reach is one that has lost
\* its listening socket.
LEMMA LeftOpenIsOrphan ==
    ASSUME LinkInv', QueueInv', IInv', NEW a \in PicoSockets, LeftOpen(a)'
    PROVE  pico'[a].state = "orphan"
  <1> SUFFICES ASSUME pico'[a].state # "orphan"
               PROVE  FALSE
    OBVIOUS
  <1>1. pico'[a].parent # NoSock
    BY DEF LeftOpen, LinkInv, Reached
  <1>2. PICK l \in PicoSockets : l = pico'[a].parent
    BY <1>1 DEF IInv, TypeOK, PicoTypeOK, PicoRecord
  <1>3. pico'[a].state = "estab" /\ pico'[l].state = "listen"
    BY <1>1, <1>2 DEF LeftOpen, LinkInv, Waiting, QueueInv, Parented
  <1> QED
    BY <1>2, <1>3 DEF LeftOpen, Acceptable

\* And such a one cannot be reached.
LEMMA OrphanIsLeftOpen ==
    ASSUME LinkInv, OpenInv, NEW a \in PicoSockets, pico[a].state = "orphan"
    PROVE  LeftOpen(a)
  <1>1. NoHandleFound(a)
    BY NoSockAssumption
    DEF NoHandleFound, LinkInv, Linked, OpenInv, OrphanLink, Impl
  <1> QED
    BY <1>1 DEF LeftOpen, Acceptable

\* What leaves a pico socket open.
LEMMA LeftOpenStep ==
    ASSUME LinkInv, LinkInv', QueueInv, QueueInv', IInv, IInv', OpenInv,
           [Next]_vars, NEW a \in PicoSockets, ~LeftOpen(a), LeftOpen(a)'
    PROVE  Locked("close") /\ a \in Acceptable(rpc.impl)
  <1>1. pico'[a].state = "orphan"
    BY LeftOpenIsOrphan
  <1>2. pico[a].state # "orphan"
    BY OrphanIsLeftOpen
  <1> QED
    BY <1>1, <1>2, StepTurns DEF Turned

\* Only closing a listening socket at which connections wait leaves a pico
\* socket open that no client can reach; every other path of create, accept,
\* close and the callback closes what it gives up.
THEOREM LeftOpenByCloseOnlyHolds ==
    ASSUME ~ReuseAddresses
    PROVE  Spec => LeftOpenByCloseOnly
  <1>1. /\ LinkInv /\ LinkInv' /\ QueueInv /\ QueueInv' /\ IInv /\ IInv'
        /\ OpenInv /\ [Next]_vars
        => [\A a \in PicoSockets :
              ~LeftOpen(a) /\ LeftOpen(a)' =>
                  rpc.pc = "locked" /\ rpc.op = "close" /\ a \in Acceptable(rpc.impl)]_vars
    BY LeftOpenStep DEF Locked
  <1> QED
    BY <1>1, LinkHolds, QueueHolds, OpenHolds, Invariant, PTL
    DEF Spec, LeftOpenByCloseOnly

\* Without listen no socket listens.
ListenInv ==
    "listen" \notin Ops => \A a \in PicoSockets : pico[a].state # "listen"

\* No close finds a connection that waits: either there is no close, or
\* nothing to wait at.
LEMMA NothingToLeave ==
    ASSUME {"listen", "close"} \cap Ops # {"listen", "close"},
           OpsInv, ListenInv, LinkInv, IInv, Locked("close")
    PROVE  Acceptable(rpc.impl) = {}
  <1>1. "close" \in Ops
    BY DEF OpsInv, Locked
  <1>2. "listen" \notin Ops
    BY <1>1
  <1>3. rpc.impl \in PicoSockets
    BY OnSocketFacts DEF Locked
  <1> QED
    BY <1>2, <1>3 DEF ListenInv, Acceptable

\* The callback closes what can get no handle "in order to avoid a handle
\* leak"; in the code a pico socket is left open all the same.  It takes a
\* client that listens and closes: where no client does both, none is left.
THEOREM NoSocketLeakWithoutClosingListeners ==
    ASSUME ~ReuseAddresses, {"listen", "close"} \cap Ops # {"listen", "close"}
    PROVE  Spec => []NoSocketLeak
  <1>1. Init => NoSocketLeak /\ ListenInv
    BY DEF Init, PicoInit, NoPicoSocket, NoSocketLeak, LeftOpen, ListenInv
  <1>2. /\ LinkInv /\ IInv /\ QueueInv /\ OpsInv /\ ListenInv /\ [Next]_vars
        => ListenInv'
    <2> SUFFICES ASSUME LinkInv, IInv, QueueInv, OpsInv, ListenInv, [Next]_vars,
                        "listen" \notin Ops, NEW a \in PicoSockets
                 PROVE  pico'[a].state # "listen"
      BY DEF ListenInv
    <2>1. ~Locked("listen")
      BY DEF OpsInv, Locked
    <2> QED
      BY <2>1, StepTurns DEF Turned, ListenInv
  <1>3. /\ LinkInv /\ LinkInv' /\ QueueInv /\ QueueInv' /\ IInv /\ IInv'
        /\ OpenInv /\ OpsInv /\ ListenInv /\ NoSocketLeak /\ [Next]_vars
        => NoSocketLeak'
    BY LeftOpenStep, NothingToLeave DEF NoSocketLeak
  <1> QED
    BY <1>1, <1>2, <1>3, LinkHolds, QueueHolds, OpenHolds, OpsHold, Invariant,
       PTL
    DEF Spec

-----------------------------------------------------------------------------
(* The announcement of connections and their count.                        *)

\* The events the entry has; during the callback, the ones it has loaded.
Base(h) == IF CallbackAt(h) THEN ctl.val ELSE sockets[h].eventMask

Counted(h) == "CONN_ACPT" \in Base(h) <=> sockets[h].pending > 0

\* A connection was counted for the entry, or is about to be.
Serves(h) ==
    \/ sockets[h].pending > 0
    \/ CallbackAt(h) /\ "CONN_ACPT" \in ctl.bits

\* Neither read nor recvfrom is admitted.
Passive(h) == ~sockets[h].connected /\ sockets[h].socketType # "DGRAM"

\* The states of a socket that has listened.
Listened == {"listen", "closing", "free"}

ServerOk(h) == Serves(h) => Passive(h) /\ pico[Impl(h)].state \in Listened

\* The calls that write an event mask back without the mutex are not made on
\* a socket that counts connections.
ReaderLink == Reading => ~Passive(rpc.h)

CountInv ==
    /\ \A h \in Handles : InUse(h) => Counted(h) /\ ServerOk(h)
    /\ ReaderLink

\* A socket with a handle that has listened never does anything else.
ListenedMove ==
    \A a \in PicoSockets :
        ~NoHandleFound(a) /\ pico[a].state \in Listened =>
            pico'[a].state \in Listened

\* A reader stays with its socket.
ReaderMove ==
    /\ Reading' => Reading /\ rpc'.h = rpc.h
    /\ \A h \in Handles : InUse(h) /\ Passive(h)' => Passive(h)

\* A step with these effects keeps the reader's knowledge.
LEMMA ReaderKept ==
    ASSUME CountInv, IInv, ReaderMove
    PROVE  ReaderLink'
  <1> SUFFICES ASSUME Reading'
               PROVE  ~Passive(rpc.h)'
    BY DEF ReaderLink
  <1>1. Reading /\ rpc'.h = rpc.h
    BY DEF ReaderMove
  <1>2. PICK k \in Handles : k = rpc.h /\ InUse(k)
    BY <1>1 DEF Reading, Holds, OnSocket, IInv, CallInv, SocketsOf, InUse
  <1>3. ~Passive(k)
    BY <1>1, <1>2 DEF CountInv, ReaderLink
  <1>4. ~Passive(k)'
    BY <1>2, <1>3 DEF ReaderMove
  <1> QED
    BY <1>1, <1>2, <1>4 DEF Passive

\* An entry of which a step changes nothing that counts.
LEMMA CountEntry ==
    ASSUME CountInv, LinkInv, ListenedMove, NEW h \in Handles, InUse(h),
           sockets'[h].impl = sockets[h].impl,
           sockets'[h].connected = sockets[h].connected,
           sockets'[h].socketType = sockets[h].socketType,
           sockets'[h].pending = sockets[h].pending,
           "CONN_ACPT" \in sockets'[h].eventMask <=>
                                    "CONN_ACPT" \in sockets[h].eventMask,
           ctl' = ctl \/ (~CallbackAt(h) /\ ~CallbackAt(h)')
    PROVE  /\ Counted(h)' /\ ServerOk(h)'
           /\ Passive(h)' = Passive(h)
  <1>1. Impl(h)' = Impl(h) /\ Passive(h)' = Passive(h)
    BY DEF Impl, Passive
  <1>2. Serves(h)' = Serves(h)
    BY DEF Serves, CallbackAt
  <1>3. Counted(h)'
    BY DEF CountInv, Counted, Base, CallbackAt
  <1>4. pico[Impl(h)].state \in Listened => pico'[Impl(h)].state \in Listened
    BY HandleHeld DEF LinkInv, Linked, ListenedMove
  <1> QED
    BY <1>1, <1>2, <1>3, <1>4 DEF CountInv, ServerOk

\* A step that neither reserves nor frees an entry.
LEMMA CountKeeps ==
    ASSUME CountInv, LinkInv, IInv, SameLinks, ReaderLink',
           \A h \in Handles : InUse(h) => Counted(h)' /\ ServerOk(h)'
    PROVE  CountInv'
  BY DEF CountInv, SameLinks, InUse

\* A step that leaves the table alone and does not touch the callback.
LEMMA CountQuiet ==
    ASSUME CountInv, LinkInv, IInv, ListenedMove, sockets' = sockets,
           ctl' = ctl \/ (ctl.pc # "event" /\ ctl'.pc # "event"),
           ReaderLink' \/ (Reading' => Reading /\ rpc'.h = rpc.h)
    PROVE  CountInv'
  <1>1. SameLinks
    BY DEF SameLinks
  <1>2. \A h \in Handles : Passive(h)' = Passive(h)
    BY DEF Passive
  <1>3. ReaderLink'
    BY <1>2, ReaderKept DEF ReaderMove
  <1>4. ASSUME NEW h \in Handles, InUse(h)
        PROVE  Counted(h)' /\ ServerOk(h)'
    <2>1. ctl' = ctl \/ (~CallbackAt(h) /\ ~CallbackAt(h)')
      BY DEF CallbackAt
    <2> QED
      BY <1>4, <2>1, CountEntry
  <1> QED
    BY <1>1, <1>3, <1>4, CountKeeps

\* Where the states of the sockets with a handle do not change.
LEMMA QuietListened ==
    ASSUME HeldQuiet \/ PicoQuiet
    PROVE  ListenedMove
  BY DEF HeldQuiet, PicoQuiet, ListenedMove

\* The callback starts: it has loaded what is there.
LEMMA CountCallback ==
    ASSUME CountInv, LinkInv, IInv, ListenedMove, sockets' = sockets,
           rpc' = rpc, ctl.pc = "tick", NEW h \in Handles, NEW bits,
           Callback(h, bits),
           "CONN_ACPT" \in bits /\ InUse(h) =>
                Passive(h) /\ pico'[Impl(h)].state \in Listened
    PROVE  CountInv'
  <1>0. /\ ctl'.pc = "event" /\ ctl'.h = h
        /\ ctl'.val = sockets[h].eventMask /\ ctl'.bits = bits
    BY DEF IInv, TypeOK, CtlRecord, Callback
  <1>1. SameLinks
    BY DEF SameLinks
  <1>2. \A g \in Handles : Passive(g)' = Passive(g) /\ Impl(g)' = Impl(g)
    BY DEF Passive, Impl
  <1>3. Reading' => Reading /\ rpc'.h = rpc.h
    BY DEF Reading, OnSocket
  <1>4. ReaderLink'
    BY <1>2, <1>3, ReaderKept DEF ReaderMove
  <1>5. ASSUME NEW g \in Handles, InUse(g)
        PROVE  Counted(g)' /\ ServerOk(g)'
    <2>1. Counted(g)'
      BY <1>0, <1>5 DEF CountInv, Counted, Base, CallbackAt
    <2>2. Serves(g)' => \/ Serves(g)
                        \/ g = h /\ "CONN_ACPT" \in bits
      BY <1>0 DEF Serves, CallbackAt
    <2>3. pico[Impl(g)].state \in Listened => pico'[Impl(g)].state \in Listened
      BY <1>5, HandleHeld DEF LinkInv, Linked, ListenedMove
    <2> QED
      BY <1>2, <1>5, <2>1, <2>2, <2>3 DEF CountInv, ServerOk
  <1> QED
    BY <1>1, <1>4, <1>5, CountKeeps

\* A connection arrives only at a socket that listens; that one is neither
\* connected nor a datagram socket.
LEMMA CountIncoming ==
    ASSUME ~ReuseAddresses, CountInv, QueueInv, LinkInv, IInv,
           NEW l \in PicoSockets, NEW b \in PicoSockets, NEW h \in Handles,
           EventIncoming(l, b, h)
    PROVE  CountInv'
  <1>1. /\ pico[l].state = "listen" /\ pico[b].state = "free"
        /\ NoHandleFound(b) /\ Impl(h) = l
        /\ sockets' = sockets /\ rpc' = rpc /\ ctl.pc = "tick"
        /\ Callback(h, OsEvents({"CONN"}, FALSE, TRUE))
    BY DEF EventIncoming, Available, Alive, HandleFound, Impl
  <1>2. \A d \in PicoSockets \ {b} : pico'[d] = pico[d]
    BY PicoTyped DEF EventIncoming, PicoIncoming
  <1>3. HeldQuiet
    BY <1>1, <1>2 DEF HeldQuiet
  <1>4. InUse(h) => Passive(h)
    <2>1. InUse(h) => ~sockets[h].connected
      BY <1>1 DEF LinkInv, ConnectedMeansEstablished, Impl
    <2>2. InUse(h) => sockets[h].socketType # "DGRAM"
      BY <1>1 DEF QueueInv, DgramLink, Quieted
    <2> QED
      BY <2>1, <2>2 DEF Passive
  <1>5. pico'[Impl(h)].state \in Listened
    BY <1>1, <1>2 DEF Listened
  <1> QED
    BY <1>1, <1>3, <1>4, <1>5, QuietListened, CountCallback

\* An event of a socket with a handle.
LEMMA CountEventBegin ==
    ASSUME CountInv, LinkInv, IInv, NEW a \in PicoSockets, NEW e \in PicoEvents,
           NEW h \in Handles, EventBegin(a, e, h)
    PROVE  CountInv'
  <1>1. /\ pico[a].state = e.from
        /\ sockets' = sockets /\ rpc' = rpc /\ ctl.pc = "tick"
        /\ Callback(h, OsEvents(e.mask, e.refused, FALSE))
    BY DEF EventBegin, CanHappen
  <1>2. /\ pico'[a].state = e.to
        /\ \A b \in PicoSockets \ {a} : pico'[b] = pico[b]
    BY PicoTyped DEF EventBegin, PicoAfter, NoPicoSocket, PicoRecord
  <1>3. /\ e.from \in Listened => e.to \in Listened
        /\ "CONN_ACPT" \notin OsEvents(e.mask, e.refused, FALSE)
    BY DEF PicoEvents, AllPicoEvents, PicoEvent, OsEvents, Listened
  <1>4. ListenedMove
    BY <1>1, <1>2, <1>3 DEF ListenedMove
  <1> QED
    BY <1>1, <1>3, <1>4, CountCallback

\* The callback counts the connection it announces, and announces the one it
\* counts.
LEMMA CountEventEnd ==
    ASSUME CountInv, LinkInv, IInv, EventFinish \/ EventFault
    PROVE  CountInv'
  <1>0. /\ sockets \in [Handles -> SocketRecord]
        /\ ctl \in CtlRecord
    BY DEF IInv, TypeOK, TableTypeOK
  <1>1. PICK k \in Handles : k = ctl.h
    BY DEF IInv, CtlInv, EventFinish, EventFault
  <1>2. /\ rpc' = rpc /\ pico' = pico /\ ctl.pc = "event" /\ ctl'.pc # "event"
        /\ sockets' = [sockets EXCEPT ![k] = WithEvents(k)]
    BY <1>0, <1>1, IdleFields DEF EventFinish, EventFault, IdleCtl, CtlRecord
  <1>3. /\ \A g \in Handles \ {k} : sockets'[g] = sockets[g]
        /\ sockets'[k].status = sockets[k].status
        /\ sockets'[k].impl = sockets[k].impl
        /\ sockets'[k].socketType = sockets[k].socketType
        /\ sockets'[k].eventMask = ctl.val \cup ctl.bits
        /\ sockets'[k].pending = IF "CONN_ACPT" \in ctl.bits
                                 THEN sockets[k].pending + 1
                                 ELSE sockets[k].pending
        /\ sockets'[k].connected = IF "CONN_EST" \in ctl.bits
                                   THEN TRUE ELSE sockets[k].connected
        /\ sockets[k].pending \in Nat
    BY <1>0, <1>2, MaxPendingAssumption DEF WithEvents, SocketRecord
  <1>4. SameLinks /\ ListenedMove
    BY <1>2, <1>3 DEF SameLinks, ListenedMove
  <1>5. \A g \in Handles : Passive(g)' => Passive(g)
    BY <1>3 DEF Passive
  <1>6. Reading' => Reading /\ rpc'.h = rpc.h
    BY <1>2 DEF Reading, OnSocket
  <1>7. ReaderLink'
    BY <1>5, <1>6, ReaderKept DEF ReaderMove
  <1>8. ASSUME NEW g \in Handles, InUse(g), g # k
        PROVE  Counted(g)' /\ ServerOk(g)'
    <2>1. ~CallbackAt(g) /\ ~CallbackAt(g)' /\ sockets'[g] = sockets[g]
      BY <1>1, <1>2, <1>3, <1>8 DEF CallbackAt
    <2> QED
      BY <1>4, <1>8, <2>1, CountEntry
  <1>9. ASSUME InUse(k)
        PROVE  Counted(k)' /\ ServerOk(k)'
    <2>1. CallbackAt(k) /\ ~CallbackAt(k)'
      BY <1>1, <1>2 DEF CallbackAt
    <2>2. "CONN_ACPT" \in ctl.val <=> sockets[k].pending > 0
      BY <1>9, <2>1 DEF CountInv, Counted, Base
    <2>3. Counted(k)'
      BY <1>3, <2>1, <2>2 DEF Counted, Base
    <2>4. Serves(k)' => Serves(k)
      BY <1>3, <2>1 DEF Serves
    <2>5. ServerOk(k)
      BY <1>9 DEF CountInv
    <2>6. "CONN_EST" \in ctl.bits => pico[Impl(k)].state = "estab"
      BY <1>9, <2>1 DEF LinkInv, EstLink, EstSeen, CallbackAt
    <2>7. Serves(k) => "CONN_EST" \notin ctl.bits
      BY <2>5, <2>6 DEF ServerOk, Listened
    <2>8. Serves(k)' => Passive(k)' /\ pico[Impl(k)].state \in Listened
      BY <1>3, <2>4, <2>5, <2>7 DEF ServerOk, Passive
    <2>9. pico'[Impl(k)'] = pico[Impl(k)]
      BY <1>2, <1>3 DEF Impl
    <2> QED
      BY <2>3, <2>8, <2>9 DEF ServerOk
  <1> QED
    BY <1>4, <1>7, <1>8, <1>9, CountKeeps

\* Every step of the control thread and of picoTCP.
LEMMA CountControl ==
    ASSUME ~ReuseAddresses, CountInv, QueueInv, LinkInv, IInv,
           TickOrData \/ PicoStep \/ CtlStep
    PROVE  CountInv'
  <1>0. ctl \in CtlRecord
    BY DEF IInv, TypeOK
  <1>1. ASSUME HeldQuiet, sockets' = sockets, rpc' = rpc,
               ctl' = ctl \/ (ctl.pc # "event" /\ ctl'.pc # "event")
        PROVE  CountInv'
    <2>1. Reading' => Reading /\ rpc'.h = rpc.h
      BY <1>1 DEF Reading, OnSocket
    <2> QED
      BY <1>1, <2>1, QuietListened, CountQuiet
  <1>2. CASE TickOrData \/ CtlWait \/ CtlLock \/ TickDone \/ CtlUnlock
    <2>1. /\ UNCHANGED <<pico, sockets, rpc>>
          /\ ctl' = ctl \/ (ctl.pc # "event" /\ ctl'.pc # "event")
      BY <1>0, <1>2, IdleFields
      DEF TickOrData, CtlWait, CtlLock, TickDone, CtlUnlock, CtlRecord
    <2> QED
      BY <1>1, <2>1 DEF HeldQuiet
  <1>3. ASSUME NotifyClear \/ \E c \in Clients : SkipClient(c) \/ NotifyClient(c)
        PROVE  CountInv'
    <2>1. /\ UNCHANGED <<pico, sockets, rpc>>
          /\ ctl.pc # "event" /\ ctl'.pc # "event"
      BY <1>0, <1>3 DEF NotifyClear, SkipClient, NotifyClient, CtlRecord
    <2> QED
      BY <1>1, <2>1 DEF HeldQuiet
  <1>4. ASSUME NEW a \in PicoSockets, NEW e \in PicoEvents, EventNoHandle(a, e)
        PROVE  CountInv'
    BY <1>1, <1>4, UnheldQuiet DEF EventNoHandle
  <1>5. CASE PicoStep
    BY <1>4, <1>5, CountEventBegin, CountIncoming DEF PicoStep
  <1> QED
    BY <1>2, <1>3, <1>5, CountEventEnd DEF CtlStep

\* A call that writes no event mask back afterwards.
LEMMA NoReader ==
    ASSUME rpc'.pc \in {"idle", "free", "visit", "advance", "freeing"}
    PROVE  ReaderLink' /\ ~Reading'
  BY DEF ReaderLink, Reading, OnSocket

\* A step of the RPC thread that changes nothing that counts.
LEMMA CountRpc ==
    ASSUME CountInv, LinkInv, IInv, SameLinks, ListenedMove, ctl' = ctl,
           ReaderLink' \/ (Reading' => Reading /\ rpc'.h = rpc.h),
           \A h \in Handles : InUse(h) =>
                /\ sockets'[h].connected = sockets[h].connected
                /\ sockets'[h].socketType = sockets[h].socketType
                /\ sockets'[h].pending = sockets[h].pending
                /\ "CONN_ACPT" \in sockets'[h].eventMask <=>
                                    "CONN_ACPT" \in sockets[h].eventMask
    PROVE  CountInv'
  <1>1. ASSUME NEW h \in Handles, InUse(h)
        PROVE  Counted(h)' /\ ServerOk(h)' /\ (Passive(h)' => Passive(h))
    BY <1>1, CountEntry DEF SameLinks
  <1>2. ReaderLink'
    BY <1>1, ReaderKept DEF ReaderMove
  <1> QED
    BY <1>1, <1>2, CountKeeps

\* The entry of the listening socket after accept.
LEMMA CountAccepted ==
    ASSUME CountInv, LinkInv, IInv, ListenedMove, rpc.pc = "locked", ctl' = ctl,
           NEW g \in Handles, InUse(g), sockets'[g] = AcceptedFrom(g)
    PROVE  Counted(g)' /\ ServerOk(g)'
  <1>0. sockets[g] \in SocketRecord
    BY DEF IInv, TypeOK, TableTypeOK
  <1>1. ~CallbackAt(g) /\ ~CallbackAt(g)'
    BY NoCallback DEF CallbackAt
  <1>2. /\ sockets[g].pending \in Nat
        /\ "CONN_ACPT" \in sockets[g].eventMask <=> sockets[g].pending > 0
    BY <1>1, PendingType DEF CountInv, Counted, Base
  <1>3. /\ sockets'[g].pending = IF sockets[g].pending > 0
                                 THEN sockets[g].pending - 1 ELSE 0
        /\ sockets'[g].eventMask = IF sockets'[g].pending = 0
                                   THEN sockets[g].eventMask \ {"CONN_ACPT"}
                                   ELSE sockets[g].eventMask
        /\ sockets'[g].connected = sockets[g].connected
        /\ sockets'[g].socketType = sockets[g].socketType
        /\ sockets'[g].impl = sockets[g].impl
    BY <1>0 DEF AcceptedFrom, SocketRecord
  <1>4. sockets'[g].pending > 0 => sockets[g].pending > 0
    BY <1>2, <1>3
  <1>5. Counted(g)'
    BY <1>1, <1>2, <1>3, <1>4 DEF Counted, Base
  <1>6. /\ Serves(g)' => Serves(g)
        /\ Passive(g)' = Passive(g) /\ Impl(g)' = Impl(g)
    BY <1>1, <1>3, <1>4 DEF Serves, Passive, Impl
  <1>7. pico[Impl(g)].state \in Listened => pico'[Impl(g)].state \in Listened
    BY HandleHeld DEF LinkInv, Linked, ListenedMove
  <1> QED
    BY <1>5, <1>6, <1>7 DEF CountInv, ServerOk

\* Nobody has written to a free entry a reservation may take.
LEMMA FreeIsClean ==
    ASSUME IInv, rpc.pc = "locked", NEW h \in Handles, ~InUse(h)
    PROVE  sockets[h].eventMask = {}
  BY DEF Freeing, IInv, LockInv, CleanInv

\* create or accept gives out an entry that counts nothing.
LEMMA CountReserve ==
    ASSUME CountInv, IInv, NEW h \in Handles, ~InUse(h),
           rpc.pc = "locked", rpc' = IdleRpc, ctl' = ctl,
           sockets'[h].eventMask = {}, sockets'[h].pending = 0,
           \A g \in Handles \ {h} :
                /\ sockets'[g].status = sockets[g].status
                /\ InUse(g) => Counted(g)' /\ ServerOk(g)'
    PROVE  CountInv'
  <1>1. ~CallbackAt(h)'
    BY NoCallback DEF CallbackAt
  <1>2. Counted(h)' /\ ServerOk(h)'
    BY <1>1 DEF Counted, Base, ServerOk, Serves
  <1>3. ReaderLink'
    BY IdleFields, NoReader
  <1> QED
    BY <1>2, <1>3 DEF CountInv, InUse

\* create.
LEMMA CountCreate ==
    ASSUME ~ReuseAddresses, CountInv, LinkInv, IInv, NEW a \in PicoSockets,
           NEW h \in Handles, NEW type, Create(a, h, type)
    PROVE  CountInv'
  <1>0. /\ sockets \in [Handles -> SocketRecord]
        /\ rpc.pc = "locked" /\ rpc' = IdleRpc /\ ctl' = ctl
        /\ NoHandleFound(a) /\ ~InUse(h)
    BY DEF IInv, TypeOK, TableTypeOK, Create, Locked, Unlock, Available,
           Reservable, InUse
  <1>1. /\ sockets'[h].eventMask = {} /\ sockets'[h].pending = 0
        /\ \A g \in Handles \ {h} : sockets'[g] = sockets[g]
    BY <1>0, FreeIsClean DEF Create, ReservedEntry, SocketRecord
  <1>2. \A b \in PicoSockets \ {a} : pico'[b] = pico[b]
    BY PicoTyped DEF Create, PicoOpen
  <1>3. ListenedMove
    BY <1>0, <1>2, QuietListened DEF HeldQuiet
  <1>4. ASSUME NEW g \in Handles \ {h}, InUse(g)
        PROVE  Counted(g)' /\ ServerOk(g)'
    BY <1>0, <1>1, <1>3, <1>4, CountEntry
  <1> QED
    BY <1>0, <1>1, <1>4, CountReserve

\* accept.
LEMMA CountAccept ==
    ASSUME CountInv, LinkInv, IInv, NEW b \in PicoSockets, NEW h \in Handles,
           Accept(b, h)
    PROVE  CountInv'
  <1>0. /\ sockets \in [Handles -> SocketRecord]
        /\ rpc.pc = "locked" /\ rpc.op # "create"
        /\ rpc' = IdleRpc /\ ctl' = ctl /\ ~InUse(h)
    BY DEF IInv, TypeOK, TableTypeOK, Accept, Locked, Unlock, Reservable, InUse
  <1>1. PICK k \in Handles : k = rpc.h /\ InUse(k) /\ k # h
    BY <1>0, OnSocketFacts
  <1>2. /\ sockets'[h].eventMask = {} /\ sockets'[h].pending = 0
        /\ sockets'[k] = AcceptedFrom(k)
        /\ \A g \in Handles \ {h, k} : sockets'[g] = sockets[g]
    BY <1>0, <1>1, FreeIsClean DEF Accept, ReservedEntry, SocketRecord
  <1>3. \A d \in PicoSockets : pico'[d].state = pico[d].state
    BY PicoTyped DEF Accept, PicoAccept, PicoRecord
  <1>4. ListenedMove
    BY <1>3, QuietListened DEF HeldQuiet
  <1>5. ASSUME NEW g \in Handles \ {h}, InUse(g)
        PROVE  Counted(g)' /\ ServerOk(g)'
    <2>1. CASE g = k
      BY <1>0, <1>2, <1>4, <1>5, <2>1, CountAccepted
    <2>2. CASE g # k
      BY <1>0, <1>2, <1>4, <1>5, <2>2, CountEntry
    <2> QED
      BY <2>1, <2>2
  <1>6. AcceptedFrom(k).status = sockets[k].status
    BY AcceptedFromLinks
  <1> QED
    BY <1>0, <1>2, <1>5, <1>6, CountReserve

\* create and accept without a free handle, and accept without a connection.
LEMMA CountRefused ==
    ASSUME ~ReuseAddresses, CountInv, LinkInv, IInv,
           \/ AcceptNone
           \/ \E a \in PicoSockets : \/ AcceptRefused(a)
                                     \/ \E type : CreateRefused(a, type)
    PROVE  CountInv'
  <1>0. sockets \in [Handles -> SocketRecord]
    BY DEF IInv, TypeOK, TableTypeOK
  <1>1. /\ rpc.pc = "locked" /\ rpc'.pc = "idle" /\ ctl' = ctl
    BY IdleFields DEF AcceptNone, AcceptRefused, CreateRefused, Locked, Unlock
  <1>2. ReaderLink'
    BY <1>1, NoReader
  <1>3. ASSUME NEW a \in PicoSockets, NEW type, CreateRefused(a, type)
        PROVE  CountInv'
    <2>1. /\ NoHandleFound(a) /\ sockets' = sockets
          /\ \A d \in PicoSockets \ {a} : pico'[d] = pico[d]
      BY <1>3, PicoTyped DEF CreateRefused, PicoOpen, Available
    <2>2. ListenedMove
      BY <2>1, QuietListened DEF HeldQuiet
    <2> QED
      BY <1>1, <1>2, <2>1, <2>2, CountQuiet
  <1>4. ASSUME ListenedMove, rpc.op # "create",
               sockets' = [sockets EXCEPT ![rpc.h] = AcceptedFrom(rpc.h)]
        PROVE  CountInv'
    <2>1. PICK k \in Handles : k = rpc.h /\ InUse(k)
      BY <1>1, <1>4, OnSocketFacts
    <2>2. /\ sockets'[k] = AcceptedFrom(k)
          /\ \A g \in Handles \ {k} : sockets'[g] = sockets[g]
      BY <1>0, <1>4, <2>1
    <2>3. SameLinks
      BY <2>2, AcceptedFromLinks DEF SameLinks
    <2>4. ASSUME NEW g \in Handles, InUse(g)
          PROVE  Counted(g)' /\ ServerOk(g)'
      BY <1>1, <1>4, <2>2, <2>4, CountAccepted, CountEntry
    <2> QED
      BY <1>2, <2>3, <2>4, CountKeeps
  <1>5. CASE AcceptNone
    BY <1>4, <1>5, QuietListened DEF AcceptNone, Locked, HeldQuiet
  <1>6. ASSUME NEW b \in PicoSockets, AcceptRefused(b)
        PROVE  CountInv'
    <2>1. /\ rpc.op # "create" /\ pico[b].parent = rpc.impl
          /\ \A d \in PicoSockets \ {b} : pico'[d] = pico[d]
      BY <1>6, PicoTyped DEF AcceptRefused, PicoAccept, Locked, Acceptable
    <2>2. NoHandleFound(b)
      BY <1>1, <2>1, OnSocketFacts, NoSockAssumption DEF LinkInv, Waiting
    <2>3. ListenedMove
      BY <2>1, <2>2, QuietListened DEF HeldQuiet
    <2> QED
      BY <1>4, <1>6, <2>1, <2>3 DEF AcceptRefused
  <1> QED
    BY <1>3, <1>5, <1>6

\* close.
LEMMA CountClose ==
    ASSUME CountInv, LinkInv, IInv, Close
    PROVE  CountInv'
  <1>0. /\ sockets \in [Handles -> SocketRecord]
        /\ rpc \in RpcRecord
        /\ rpc.pc = "locked" /\ rpc.op # "create"
    BY DEF IInv, TypeOK, TableTypeOK, Close, Locked
  <1>1. rpc.impl \in PicoSockets
    BY <1>0, OnSocketFacts
  <1>2. pico'[rpc.impl].state \in Listened
    BY <1>1, PicoTyped DEF Close, PicoClose, PicoRecord, Listened
  <1>3. ASSUME NEW a \in PicoSockets \ {rpc.impl}, ~NoHandleFound(a)
        PROVE  pico'[a] = pico[a]
    <2>1. pico[a].parent # rpc.impl
      BY <1>1, <1>3, NoSockAssumption DEF LinkInv, Waiting
    <2> QED
      BY <2>1 DEF Close, PicoClose
  <1>4. ListenedMove
    BY <1>2, <1>3 DEF ListenedMove
  <1>5. \A h \in Handles :
            /\ sockets'[h].status = sockets[h].status
            /\ sockets'[h].impl = sockets[h].impl
            /\ sockets'[h].connected = sockets[h].connected
            /\ sockets'[h].socketType = sockets[h].socketType
            /\ sockets'[h].pending = sockets[h].pending
            /\ "CONN_ACPT" \in sockets'[h].eventMask <=>
                                    "CONN_ACPT" \in sockets[h].eventMask
    BY <1>0 DEF Close, SocketRecord
  <1>6. rpc'.pc = "free" /\ ctl' = ctl
    BY <1>0 DEF Close, Unlock, RpcRecord
  <1>7. SameLinks
    BY <1>5 DEF SameLinks
  <1> QED
    BY <1>4, <1>5, <1>6, <1>7, NoReader, CountRpc

\* connect and listen.
LEMMA CountConnectOrListen ==
    ASSUME CountInv, LinkInv, IInv, NEW op \in {"connect", "listen"},
           NEW state \in {"synsent", "listen"}, ConnectOrListen(op, state)
    PROVE  CountInv'
  <1>0. /\ rpc.pc = "locked" /\ rpc.op # "create"
        /\ pico' \in PicoTurn(rpc.impl, state)
        /\ sockets' = sockets /\ ctl' = ctl /\ rpc'.pc = "idle"
    BY IdleFields DEF ConnectOrListen, Locked, Unlock
  <1>1. rpc.impl \in PicoSockets
    BY <1>0, OnSocketFacts
  <1>2. \/ pico' = pico
        \/ /\ pico[rpc.impl].state = "fresh"
           /\ pico' = [pico EXCEPT ![rpc.impl].state = state]
    BY <1>0 DEF PicoTurn
  <1>3. ListenedMove
    BY <1>1, <1>2, PicoTyped DEF PicoRecord, ListenedMove, Listened
  <1> QED
    BY <1>0, <1>3, NoReader, CountQuiet

\* read and recvfrom are admitted only on sockets that count nothing.
LEMMA CountClientCall ==
    ASSUME CountInv, LinkInv, IInv, ClientCall
    PROVE  CountInv'
  <1>1. /\ rpc'.pc \in {"lock", "free", "visit"}
        /\ UNCHANGED <<pico, ctl, sockets>>
    BY CallStarts DEF ClientCall, CallCreate, CallOnSocket, CallCloseAfterFin,
                      CallGetPendingEvents
  <1>2. ASSUME NEW c \in Clients, CallCreate(c)
        PROVE  ReaderLink'
    BY <1>2 DEF CallCreate, IdleRpc, ReaderLink, Reading, OnSocket
  <1>3. ASSUME NEW c \in Clients, NEW h \in Handles, NEW op \in SocketOps,
               CallOnSocket(c, op, h)
        PROVE  ReaderLink'
    <2>1. rpc'.pc = "lock" /\ rpc'.h = h /\ rpc'.op = op
      BY <1>3 DEF CallOnSocket, IdleRpc
    <2>2. op \in {"read", "recvfrom"} => ~Passive(h)
      BY <1>3 DEF CallOnSocket, Admits, ConnectedOps, DgramOps, Passive
    <2> QED
      BY <1>1, <2>1, <2>2 DEF ReaderLink, Reading, Passive
  <1>4. ASSUME NEW c \in Clients, NEW h \in Handles, CallCloseAfterFin(c, h)
        PROVE  ReaderLink'
    BY <1>4, NoReader DEF CallCloseAfterFin, IdleRpc
  <1>5. ASSUME NEW c \in Clients, NEW max \in 1..NumSockets,
               CallGetPendingEvents(c, max)
        PROVE  ReaderLink'
    BY <1>5, NoReader DEF CallGetPendingEvents, IdleRpc
  <1>6. ReaderLink'
    BY <1>2, <1>3, <1>4, <1>5 DEF ClientCall
  <1>7. ListenedMove
    BY <1>1 DEF ListenedMove
  <1> QED
    BY <1>1, <1>6, <1>7, CountQuiet

\* The event mask is stored for a socket that counts nothing.
LEMMA CountClearStore ==
    ASSUME CountInv, MaskInv, LinkInv, IInv, ClearStore
    PROVE  CountInv'
  <1>0. sockets \in [Handles -> SocketRecord]
    BY DEF IInv, TypeOK, TableTypeOK
  <1>1. /\ pico' = pico /\ ctl' = ctl
        /\ rpc.pc = "store" /\ rpc'.pc = "idle"
        /\ sockets' = [sockets EXCEPT ![rpc.h].eventMask = rpc.val \ {"READ"}]
    BY IdleFields DEF ClearStore
  <1>2. PICK k \in Handles : k = rpc.h /\ InUse(k)
    BY <1>1 DEF Holds, IInv, CallInv, SocketsOf, InUse
  <1>3. /\ \A g \in Handles \ {k} : sockets'[g] = sockets[g]
        /\ sockets'[k].status = sockets[k].status
        /\ sockets'[k].impl = sockets[k].impl
        /\ sockets'[k].connected = sockets[k].connected
        /\ sockets'[k].socketType = sockets[k].socketType
        /\ sockets'[k].pending = sockets[k].pending
        /\ sockets'[k].eventMask = rpc.val \ {"READ"}
    BY <1>0, <1>1, <1>2 DEF SocketRecord
  <1>4. ~Passive(k)
    BY <1>1, <1>2 DEF CountInv, ReaderLink, Reading
  <1>5. Counted(k) /\ ~Serves(k)
    BY <1>2, <1>4 DEF CountInv, ServerOk
  <1>6. "CONN_ACPT" \notin Base(k)
    BY <1>5 DEF Counted, Serves
  <1>7. "CONN_ACPT" \notin Base(k)'
    BY <1>1, <1>2, <1>3, <1>6 DEF Base, CallbackAt, MaskInv, StoreShrinks
  <1>8. Counted(k)' /\ ServerOk(k)'
    BY <1>1, <1>3, <1>5, <1>7 DEF Counted, ServerOk, Serves, CallbackAt
  <1>9. ListenedMove /\ SameLinks
    BY <1>1, <1>3 DEF ListenedMove, SameLinks
  <1>10. ASSUME NEW g \in Handles, InUse(g), g # k
         PROVE  Counted(g)' /\ ServerOk(g)'
    BY <1>1, <1>3, <1>9, <1>10, CountEntry
  <1> QED
    BY <1>1, <1>8, <1>9, <1>10, NoReader, CountKeeps

\* free_handle: the entry goes out of use.
LEMMA CountFreeHandle ==
    ASSUME CountInv, LinkInv, IInv, FreeHandle
    PROVE  CountInv'
  <1>a. PICK k \in Handles : k = rpc.h
    BY FreeHandleEffect DEF SocketsOf
  <1>0. sockets \in [Handles -> SocketRecord]
    BY DEF IInv, TypeOK, TableTypeOK
  <1>1. /\ sockets'[k].status = "FREE" /\ rpc'.pc = "freeing"
        /\ \A g \in Handles \ {k} : sockets'[g] = sockets[g]
        /\ pico' = pico /\ ctl' = ctl
    BY <1>a, <1>0, FreeHandleEffect DEF FreeHandle
  <1>2. ListenedMove
    BY <1>1 DEF ListenedMove
  <1>3. ASSUME NEW g \in Handles, InUse(g)'
        PROVE  Counted(g)' /\ ServerOk(g)'
    <2>1. InUse(g) /\ sockets'[g] = sockets[g]
      BY <1>1, <1>3 DEF InUse
    <2> QED
      BY <1>1, <1>2, <2>1, CountEntry
  <1> QED
    BY <1>1, <1>3, NoReader DEF CountInv

\* The steps of a call that change nothing that counts.
LEMMA CountPlain ==
    ASSUME CountInv, LinkInv, IInv,
           \/ CreateFails \/ \E op : PlainCall(op)
           \/ \E op \in {"read", "recvfrom"} : ReadFails(op) \/ ReadEmpty(op)
           \/ \E len \in 1..MaxRx + 1 : ReadSome(len)
           \/ RecvFromSome
           \/ RpcLock \/ ClearLoad \/ VisitQuiet \/ AfterPending
    PROVE  CountInv'
  <1>0. rpc \in RpcRecord
    BY DEF IInv, TypeOK
  <1>1. CASE CreateFails \/ \E op : PlainCall(op)
    <2>1. UNCHANGED <<pico, sockets, ctl>> /\ rpc'.pc = "idle"
      BY <1>1, IdleFields DEF CreateFails, PlainCall, Locked, Unlock
    <2> QED
      BY <2>1, NoReader, CountQuiet DEF ListenedMove
  <1>2. CASE \/ \E op \in {"read", "recvfrom"} : ReadFails(op) \/ ReadEmpty(op)
             \/ \E len \in 1..MaxRx + 1 : ReadSome(len)
             \/ RecvFromSome
    <2>1. /\ rpc.pc = "locked" /\ rpc.op \in {"read", "recvfrom"}
          /\ sockets' = sockets /\ ctl' = ctl
      BY <1>2 DEF ReadFails, ReadEmpty, ReadSome, RecvFromSome, Locked, Unlock
    <2>2. \A notify : ThenClear(notify).pc = "clear"
                      /\ ThenClear(notify).h = rpc.h
      BY <1>0 DEF ThenClear, RpcRecord
    <2>3. rpc'.pc = "idle" \/ rpc'.h = rpc.h
      BY <1>2, <2>2, IdleFields
      DEF ReadFails, ReadEmpty, ReadSome, RecvFromSome, Unlock
    <2>4. pico' = pico \/ \E n : pico' = PicoTake(rpc.impl, n)
      BY <1>2 DEF ReadFails, ReadEmpty, ReadSome, RecvFromSome
    <2>5. ListenedMove
      BY <2>1, <2>4, OnSocketFacts, TakeMove, QuietListened DEF PicoQuiet
    <2>6. Reading
      BY <2>1 DEF Reading, OnSocket
    <2> QED
      BY <2>1, <2>3, <2>5, <2>6, NoReader, CountQuiet
  <1>3. CASE RpcLock \/ ClearLoad
    <2>1. /\ UNCHANGED <<pico, sockets, ctl>>
          /\ rpc'.h = rpc.h /\ rpc'.op = rpc.op
          /\ \/ rpc.pc = "lock" /\ rpc'.pc = "locked"
             \/ rpc.pc = "clear" /\ rpc'.pc = "store"
      BY <1>0, <1>3 DEF RpcLock, ClearLoad, RpcRecord
    <2>2. Reading' => Reading
      BY <2>1 DEF Reading, OnSocket
    <2> QED
      BY <2>1, <2>2, CountQuiet DEF ListenedMove
  <1>4. CASE VisitQuiet \/ AfterPending
    <2>1. UNCHANGED <<pico, sockets, ctl>> /\ rpc'.pc \in {"idle", "visit"}
      BY <1>0, <1>4, IdleFields DEF VisitQuiet, AfterPending, Advance, RpcRecord
    <2> QED
      BY <2>1, NoReader, CountQuiet DEF ListenedMove
  <1> QED
    BY <1>1, <1>2, <1>3, <1>4

\* getPendingEvents leaves CONN_ACPT in the mask, and free_handle ends with
\* an entry that is not in use.
LEMMA CountEntries ==
    ASSUME CountInv, LinkInv, IInv, VisitPending \/ FreeHandleRest
    PROVE  CountInv'
  <1>0. /\ sockets \in [Handles -> SocketRecord]
        /\ rpc \in RpcRecord
    BY DEF IInv, TypeOK, TableTypeOK
  <1>1. /\ pico' = pico /\ ctl' = ctl /\ rpc'.pc \in {"idle", "advance"}
    BY <1>0, IdleFields DEF VisitPending, FreeHandleRest, RpcRecord
  <1>2. ASSUME NEW h \in Handles
        PROVE  /\ sockets'[h].status = sockets[h].status
               /\ sockets'[h].impl = sockets[h].impl
               /\ InUse(h) =>
                    /\ sockets'[h].connected = sockets[h].connected
                    /\ sockets'[h].socketType = sockets[h].socketType
                    /\ sockets'[h].pending = sockets[h].pending
                    /\ "CONN_ACPT" \in sockets'[h].eventMask <=>
                                    "CONN_ACPT" \in sockets[h].eventMask
    <2>1. CASE VisitPending
      BY <1>0, <2>1 DEF VisitPending, SocketRecord
    <2>2. CASE FreeHandleRest
      <3>1. PICK k \in Handles : k = rpc.h /\ ~InUse(k)
        BY <2>2, FreeHandleRestEffect DEF InUse
      <3>2. /\ \A g \in Handles \ {k} : sockets'[g] = sockets[g]
            /\ sockets'[k].status = sockets[k].status
            /\ sockets'[k].impl = sockets[k].impl
        <4>1. sockets' = [sockets EXCEPT ![k] = FreedEntry(k)]
          BY <2>2, <3>1, FreeHandleRestEffect
        <4>2. sockets[k] \in SocketRecord
          BY <1>0
        <4> QED
          BY <1>0, <4>1, <4>2 DEF FreedEntry, SocketRecord
      <3>3. CASE h = k
        BY <3>1, <3>2, <3>3
      <3>4. CASE h # k
        <4>1. sockets'[h] = sockets[h]
          BY <3>2, <3>4
        <4> QED
          BY <4>1
      <3> QED
        BY <3>3, <3>4
    <2> QED
      BY <2>1, <2>2
  <1>3. SameLinks /\ ListenedMove
    BY <1>1, <1>2 DEF SameLinks, ListenedMove
  <1> QED
    BY <1>1, <1>2, <1>3, NoReader, CountRpc

\* Every step.
LEMMA CountStep ==
    ASSUME ~ReuseAddresses, CountInv, MaskInv, QueueInv, LinkInv, IInv,
           [Next]_vars
    PROVE  CountInv'
  <1>1. CASE UNCHANGED vars
    <2>1. /\ pico' = pico /\ sockets' = sockets /\ rpc' = rpc /\ ctl' = ctl
      BY <1>1 DEF vars
    <2>2. Reading' => Reading /\ rpc'.h = rpc.h
      BY <2>1 DEF Reading, OnSocket
    <2> QED
      BY <2>1, <2>2, CountQuiet DEF ListenedMove
  <1>2. CASE RpcCritical
    <2>1. ASSUME NEW a \in PicoSockets, NEW type \in SocketTypes,
                 CreateRefused(a, type) \/ \E h \in Handles : Create(a, h, type)
          PROVE  CountInv'
      BY <2>1, CountCreate, CountRefused
    <2>2. CASE Connect \/ Listen
      BY <2>2, CountConnectOrListen DEF Connect, Listen
    <2>3. ASSUME NEW b \in PicoSockets,
                 AcceptRefused(b) \/ \E h \in Handles : Accept(b, h)
          PROVE  CountInv'
      BY <2>3, CountAccept, CountRefused
    <2> QED
      BY <1>2, <2>1, <2>2, <2>3, CountClose, CountRefused, CountPlain
      DEF RpcCritical, Bind, Write, SendTo
  <1> QED
    BY <1>1, <1>2, CountControl, CountClientCall, CountPlain, CountEntries,
       CountClearStore, CountFreeHandle
    DEF Next, RpcStep

\* At start no entry is in use.
LEMMA CountInit == Init => CountInv
  <1> SUFFICES ASSUME Init
               PROVE  CountInv
    OBVIOUS
  <1>1. \A h \in Handles : ~InUse(h)
    BY DEF Init, TableInit, ZeroSocket, InUse
  <1>2. ReaderLink
    BY IdleFields DEF Init, ReaderLink, Reading, OnSocket
  <1> QED
    BY <1>1, <1>2 DEF CountInv

\* CONN_ACPT is set exactly while pendingConnections is positive: the update
\* that read and recvfrom make without a lock never hits a listening socket,
\* and accept takes the announcement with the last connection it counts, also
\* when that connection has died.
THEOREM AnnouncementCountedHolds ==
    ASSUME ~ReuseAddresses
    PROVE  Spec => []AnnouncementCounted
  <1>1. CountInv => AnnouncementCounted
    BY DEF CountInv, Counted, Base, CallbackAt, AnnouncementCounted
  <1>2. MaskInv /\ QueueInv /\ LinkInv /\ IInv /\ CountInv /\ [Next]_vars =>
            CountInv'
    BY CountStep
  <1> QED
    BY <1>1, <1>2, CountInit, Invariant, LinkHolds, QueueHolds, MasksCovered,
       PTL DEF Spec

-----------------------------------------------------------------------------
(* The callback and the clients.                                           *)

\* create and accept fill an entry, free_handle empties it.
LEMMA LinkedStep ==
    ASSUME IInv, Linked, [Next]_vars
    PROVE  Linked'
  <1>0. sockets \in [Handles -> SocketRecord]
    BY DEF IInv, TypeOK, TableTypeOK
  <1>1. ASSUME SameLinks
        PROVE  Linked'
    BY <1>1 DEF SameLinks, Linked, InUse, Impl
  <1>2. ASSUME NEW h \in Handles, NEW a \in PicoSockets,
               sockets'[h].status = "IN_USE", sockets'[h].impl = a,
               \A g \in Handles \ {h} :
                    /\ sockets'[g].status = sockets[g].status
                    /\ sockets'[g].impl = sockets[g].impl
        PROVE  Linked'
    BY <1>2 DEF Linked, InUse, Impl
  <1>3. ASSUME NEW a \in PicoSockets, NEW h \in Handles, NEW type \in SocketTypes,
               Create(a, h, type)
        PROVE  Linked'
    <2>1. /\ sockets'[h].status = "IN_USE" /\ sockets'[h].impl = a
          /\ \A g \in Handles \ {h} : sockets'[g] = sockets[g]
      BY <1>0, <1>3 DEF Create, ReservedEntry, SocketRecord
    <2> QED
      BY <1>2, <2>1
  <1>4. \A h \in Handles : /\ AcceptedFrom(h).status = sockets[h].status
                           /\ AcceptedFrom(h).impl = sockets[h].impl
    BY <1>0 DEF AcceptedFrom, SocketRecord
  <1>5. ASSUME NEW b \in PicoSockets, NEW h \in Handles, Accept(b, h)
        PROVE  Linked'
    <2>1. PICK g \in Handles : g = rpc.h /\ InUse(g)
      BY <1>5
      DEF Accept, Locked, IInv, CallInv, Holds, OnSocket, SocketsOf, InUse
    <2>2. g # h
      BY <1>5, <2>1 DEF Accept, Reservable, InUse
    <2>3. /\ sockets'[h] = [ReservedEntry(h, b, rpc.client) EXCEPT
                              !.parentHandle = g,
                              !.clientId = sockets[g].clientId,
                              !.socketType = "STREAM", !.connected = TRUE]
          /\ sockets'[g] = AcceptedFrom(g)
          /\ \A k \in Handles \ {g, h} : sockets'[k] = sockets[k]
      BY <1>0, <1>5, <2>1, <2>2 DEF Accept
    <2>4. sockets'[h].status = "IN_USE" /\ sockets'[h].impl = b
      BY <1>0, <2>3 DEF ReservedEntry, SocketRecord
    <2>5. \A k \in Handles \ {h} : /\ sockets'[k].status = sockets[k].status
                                   /\ sockets'[k].impl = sockets[k].impl
      BY <1>4, <2>1, <2>3
    <2> QED
      BY <1>2, <2>4, <2>5
  <1>6. CASE FreeHandle
    <2>1. PICK k \in Handles : /\ sockets' = [sockets EXCEPT
                                                    ![k] = HalfFreedEntry(k)]
                               /\ sockets'[k].status = "FREE"
      BY <1>6, FreeHandleEffect DEF SocketsOf
    <2>2. /\ sockets'[k].impl = NoSock
          /\ \A g \in Handles \ {k} : sockets'[g] = sockets[g]
      BY <1>0, <2>1 DEF HalfFreedEntry, SocketRecord
    <2>3. ~InUse(k)' /\ Impl(k)' = NoSock
      BY <2>1, <2>2 DEF InUse, Impl
    <2>4. \A g \in Handles \ {k} : InUse(g)' = InUse(g) /\ Impl(g)' = Impl(g)
      BY <2>2 DEF InUse, Impl
    <2> QED
      BY <2>3, <2>4 DEF Linked
  <1>7. ASSUME ClearStore \/ FreeHandleRest \/ VisitPending \/ Close
        PROVE  SameLinks
    <2>1. ASSUME ClearStore \/ VisitPending
          PROVE  SameLinks
      BY <1>0, <2>1 DEF ClearStore, VisitPending, SocketRecord, SameLinks
    <2>2. ASSUME Close
          PROVE  SameLinks
      BY <1>0, <2>2 DEF Close, SocketRecord, SameLinks
    <2>3. ASSUME FreeHandleRest
          PROVE  SameLinks
      BY <1>0, <2>3 DEF FreeHandleRest, FreedEntry, SocketRecord, SameLinks
    <2> QED
      BY <1>7, <2>1, <2>2, <2>3
  <1>8. ASSUME AcceptNone \/ \E b \in PicoSockets : AcceptRefused(b)
        PROVE  SameLinks
    BY <1>0, <1>4, <1>8 DEF AcceptNone, AcceptRefused, SameLinks
  <1>9. CASE sockets' = sockets
    BY <1>1, <1>9 DEF SameLinks
  <1>10. CASE RpcCritical
    BY <1>1, <1>3, <1>5, <1>7, <1>8, <1>9, <1>10
    DEF RpcCritical, CreateFails, CreateRefused, Connect, Listen,
        ConnectOrListen, PlainCall, Bind, Write, SendTo, ReadFails, ReadEmpty,
        ReadSome, RecvFromSome
  <1>11. CASE RpcStep
    BY <1>1, <1>6, <1>7, <1>9, <1>10, <1>11
    DEF RpcStep, RpcLock, ClearLoad, VisitQuiet, AfterPending
  <1>12. CASE UNCHANGED vars \/ ClientCall
    BY <1>9, <1>12
    DEF vars, ClientCall, CallCreate, CallOnSocket, CallCloseAfterFin,
        CallGetPendingEvents
  <1> QED
    BY <1>1, <1>11, <1>12, ControlLinks DEF Next

\* An entry has a pico socket exactly while it is in use, also when the heap
\* reuses addresses.
LEMMA LinkedHolds == Spec => []Linked
  <1>1. Init => Linked
    BY DEF Init, TableInit, ZeroSocket, Linked, InUse, Impl
  <1>2. IInv /\ Linked /\ [Next]_vars => Linked'
    BY LinkedStep
  <1> QED
    BY <1>1, <1>2, Invariant, PTL DEF Spec

\* The entry the callback works on is in use.
FoundInv ==
    /\ ctl.pc # "fault"
    /\ ctl.pc = "event" => InUse(ctl.h)

\* Where nobody closes, no entry is ever freed.
LEMMA FoundStep ==
    ASSUME "close" \notin Ops, IInv, OpsInv, Linked, FoundInv, [Next]_vars
    PROVE  FoundInv'
  <1>0. ctl \in CtlRecord
    BY DEF IInv, TypeOK
  <1>1. rpc.pc \notin {"free", "freeing"}
    BY DEF OpsInv
  <1>2. \A h \in Handles : InUse(h) => InUse(h)'
    <2>1. ~FreeHandle /\ ~FreeHandleRest
      BY <1>1 DEF FreeHandle, FreeHandleRest
    <2>2. ASSUME NEW h \in Handles, NEW g \in Handles, Reserves(g), InUse(h)
          PROVE  InUse(h)'
      BY <2>2 DEF Reserves, SameOwner, InUse
    <2> QED
      BY <2>1, <2>2, TableStep DEF Kept, SameOwner, InUse
  <1>3. CASE ctl' = ctl
    BY <1>2, <1>3 DEF FoundInv, IInv, CtlInv, InUse
  <1>4. ASSUME NEW h \in Handles, NEW a \in PicoSockets, NEW bits,
               HandleFound(a, h), Callback(h, bits)
        PROVE  FoundInv'
    <2>1. InUse(h)
      BY <1>4, NoSockAssumption DEF HandleFound, Linked, Impl
    <2>2. ctl'.pc = "event" /\ ctl'.h = h
      BY <1>0, <1>4 DEF Callback, CtlRecord
    <2> QED
      BY <1>2, <2>1, <2>2 DEF FoundInv, InUse
  <1>5. CASE PicoStep
    BY <1>3, <1>4, <1>5
    DEF PicoStep, EventBegin, EventNoHandle, EventIncoming
  <1>6. ~EventFault
    BY NoClientAssumption DEF EventFault, FoundInv, IInv, CtlInv, OwnerInv
  <1>7. CASE EventFinish \/ CtlUnlock
    <2>1. ctl'.pc \in {"tick", "wait"}
      BY <1>7 DEF EventFinish, CtlUnlock, IdleCtl
    <2> QED
      BY <2>1 DEF FoundInv
  <1>8. CASE CtlWait \/ CtlLock \/ TickDone \/ NotifyClear
             \/ \E c \in Clients : SkipClient(c) \/ NotifyClient(c)
    <2>1. ctl'.pc \in {"lock", "tick", "notify", "emitted"}
      BY <1>0, <1>8
      DEF CtlWait, CtlLock, TickDone, NotifyClear, SkipClient, NotifyClient,
          CtlRecord
    <2> QED
      BY <2>1 DEF FoundInv
  <1>9. CASE UNCHANGED vars \/ ClientCall \/ TickOrData
    BY <1>3, <1>9
    DEF vars, ClientCall, CallCreate, CallOnSocket, CallCloseAfterFin,
        CallGetPendingEvents, TickOrData
  <1>10. CASE RpcStep
    <2>1. ctl' = ctl
      BY <1>10
      DEF RpcStep, RpcLock, RpcCritical, CreateFails, CreateRefused, Create,
          Close, Connect, Listen, ConnectOrListen, PlainCall, Bind, Write,
          SendTo, AcceptNone, AcceptRefused, Accept, ReadFails, ReadEmpty,
          ReadSome, RecvFromSome, ClearLoad, ClearStore, FreeHandle,
          FreeHandleRest, VisitQuiet, VisitPending, AfterPending, Unlock
    <2> QED
      BY <1>3, <2>1
  <1> QED
    BY <1>5, <1>6, <1>7, <1>8, <1>9, <1>10 DEF Next, CtlStep

\* The comment that the callback always finds a client fails in the code;
\* it takes a close that frees the handle between the callback's look-up and
\* its use.  Where clients do not close sockets the control thread never
\* faults, whatever the peers do and whatever addresses the heap reuses.
THEOREM CallbackFindsClientWithoutClose ==
    ASSUME "close" \notin Ops
    PROVE  Spec => []CallbackFindsClient
  <1>1. Init => FoundInv
    BY DEF Init, IdleCtl, FoundInv
  <1>2. IInv /\ OpsInv /\ Linked /\ FoundInv /\ [Next]_vars => FoundInv'
    BY FoundStep
  <1>3. FoundInv => CallbackFindsClient
    BY DEF FoundInv, CallbackFindsClient, Faulted
  <1> QED
    BY <1>1, <1>2, <1>3, Invariant, OpsHold, LinkedHolds, PTL DEF Spec
=============================================================================
