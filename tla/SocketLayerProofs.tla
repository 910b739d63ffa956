------------------------- MODULE SocketLayerProofs -------------------------
(***************************************************************************)
(* Proofs about the socket layer, for every number of sockets, clients,    *)
(* quotas and pico sockets.                                                *)
(***************************************************************************)
EXTENDS SocketProps, TLAPS, FiniteSetTheorems

-----------------------------------------------------------------------------
(* The inductive invariant.                                                *)

\* A call on an existing socket, before or inside its critical section.
OnSocket == rpc.pc \in {"lock", "locked"} /\ rpc.op # "create"

\* The call relies on the socket at rpc.h.
Holds == OnSocket \/ rpc.pc \in {"clear", "store", "free"}

Freeing(h) == rpc.pc = "freeing" /\ rpc.h = h

\* Who holds the mutex.
LockInv ==
    /\ ts = "rpc" <=> rpc.pc = "locked"
    /\ ts = "ctl" <=> ctl.pc \notin {"wait", "lock"}

\* What a call knows between its checks and its last step.
CallInv ==
    /\ rpc.pc # "idle" => rpc.client \in Clients
    /\ Holds => rpc.h \in SocketsOf(rpc.client)
    /\ rpc.pc = "freeing" => /\ rpc.h \in Handles /\ ~InUse(rpc.h)
                             /\ sockets[rpc.h].clientId = rpc.client
    /\ OnSocket => rpc.impl \in PicoSockets

\* getPendingEvents copies another event only while there is room for one.
RoomInv ==
    /\ rpc.count <= rpc.max
    /\ rpc.pc = "visit" => rpc.count < rpc.max

\* What the control thread knows.
CtlInv ==
    /\ ctl.pc \in {"event", "fault"} => ctl.h \in Handles
    /\ ctl.pc = "emitted" => ctl.client \in Clients
    /\ ctl.pc = "event" /\ "CONN_ACPT" \in ctl.bits =>
            sockets[ctl.h].pending < MaxPending

\* An entry has an owner when it is in use, or just being freed.
OwnerInv ==
    \A h \in Handles :
        /\ InUse(h) => sockets[h].clientId \in Clients
        /\ ~InUse(h) => sockets[h].clientId = NoClient \/ Freeing(h)

\* A free entry has no events, unless it is just being freed or the control
\* thread has died over it (and keeps the mutex a reservation would need).
CleanInv ==
    \A h \in Handles :
        ~InUse(h) => \/ Freeing(h)
                     \/ ctl.pc = "fault" /\ ctl.h = h
                     \/ sockets[h].eventMask = {} /\ sockets[h].pending = 0

IInv ==
    /\ TypeOK
    /\ LockInv
    /\ CallInv
    /\ RoomInv
    /\ CtlInv
    /\ OwnerInv
    /\ CleanInv
    /\ QuotaKept

-----------------------------------------------------------------------------
(* Type correctness.                                                       *)

\* The threads at rest.
LEMMA IdleType == IdleRpc \in RpcRecord /\ IdleCtl \in CtlRecord
  BY NumSocketsAssumption DEF IdleRpc, RpcRecord, IdleCtl, CtlRecord

\* The fields of the threads at rest that the proofs need.
LEMMA IdleFields == /\ IdleRpc.pc = "idle"
                    /\ IdleRpc.count <= IdleRpc.max
                    /\ IdleRpc.notify = FALSE
                    /\ IdleCtl.pc = "wait"
  BY DEF IdleRpc, IdleCtl

\* The values of the table and of picoTCP at start.
LEMMA ZeroType == /\ NoPicoSocket \in PicoRecord
                  /\ ZeroSocket \in SocketRecord
                  /\ NewClient \in ClientRecord
  BY NumSocketsAssumption, MaxRxAssumption, MaxPendingAssumption
  DEF NoPicoSocket, PicoRecord, PicoStates, ZeroSocket, SocketRecord, Handles,
      NewClient, ClientRecord

\* The initial values (zeroed arrays, idle threads) have their types.
LEMMA TypeInit == Init => TypeOK
  BY IdleType, ZeroType
  DEF Init, TypeOK, PicoInit, PicoTypeOK, TableInit, TableTypeOK

\* Entering a call keeps every type.
LEMMA TypeClientCall == IInv /\ ClientCall => TypeOK'
  <1> SUFFICES ASSUME IInv, ClientCall
               PROVE  TypeOK'
    OBVIOUS
  <1> USE DEF IInv, TypeOK, PicoTypeOK, TableTypeOK
  <1>1. ASSUME NEW c \in Clients, CallCreate(c)
        PROVE  TypeOK'
    <2>1. rpc' \in RpcRecord
      BY <1>1, IdleType DEF CallCreate, RpcRecord
    <2> QED
      BY <1>1, <2>1 DEF CallCreate
  <1>2. ASSUME NEW c \in Clients, NEW h \in Handles, NEW op \in SocketOps,
               CallOnSocket(c, op, h)
        PROVE  TypeOK'
    <2>1. rpc' \in RpcRecord
      BY <1>2, IdleType
      DEF CallOnSocket, SocketRecord, RpcRecord
    <2> QED
      BY <1>2, <2>1 DEF CallOnSocket
  <1>3. ASSUME NEW c \in Clients, NEW h \in Handles, CallCloseAfterFin(c, h)
        PROVE  TypeOK'
    <2>1. rpc' \in RpcRecord
      BY <1>3, IdleType
      DEF CallCloseAfterFin, SocketOps, RpcRecord
    <2> QED
      BY <1>3, <2>1 DEF CallCloseAfterFin
  <1>4. ASSUME NEW c \in Clients, NEW max \in 1..NumSockets,
               CallGetPendingEvents(c, max)
        PROVE  TypeOK'
    <2>1. max \in 0..NumSockets
      BY NumSocketsAssumption
    <2>2. rpc' \in RpcRecord
      BY <1>4, <2>1, IdleType DEF CallGetPendingEvents, RpcRecord
    <2> QED
      BY <1>4, <2>2 DEF CallGetPendingEvents
  <1> QED
    BY <1>1, <1>2, <1>3, <1>4 DEF ClientCall

\* What picoTCP does keeps its sockets in their type.
LEMMA PicoEventType == \A e \in PicoEvents : e.to \in PicoStates
  BY DEF PicoEvents, AllPicoEvents, PicoEvent, PicoStates

\* A protocol event leaves picoTCP's sockets in their type.
LEMMA PicoAfterType ==
    ASSUME PicoTypeOK, NEW a \in PicoSockets, NEW e \in PicoEvents,
           CanHappen(a, e)
    PROVE  PicoAfter(a, e) \in [PicoSockets -> PicoRecord]
  <1>1. e.to \in PicoStates
    BY PicoEventType
  <1>2. CASE e.to = "free"
    BY <1>2, ZeroType DEF PicoAfter, PicoTypeOK
  <1>3. CASE e.to # "free"
    <2>1. CASE "RD" \in e.mask
      <3>1. pico[a].rx + 1 \in 0..MaxRx
        BY <2>1, MaxRxAssumption DEF CanHappen, PicoTypeOK, PicoRecord
      <3> QED
        BY <1>1, <1>3, <2>1, <3>1 DEF PicoAfter, PicoTypeOK, PicoRecord
    <2>2. CASE "RD" \notin e.mask
      BY <1>1, <1>3, <2>2 DEF PicoAfter, PicoTypeOK, PicoRecord
    <2> QED
      BY <2>1, <2>2
  <1> QED
    BY <1>2, <1>3

\* So does pico_socket_close().
LEMMA PicoCloseType ==
    ASSUME PicoTypeOK, NEW a \in PicoSockets
    PROVE  PicoClose(a) \in [PicoSockets -> PicoRecord]
  BY DEF PicoClose, PicoTypeOK, PicoRecord, PicoStates

\* So does a connection that arrives.
LEMMA PicoIncomingType ==
    ASSUME PicoTypeOK, NEW l \in PicoSockets, NEW b \in PicoSockets
    PROVE  PicoIncoming(l, b) \in [PicoSockets -> PicoRecord]
  BY ZeroType DEF PicoIncoming, PicoTypeOK, PicoRecord, PicoStates

\* The callback derives nothing but OS events.
LEMMA OsEventsType ==
    ASSUME NEW mask, NEW refused, NEW listening
    PROVE  OsEvents(mask, refused, listening) \in SUBSET EventBits
  BY DEF OsEvents, EventBits

\* The callback starts with well-typed locals.
LEMMA CallbackType ==
    ASSUME TypeOK, NEW h \in Handles, NEW bits \in SUBSET EventBits,
           Callback(h, bits)
    PROVE  ctl' \in CtlRecord
  BY DEF TypeOK, TableTypeOK, SocketRecord, Callback, CtlRecord

\* What the callback stores in the table is well typed.
LEMMA WithEventsType ==
    ASSUME TypeOK, CtlInv, ctl.pc = "event"
    PROVE  /\ ctl.h \in Handles
           /\ WithEvents(ctl.h) \in SocketRecord
  <1>1. ctl.h \in Handles /\ sockets[ctl.h] \in SocketRecord
    BY DEF CtlInv, TypeOK, TableTypeOK
  <1>2. ctl.val \cup ctl.bits \in SUBSET EventBits
    BY DEF TypeOK, CtlRecord
  <1>3. CASE "CONN_ACPT" \in ctl.bits
    <2>1. sockets[ctl.h].pending + 1 \in 0..MaxPending
      BY <1>1, <1>3, MaxPendingAssumption DEF CtlInv, SocketRecord
    <2> QED
      BY <1>1, <1>2, <1>3, <2>1 DEF WithEvents, SocketRecord
  <1>4. CASE "CONN_ACPT" \notin ctl.bits
    BY <1>1, <1>2, <1>4 DEF WithEvents, SocketRecord
  <1> QED
    BY <1>1, <1>3, <1>4

\* Every step of the control thread and of picoTCP keeps every type.
LEMMA TypeControl == IInv /\ (TickOrData \/ PicoStep \/ CtlStep) => TypeOK'
  <1> SUFFICES ASSUME IInv, TickOrData \/ PicoStep \/ CtlStep
               PROVE  TypeOK'
    OBVIOUS
  <1>0. TypeOK /\ PicoTypeOK /\ CtlInv
    BY DEF IInv, TypeOK
  <1> USE DEF TypeOK, PicoTypeOK, TableTypeOK
  <1>1. CASE TickOrData
    BY <1>0, <1>1 DEF TickOrData
  <1>2. CASE CtlWait
    BY <1>0, <1>2 DEF CtlWait, CtlRecord
  <1>3. CASE CtlLock
    BY <1>0, <1>3 DEF CtlLock, CtlRecord
  <1>4. ASSUME NEW a \in PicoSockets, NEW e \in PicoEvents, NEW h \in Handles,
               EventBegin(a, e, h)
        PROVE  TypeOK'
    BY <1>0, <1>4, PicoAfterType, CallbackType, OsEventsType DEF EventBegin
  <1>5. ASSUME NEW a \in PicoSockets, NEW e \in PicoEvents,
               EventNoHandle(a, e)
        PROVE  TypeOK'
    BY <1>0, <1>5, PicoAfterType, PicoCloseType DEF EventNoHandle
  <1>6. ASSUME NEW l \in PicoSockets, NEW b \in PicoSockets, NEW h \in Handles,
               EventIncoming(l, b, h)
        PROVE  TypeOK'
    BY <1>0, <1>6, PicoIncomingType, CallbackType, OsEventsType
    DEF EventIncoming
  <1>7. CASE EventFinish
    <2>1. clients' \in [Clients -> ClientRecord]
      BY <1>0, <1>7 DEF EventFinish, ClientRecord
    <2>2. ctl' \in CtlRecord
      BY <1>7, IdleType DEF EventFinish, CtlRecord
    <2> QED
      BY <1>0, <1>7, <2>1, <2>2, WithEventsType DEF EventFinish
  <1>8. CASE EventFault
    <2>1. ctl' \in CtlRecord
      BY <1>0, <1>8 DEF EventFault, CtlRecord
    <2> QED
      BY <1>0, <1>8, <2>1, WithEventsType DEF EventFault
  <1>9. CASE TickDone
    BY <1>0, <1>9 DEF TickDone, CtlRecord
  <1>10. ASSUME NEW c \in Clients, SkipClient(c)
         PROVE  TypeOK'
    BY <1>0, <1>10 DEF SkipClient, CtlRecord
  <1>11. ASSUME NEW c \in Clients, NotifyClient(c)
         PROVE  TypeOK'
    BY <1>0, <1>11 DEF NotifyClient, CtlRecord
  <1>12. CASE NotifyClear
    <2>1. clients' \in [Clients -> ClientRecord]
      BY <1>0, <1>12 DEF NotifyClear, ClientRecord
    <2>2. ctl' \in CtlRecord
      BY <1>0, <1>12 DEF NotifyClear, CtlRecord
    <2> QED
      BY <1>0, <1>12, <2>1, <2>2 DEF NotifyClear
  <1>13. CASE CtlUnlock
    BY <1>0, <1>13, IdleType DEF CtlUnlock
  <1> QED
    BY <1>1, <1>2, <1>3, <1>4, <1>5, <1>6, <1>7, <1>8, <1>9, <1>10, <1>11,
       <1>12, <1>13
    DEF PicoStep, CtlStep

\* What the RPC thread does keeps the table in its type.
LEMMA PicoOpenType ==
    ASSUME PicoTypeOK, NEW a \in PicoSockets, NEW type
    PROVE  PicoOpen(a, type) \in [PicoSockets -> PicoRecord]
  BY ZeroType DEF PicoOpen, PicoTypeOK, PicoRecord, PicoStates

\* The entry reserve_handle writes is well typed.
LEMMA ReservedType ==
    ASSUME TypeOK, NEW h \in Handles, NEW a \in PicoSockets, NEW c \in Clients
    PROVE  ReservedEntry(h, a, c) \in SocketRecord
  <1>1. sockets[h] \in SocketRecord
    BY DEF TypeOK, TableTypeOK
  <1>2. 0 \in 0..MaxPending
    BY MaxPendingAssumption
  <1> QED
    BY <1>1, <1>2 DEF ReservedEntry, SocketRecord

\* Counting a socket in or out keeps the client table in its type.
LEMMA CountType ==
    ASSUME TypeOK, NEW c \in Clients
    PROVE  /\ CountUp(c) \in [Clients -> ClientRecord]
           /\ CountDown(c) \in [Clients -> ClientRecord]
  BY DEF CountUp, CountDown, TypeOK, TableTypeOK, ClientRecord

\* The listening socket's entry after accept is well typed.
LEMMA AcceptedType ==
    ASSUME TypeOK, NEW h \in Handles
    PROVE  AcceptedFrom(h) \in SocketRecord
  <1> DEFINE left == IF sockets[h].pending > 0
                     THEN sockets[h].pending - 1 ELSE 0
             mask == IF left = 0 THEN sockets[h].eventMask \ {"CONN_ACPT"}
                                 ELSE sockets[h].eventMask
  <1>1. sockets[h] \in SocketRecord
    BY DEF TypeOK, TableTypeOK
  <1>2. left \in 0..MaxPending /\ mask \in SUBSET EventBits
    BY <1>1, MaxPendingAssumption DEF SocketRecord
  <1>3. AcceptedFrom(h) =
            [sockets[h] EXCEPT !.pending = left, !.eventMask = mask]
    BY DEF AcceptedFrom
  <1> HIDE DEF left, mask
  <1> QED
    BY <1>1, <1>2, <1>3 DEF SocketRecord

\* The entries free_handle writes are well typed.
LEMMA FreedType ==
    ASSUME TypeOK, NEW h \in Handles
    PROVE  /\ HalfFreedEntry(h) \in SocketRecord
           /\ FreedEntry(h) \in SocketRecord
  <1>1. sockets[h] \in SocketRecord
    BY DEF TypeOK, TableTypeOK
  <1>2. 0 \in 0..MaxPending
    BY MaxPendingAssumption
  <1> QED
    BY <1>1, <1>2 DEF HalfFreedEntry, FreedEntry, SocketRecord

\* The end of a round of getPendingEvents keeps head and tail in the table.
LEMMA AdvanceType ==
    ASSUME TypeOK, rpc.client \in Clients, Advance
    PROVE  /\ clients' \in [Clients -> ClientRecord]
           /\ rpc' \in RpcRecord
  <1> DEFINE c    == rpc.client
             next == NextIndex(clients[c].head)
  <1>1. /\ clients \in [Clients -> ClientRecord]
        /\ clients[c].head \in Handles
        /\ rpc \in RpcRecord
    BY DEF TypeOK, TableTypeOK, ClientRecord
  <1>2. next \in Handles
    BY <1>1, NumSocketsAssumption DEF NextIndex, Handles
  <1>3. rpc' = [rpc EXCEPT !.pc = "visit"] \/ rpc' = IdleRpc
    BY DEF Advance
  <1>4. rpc' \in RpcRecord
    BY <1>1, <1>3, IdleType DEF RpcRecord
  <1>5. \/ clients' = [clients EXCEPT ![c].head = next]
        \/ \E left \in BOOLEAN :
              clients' = [clients EXCEPT
                  ![c].head = next, ![c].tail = next,
                  ![c].needsToBeNotified =
                      IF left THEN TRUE ELSE @]
    <2>1. CASE GoesOn(next)
      BY <2>1 DEF Advance
    <2>2. CASE ~GoesOn(next)
      BY <2>2 DEF Advance
    <2> QED
      BY <2>1, <2>2
  <1> HIDE DEF next, c
  <1>6. c \in Clients
    BY DEF c
  <1>7. clients[c] \in ClientRecord
    BY <1>1, <1>6
  <1>8. CASE clients' = [clients EXCEPT ![c].head = next]
    <2>1. [clients[c] EXCEPT !.head = next] \in ClientRecord
      BY <1>2, <1>7 DEF ClientRecord
    <2> QED
      BY <1>1, <1>6, <1>8, <2>1, <1>4
  <1>9. ASSUME NEW left \in BOOLEAN,
               clients' = [clients EXCEPT
                  ![c].head = next, ![c].tail = next,
                  ![c].needsToBeNotified =
                      IF left THEN TRUE ELSE @]
        PROVE  clients' \in [Clients -> ClientRecord]
    <2>1. [clients[c] EXCEPT
              !.head = next, !.tail = next,
              !.needsToBeNotified = IF left THEN TRUE ELSE @] \in ClientRecord
      BY <1>2, <1>7 DEF ClientRecord
    <2> QED
      BY <1>1, <1>6, <1>9, <2>1
  <1> QED
    BY <1>4, <1>5, <1>8, <1>9

\* Every step of the RPC thread keeps every type.
LEMMA TypeRpcStep == IInv /\ RpcStep => TypeOK'
  <1> SUFFICES ASSUME IInv, RpcStep
               PROVE  TypeOK'
    OBVIOUS
  <1>0. TypeOK /\ PicoTypeOK /\ CallInv /\ RoomInv
    BY DEF IInv, TypeOK
  <1>a. rpc.pc # "idle" => rpc.client \in Clients
    BY <1>0 DEF CallInv
  <1>b. Holds => rpc.h \in Handles
    BY <1>0 DEF CallInv, SocketsOf
  <1>c. OnSocket => rpc.impl \in PicoSockets
    BY <1>0 DEF CallInv
  <1> USE DEF TypeOK, PicoTypeOK, TableTypeOK
  <1>1. CASE RpcLock
    BY <1>0, <1>1 DEF RpcLock, RpcRecord
  <1>2. CASE CreateFails
    BY <1>0, <1>2, IdleType DEF CreateFails, Unlock
  <1>3. ASSUME NEW a \in PicoSockets, NEW type \in SocketTypes,
               CreateRefused(a, type)
        PROVE  TypeOK'
    <2>1. pico' \in [PicoSockets -> PicoRecord]
      BY <1>0, <1>3, PicoOpenType DEF CreateRefused, PicoRecord, PicoStates
    <2> QED
      BY <1>0, <1>3, <2>1, IdleType DEF CreateRefused, Unlock
  <1>4. ASSUME NEW a \in PicoSockets, NEW type \in SocketTypes,
               NEW h \in Handles, Create(a, h, type)
        PROVE  TypeOK'
    <2>1. [ReservedEntry(h, a, rpc.client) EXCEPT !.socketType = type]
            \in SocketRecord
      BY <1>0, <1>a, <1>4, ReservedType, SocketTypesAssumption
      DEF Create, Locked, SocketRecord
    <2> QED
      BY <1>0, <1>a, <1>4, <2>1, PicoOpenType, CountType, IdleType
      DEF Create, Locked, Unlock
  <1>5. CASE Close
    <2>1. rpc.h \in Handles /\ rpc.impl \in PicoSockets
      BY <1>b, <1>c, <1>5 DEF Close, Locked, Holds, OnSocket
    <2>2. sockets' \in [Handles -> SocketRecord]
      BY <1>0, <1>5, <2>1 DEF Close, SocketRecord
    <2>3. rpc' \in RpcRecord
      BY <1>0, <1>5 DEF Close, Unlock, RpcRecord
    <2> QED
      BY <1>0, <1>5, <2>1, <2>2, <2>3, PicoCloseType DEF Close, Unlock
  <1>6. ASSUME NEW op \in {"connect", "listen"},
               NEW state \in {"synsent", "listen"}, ConnectOrListen(op, state)
        PROVE  TypeOK'
    <2>1. rpc.impl \in PicoSockets
      BY <1>c, <1>6 DEF ConnectOrListen, Locked, OnSocket
    <2>2. pico' \in [PicoSockets -> PicoRecord]
      BY <1>0, <1>6, <2>1
      DEF ConnectOrListen, PicoTurn, PicoRecord, PicoStates
    <2> QED
      BY <1>0, <1>6, <2>2, IdleType DEF ConnectOrListen, Unlock
  <1>7. ASSUME NEW op, PlainCall(op)
        PROVE  TypeOK'
    BY <1>0, <1>7, IdleType DEF PlainCall, Unlock
  <1>8. CASE AcceptNone
    <2>1. rpc.h \in Handles
      BY <1>b, <1>8 DEF AcceptNone, Locked, Holds, OnSocket
    <2> QED
      BY <1>0, <1>8, <2>1, AcceptedType, IdleType DEF AcceptNone, Unlock
  <1>9. ASSUME NEW b \in PicoSockets, AcceptRefused(b)
        PROVE  TypeOK'
    <2>1. rpc.h \in Handles
      BY <1>b, <1>9 DEF AcceptRefused, Locked, Holds, OnSocket
    <2>2. pico' \in [PicoSockets -> PicoRecord]
      <3>1. PicoAccept(b) \in [PicoSockets -> PicoRecord]
        BY <1>0 DEF PicoAccept, PicoRecord
      <3>2. pico' = [PicoAccept(b) EXCEPT ![b].state = "closing"]
        BY <1>9 DEF AcceptRefused
      <3> HIDE DEF PicoTypeOK
      <3> QED
        BY <3>1, <3>2 DEF PicoRecord, PicoStates
    <2> QED
      BY <1>0, <1>9, <2>1, <2>2, AcceptedType, IdleType
      DEF AcceptRefused, Unlock
  <1>10. ASSUME NEW b \in PicoSockets, NEW h \in Handles, Accept(b, h)
         PROVE  TypeOK'
    <2>1. rpc.h \in Handles
      BY <1>b, <1>10 DEF Accept, Locked, Holds, OnSocket
    <2>2. pico' \in [PicoSockets -> PicoRecord]
      BY <1>0, <1>10 DEF Accept, PicoAccept, PicoRecord
    <2>3. [ReservedEntry(h, b, rpc.client) EXCEPT
                !.parentHandle = rpc.h,
                !.clientId = sockets[rpc.h].clientId,
                !.socketType = "STREAM", !.connected = TRUE] \in SocketRecord
      <3>1. ReservedEntry(h, b, rpc.client) \in SocketRecord
        BY <1>0, <1>a, <1>10, ReservedType DEF Accept, Locked
      <3>2. sockets[rpc.h].clientId \in Clients \cup {NoClient}
        BY <1>0, <2>1 DEF SocketRecord
      <3> QED
        BY <2>1, <3>1, <3>2 DEF SocketRecord
    <2> QED
      BY <1>0, <1>a, <1>10, <2>1, <2>2, <2>3, AcceptedType, CountType, IdleType
      DEF Accept, Locked, Unlock
  <1>11. ASSUME NEW op \in {"read", "recvfrom"}, ReadFails(op) \/ ReadEmpty(op)
         PROVE  TypeOK'
    BY <1>0, <1>11 DEF ReadFails, ReadEmpty, ThenClear, Unlock, RpcRecord
  <1>12. ASSUME NEW op \in {"read", "recvfrom"}, Locked(op),
                NEW n \in 1..pico[rpc.impl].rx
         PROVE  PicoTake(rpc.impl, n) \in [PicoSockets -> PicoRecord]
    <2>1. rpc.impl \in PicoSockets
      BY <1>c, <1>12 DEF Locked, OnSocket
    <2> QED
      BY <1>0, <2>1, MaxRxAssumption DEF PicoTake, PicoRecord
  <1>13. ASSUME NEW len \in 1..MaxRx + 1, ReadSome(len)
         PROVE  TypeOK'
    <2> DEFINE n == IF len < pico[rpc.impl].rx THEN len ELSE pico[rpc.impl].rx
    <2>1. rpc.impl \in PicoSockets
      BY <1>c, <1>13 DEF ReadSome, Locked, OnSocket
    <2>2. n \in 1..pico[rpc.impl].rx
      BY <1>0, <1>13, <2>1, MaxRxAssumption DEF ReadSome, PicoRecord
    <2>3. pico' \in [PicoSockets -> PicoRecord]
      BY <1>12, <1>13, <2>2 DEF ReadSome
    <2>4. rpc' \in RpcRecord
      BY <1>0, <1>13, IdleType DEF ReadSome, ThenClear, Unlock, RpcRecord
    <2> QED
      BY <1>0, <1>13, <2>3, <2>4 DEF ReadSome, Unlock
  <1>14. CASE RecvFromSome
    <2>1. rpc.impl \in PicoSockets
      BY <1>c, <1>14 DEF RecvFromSome, Locked, OnSocket
    <2>2. 1 \in 1..pico[rpc.impl].rx
      BY <1>0, <1>14, <2>1, MaxRxAssumption DEF RecvFromSome, PicoRecord
    <2>3. pico' \in [PicoSockets -> PicoRecord]
      BY <1>12, <1>14, <2>2 DEF RecvFromSome
    <2> QED
      BY <1>0, <1>14, <2>3, IdleType DEF RecvFromSome, Unlock
  <1>15. CASE ClearLoad
    <2>1. rpc.h \in Handles
      BY <1>b, <1>15 DEF ClearLoad, Holds
    <2> QED
      BY <1>0, <1>15, <2>1 DEF ClearLoad, RpcRecord, SocketRecord
  <1>16. CASE ClearStore
    <2>1. rpc.h \in Handles
      BY <1>b, <1>16 DEF ClearStore, Holds
    <2>2. sockets' \in [Handles -> SocketRecord]
      BY <1>0, <1>16, <2>1 DEF ClearStore, RpcRecord, SocketRecord
    <2> QED
      BY <1>0, <1>16, <2>2, IdleType DEF ClearStore
  <1>17. CASE FreeHandle
    <2>1. rpc.h \in Handles /\ rpc.client \in Clients
      BY <1>a, <1>b, <1>17 DEF FreeHandle, Holds
    <2> QED
      BY <1>0, <1>17, <2>1, FreedType, CountType DEF FreeHandle, RpcRecord
  <1>18. CASE FreeHandleRest
    <2>1. rpc.h \in Handles
      BY <1>0, <1>18 DEF FreeHandleRest, CallInv
    <2> QED
      BY <1>0, <1>18, <2>1, FreedType, IdleType DEF FreeHandleRest
  <1>19. CASE VisitQuiet
    BY <1>0, <1>a, <1>19, AdvanceType DEF VisitQuiet
  <1>20. CASE VisitPending
    <2>1. clients[rpc.client].head \in Handles
      BY <1>0, <1>a, <1>20 DEF VisitPending, ClientRecord
    <2>2. sockets' \in [Handles -> SocketRecord]
      BY <1>0, <1>20, <2>1 DEF VisitPending, SocketRecord
    <2>3. rpc' \in RpcRecord
      <3>1. rpc.count + 1 \in 0..NumSockets
        BY <1>0, <1>20, NumSocketsAssumption
        DEF VisitPending, RoomInv, RpcRecord
      <3> QED
        BY <1>0, <1>20, <3>1 DEF VisitPending, RpcRecord
    <2> QED
      BY <1>0, <1>20, <2>2, <2>3 DEF VisitPending
  <1>21. CASE AfterPending
    BY <1>0, <1>a, <1>21, AdvanceType DEF AfterPending
  <1> QED
    BY <1>1, <1>2, <1>3, <1>4, <1>5, <1>6, <1>7, <1>8, <1>9, <1>10, <1>11,
       <1>13, <1>14, <1>15, <1>16, <1>17, <1>18, <1>19, <1>20, <1>21
    DEF RpcStep, RpcCritical, Connect, Listen, Bind, Write, SendTo

\* Every step keeps every type.
LEMMA TypeStep == IInv /\ [Next]_vars => TypeOK'
  <1>1. IInv /\ UNCHANGED vars => TypeOK'
    BY DEF IInv, TypeOK, PicoTypeOK, TableTypeOK, vars
  <1> QED
    BY <1>1, TypeClientCall, TypeControl, TypeRpcStep DEF Next

-----------------------------------------------------------------------------
(* The mutex.                                                              *)

\* A call starts at a thread at rest and leaves the mutex and the table alone.
LEMMA CallStarts ==
    ASSUME ClientCall
    PROVE  /\ rpc.pc = "idle"
           /\ rpc'.pc \in {"lock", "free", "visit"}
           /\ UNCHANGED <<ts, ctl, sockets, clients>>
  <1>1. PICK c \in Clients :
            \/ CallCreate(c)
            \/ \E h \in Handles, op \in SocketOps : CallOnSocket(c, op, h)
            \/ \E h \in Handles : CallCloseAfterFin(c, h)
            \/ \E max \in 1..NumSockets : CallGetPendingEvents(c, max)
    BY DEF ClientCall
  <1>2. CASE CallCreate(c)
    BY <1>2 DEF CallCreate, IdleRpc
  <1>3. ASSUME NEW h \in Handles, NEW op \in SocketOps, CallOnSocket(c, op, h)
        PROVE  /\ rpc.pc = "idle"
               /\ rpc'.pc = "lock"
               /\ UNCHANGED <<ts, ctl, sockets, clients>>
    BY <1>3 DEF CallOnSocket, IdleRpc
  <1>4. ASSUME NEW h \in Handles, CallCloseAfterFin(c, h)
        PROVE  /\ rpc.pc = "idle"
               /\ rpc'.pc = "free"
               /\ UNCHANGED <<ts, ctl, sockets, clients>>
    BY <1>4 DEF CallCloseAfterFin, IdleRpc
  <1>5. ASSUME NEW max \in 1..NumSockets, CallGetPendingEvents(c, max)
        PROVE  /\ rpc.pc = "idle"
               /\ rpc'.pc = "visit"
               /\ UNCHANGED <<ts, ctl, sockets, clients>>
    BY <1>5 DEF CallGetPendingEvents, IdleRpc
  <1> QED
    BY <1>1, <1>2, <1>3, <1>4, <1>5

\* Every step keeps the mutex with the thread that is inside its critical
\* section: no path returns with the mutex held, none unlocks it for another.
LEMMA LockStep == IInv /\ [Next]_vars => LockInv'
  <1> SUFFICES ASSUME IInv, [Next]_vars
               PROVE  LockInv'
    OBVIOUS
  <1>0. LockInv /\ rpc \in RpcRecord /\ ctl \in CtlRecord
    BY DEF IInv, TypeOK
  <1> USE DEF LockInv
  <1>1. CASE UNCHANGED vars
    BY <1>0, <1>1 DEF vars
  <1>2. CASE ClientCall
    BY <1>0, <1>2, CallStarts
  <1>3. CASE RpcLock
    BY <1>0, <1>3 DEF RpcLock, RpcRecord
  <1>4. ASSUME NEW next \in RpcRecord, next.pc # "locked", NEW notify,
               rpc.pc = "locked", Unlock(next, notify)
        PROVE  LockInv'
    BY <1>0, <1>4 DEF Unlock
  <1>5. CASE RpcCritical
    <2>1. ThenClear(TRUE) \in RpcRecord /\ ThenClear(TRUE).pc # "locked"
      BY <1>0 DEF ThenClear, RpcRecord
    <2>2. ThenClear(FALSE) \in RpcRecord /\ ThenClear(FALSE).pc # "locked"
      BY <1>0 DEF ThenClear, RpcRecord
    <2>3. [rpc EXCEPT !.pc = "free"] \in RpcRecord
          /\ [rpc EXCEPT !.pc = "free"].pc # "locked"
      BY <1>0 DEF RpcRecord
    <2>4. CASE Close
      BY <1>4, <2>3, <2>4 DEF Close, Locked
    <2>5. ASSUME NEW op, ReadFails(op) \/ ReadEmpty(op)
          PROVE  LockInv'
      BY <1>4, <2>1, <2>2, <2>5 DEF ReadFails, ReadEmpty, Locked
    <2>6. ASSUME NEW len, ReadSome(len)
          PROVE  LockInv'
      BY <1>4, <2>2, <2>6, IdleType, IdleFields DEF ReadSome, Locked
    <2>7. ASSUME NEW notify, Unlock(IdleRpc, notify), rpc.pc = "locked"
          PROVE  LockInv'
      BY <1>4, <2>7, IdleType, IdleFields
    <2> QED
      BY <1>5, <2>4, <2>5, <2>6, <2>7
      DEF RpcCritical, CreateFails, CreateRefused, Create, Connect, Listen,
          ConnectOrListen, PlainCall, Bind, Write, SendTo, AcceptNone,
          AcceptRefused, Accept, RecvFromSome, Locked
  <1>6. CASE ClearLoad \/ ClearStore \/ FreeHandle \/ FreeHandleRest
    BY <1>0, <1>6, IdleFields
    DEF ClearLoad, ClearStore, FreeHandle, FreeHandleRest, RpcRecord
  <1>7. CASE VisitQuiet \/ VisitPending \/ AfterPending
    BY <1>0, <1>7, IdleFields
    DEF VisitQuiet, VisitPending, AfterPending, Advance, RpcRecord
  <1>8. CASE TickOrData \/ CtlWait \/ CtlLock \/ TickDone \/ CtlUnlock
    BY <1>0, <1>8, IdleFields
    DEF TickOrData, CtlWait, CtlLock, TickDone, CtlUnlock, CtlRecord
  <1>9. CASE PicoStep
    BY <1>0, <1>9
    DEF PicoStep, EventBegin, EventNoHandle, EventIncoming, Callback, CtlRecord
  <1>10. CASE EventFinish \/ EventFault
    BY <1>0, <1>10, IdleType DEF EventFinish, EventFault, CtlRecord
  <1>11. CASE NotifyClear
    BY <1>0, <1>11 DEF NotifyClear, CtlRecord
  <1>12. ASSUME NEW c \in Clients, SkipClient(c) \/ NotifyClient(c)
         PROVE  LockInv'
    BY <1>0, <1>12 DEF SkipClient, NotifyClient, CtlRecord
  <1> QED
    BY <1>1, <1>2, <1>3, <1>5, <1>6, <1>7, <1>8, <1>9, <1>10, <1>11, <1>12
    DEF Next, RpcStep, CtlStep

-----------------------------------------------------------------------------
(* What a step does to the table, as far as ownership is concerned:        *)
(* nothing, or a reservation, or one of the two halves of free_handle.     *)

SameOwner(h) ==
    /\ sockets'[h].status = sockets[h].status
    /\ sockets'[h].clientId = sockets[h].clientId

Kept ==
    /\ \A h \in Handles :
        /\ SameOwner(h)
        /\ ~InUse(h) => \/ sockets'[h] = sockets[h]
                        \/ Freeing(h)
                        \/ ctl'.pc = "fault" /\ ctl'.h = h
    /\ \A c \in Clients :
        clients'[c].currentSocketsInUse = clients[c].currentSocketsInUse
    /\ rpc.pc = "freeing" \/ rpc'.pc = "freeing" => rpc' = rpc

Reserves(h) ==
    /\ rpc.pc = "locked"
    /\ Reservable(rpc.client, h)
    /\ sockets'[h].status = "IN_USE"
    /\ sockets'[h].clientId = rpc.client
    /\ sockets'[h].eventMask = sockets[h].eventMask
    /\ sockets'[h].pending = 0
    /\ \A g \in Handles \ {h} :
        /\ SameOwner(g)
        /\ ~InUse(g) => sockets'[g] = sockets[g]
    /\ clients' = CountUp(rpc.client)
    /\ rpc' = IdleRpc
    /\ ctl' = ctl

\* Entering a call leaves ownership alone.
LEMMA TableClientCall == IInv /\ ClientCall => Kept
  <1> SUFFICES ASSUME ClientCall
               PROVE  Kept
    OBVIOUS
  <1> QED
    BY CallStarts DEF Kept, SameOwner

\* The control thread never changes who owns an entry.
LEMMA TableControl == IInv /\ (TickOrData \/ PicoStep \/ CtlStep) => Kept
  <1> SUFFICES ASSUME IInv, TickOrData \/ PicoStep \/ CtlStep
               PROVE  Kept
    OBVIOUS
  <1>0. TypeOK /\ CtlInv /\ OwnerInv
    BY DEF IInv
  <1>1. rpc' = rpc
    BY DEF TickOrData, PicoStep, CtlStep, CtlWait, CtlLock, EventBegin,
           EventNoHandle, EventIncoming, EventFinish, EventFault, TickDone,
           SkipClient, NotifyClient, NotifyClear, CtlUnlock
  <1>2. CASE EventFinish
    <2>1. ctl.h \in Handles /\ SameOwner(ctl.h)
          /\ \A h \in Handles \ {ctl.h} : sockets'[h] = sockets[h]
      BY <1>0, <1>2
      DEF EventFinish, CtlInv, TypeOK, TableTypeOK, SocketRecord, WithEvents,
          SameOwner
    <2>2. ~InUse(ctl.h) => Freeing(ctl.h)
      BY <1>0, <1>2, <2>1 DEF EventFinish, OwnerInv
    <2>3. \A c \in Clients :
            clients'[c].currentSocketsInUse = clients[c].currentSocketsInUse
      BY <1>0, <1>2 DEF EventFinish, TypeOK, TableTypeOK, ClientRecord
    <2> QED
      BY <1>1, <2>1, <2>2, <2>3 DEF Kept, SameOwner
  <1>3. CASE EventFault
    <2>1. ctl.h \in Handles /\ SameOwner(ctl.h)
          /\ \A h \in Handles \ {ctl.h} : sockets'[h] = sockets[h]
      BY <1>0, <1>3
      DEF EventFault, CtlInv, TypeOK, TableTypeOK, SocketRecord, WithEvents,
          SameOwner
    <2>2. ctl'.pc = "fault" /\ ctl'.h = ctl.h
      BY <1>0, <1>3 DEF EventFault, TypeOK, CtlRecord
    <2> QED
      BY <1>1, <1>3, <2>1, <2>2 DEF EventFault, Kept, SameOwner
  <1>4. CASE NotifyClear
    BY <1>0, <1>1, <1>4
    DEF NotifyClear, TypeOK, TableTypeOK, ClientRecord, Kept, SameOwner
  <1>5. CASE sockets' = sockets /\ clients' = clients
    BY <1>1, <1>5 DEF Kept, SameOwner
  <1> QED
    BY <1>2, <1>3, <1>4, <1>5
    DEF TickOrData, PicoStep, CtlStep, CtlWait, CtlLock, EventBegin,
        EventNoHandle, EventIncoming, TickDone, SkipClient, NotifyClient,
        CtlUnlock

\* The RPC thread changes ownership by reserving or freeing one entry only.
LEMMA TableRpcStep ==
    IInv /\ RpcStep => \/ Kept
                       \/ \E h \in Handles : Reserves(h)
                       \/ FreeHandle
                       \/ FreeHandleRest
  <1> SUFFICES ASSUME IInv, RpcStep, ~FreeHandle, ~FreeHandleRest
               PROVE  Kept \/ \E h \in Handles : Reserves(h)
    OBVIOUS
  <1>0. TypeOK /\ CallInv
    BY DEF IInv
  <1>a. /\ sockets \in [Handles -> SocketRecord]
        /\ clients \in [Clients -> ClientRecord]
        /\ rpc \in RpcRecord
    BY <1>0 DEF TypeOK, TableTypeOK
  <1>b. rpc.pc # "idle" => rpc.client \in Clients
    BY <1>0 DEF CallInv
  <1>c. Holds => rpc.h \in Handles /\ InUse(rpc.h)
                 /\ sockets[rpc.h].clientId = rpc.client
    BY <1>0 DEF CallInv, SocketsOf, InUse
  <1>d. rpc.pc # "freeing" /\ rpc'.pc # "freeing"
    BY <1>a, IdleFields
    DEF RpcStep, RpcLock, RpcCritical, CreateFails, CreateRefused, Create,
        Close, Connect, Listen, ConnectOrListen, PlainCall, Bind, Write, SendTo,
        AcceptNone, AcceptRefused, Accept, ReadFails, ReadEmpty, ReadSome,
        ThenClear, RecvFromSome, ClearLoad, ClearStore, VisitQuiet,
        VisitPending, AfterPending, Advance, Locked, Unlock, RpcRecord
  <1>1. CASE sockets' = sockets /\ clients' = clients
    BY <1>1, <1>d DEF Kept, SameOwner
  <1>2. ASSUME NEW a \in PicoSockets, NEW type \in SocketTypes,
               NEW h \in Handles, Create(a, h, type)
        PROVE  Reserves(h)
    BY <1>a, <1>b, <1>2
    DEF Create, Locked, Unlock, ReservedEntry, SocketRecord, Reserves,
        SameOwner, InUse
  <1>3. CASE Close
    <2>1. rpc.h \in Handles /\ InUse(rpc.h)
      BY <1>c, <1>3 DEF Close, Locked, Holds, OnSocket
    <2> QED
      BY <1>a, <1>d, <1>3, <2>1
      DEF Close, SocketRecord, Kept, SameOwner
  <1>4. ASSUME NEW h \in Handles
        PROVE  /\ AcceptedFrom(h).status = sockets[h].status
               /\ AcceptedFrom(h).clientId = sockets[h].clientId
    BY <1>a DEF AcceptedFrom, SocketRecord
  <1>5. CASE AcceptNone \/ \E b \in PicoSockets : AcceptRefused(b)
    <2>1. rpc.h \in Handles /\ InUse(rpc.h)
      BY <1>c, <1>5 DEF AcceptNone, AcceptRefused, Locked, Holds, OnSocket
    <2>2. /\ sockets' = [sockets EXCEPT ![rpc.h] = AcceptedFrom(rpc.h)]
          /\ clients' = clients
      BY <1>5 DEF AcceptNone, AcceptRefused
    <2>3. \A h \in Handles : /\ SameOwner(h)
                             /\ ~InUse(h) => sockets'[h] = sockets[h]
      BY <1>a, <1>4, <2>1, <2>2 DEF SameOwner
    <2> QED
      BY <1>d, <2>2, <2>3 DEF Kept
  <1>6. ASSUME NEW b \in PicoSockets, NEW h \in Handles, Accept(b, h)
        PROVE  Reserves(h)
    <2>1. rpc.h \in Handles /\ InUse(rpc.h)
          /\ sockets[rpc.h].clientId = rpc.client
      BY <1>c, <1>6 DEF Accept, Locked, Holds, OnSocket
    <2>2. h # rpc.h
      BY <1>6, <2>1 DEF Accept, Reservable, InUse
    <2>3. \A g \in Handles \ {h} : /\ SameOwner(g)
                                   /\ ~InUse(g) => sockets'[g] = sockets[g]
      BY <1>a, <1>4, <1>6, <2>1, <2>2 DEF Accept, SameOwner
    <2>4. sockets'[h] = [ReservedEntry(h, b, rpc.client) EXCEPT
                            !.parentHandle = rpc.h,
                            !.clientId = sockets[rpc.h].clientId,
                            !.socketType = "STREAM", !.connected = TRUE]
      BY <1>a, <1>6, <2>1, <2>2 DEF Accept
    <2>5. /\ sockets'[h].status = "IN_USE"
          /\ sockets'[h].clientId = rpc.client
          /\ sockets'[h].eventMask = sockets[h].eventMask
          /\ sockets'[h].pending = 0
      BY <1>a, <2>1, <2>4 DEF ReservedEntry, SocketRecord
    <2>6. /\ rpc.pc = "locked"
          /\ Reservable(rpc.client, h)
          /\ clients' = CountUp(rpc.client)
          /\ rpc' = IdleRpc
          /\ ctl' = ctl
      BY <1>6 DEF Accept, Locked, Unlock
    <2> QED
      BY <2>3, <2>5, <2>6 DEF Reserves
  <1>7. CASE ClearStore
    <2>1. rpc.h \in Handles /\ InUse(rpc.h)
      BY <1>c, <1>7 DEF ClearStore, Holds
    <2> QED
      BY <1>a, <1>d, <1>7, <2>1
      DEF ClearStore, SocketRecord, Kept, SameOwner
  <1>8. ASSUME Advance, rpc.client \in Clients, sockets' = sockets
        PROVE  Kept
    BY <1>a, <1>d, <1>8 DEF Advance, ClientRecord, Kept, SameOwner
  <1>9. CASE VisitQuiet \/ AfterPending
    BY <1>b, <1>8, <1>9 DEF VisitQuiet, AfterPending
  <1>10. CASE VisitPending
    <2> DEFINE h == clients[rpc.client].head
    <2>1. h \in Handles
      BY <1>a, <1>b, <1>10 DEF VisitPending, ClientRecord
    <2>2. InUse(h)
      BY <1>b, <1>10, <2>1, NoClientAssumption
      DEF VisitPending, HasEvents, IInv, OwnerInv, Freeing
    <2> QED
      BY <1>a, <1>d, <1>10, <2>1, <2>2
      DEF VisitPending, SocketRecord, Kept, SameOwner
  <1> QED
    BY <1>1, <1>2, <1>3, <1>5, <1>6, <1>7, <1>9, <1>10
    DEF RpcStep, RpcLock, RpcCritical, CreateFails, CreateRefused, Connect,
        Listen, ConnectOrListen, PlainCall, Bind, Write, SendTo, ReadFails,
        ReadEmpty, ReadSome, RecvFromSome, ClearLoad, Unlock

\* The same for every step of the system.
LEMMA TableStep ==
    IInv /\ [Next]_vars => \/ Kept
                           \/ \E h \in Handles : Reserves(h)
                           \/ FreeHandle
                           \/ FreeHandleRest
  <1>1. UNCHANGED vars => Kept
    BY DEF vars, Kept, SameOwner
  <1> QED
    BY <1>1, TableClientCall, TableControl, TableRpcStep DEF Next

\* The two halves of free_handle.
LEMMA FreeHandleEffect ==
    ASSUME IInv, FreeHandle
    PROVE  /\ rpc.h \in SocketsOf(rpc.client)
           /\ rpc.client \in Clients
           /\ sockets' = [sockets EXCEPT ![rpc.h] = HalfFreedEntry(rpc.h)]
           /\ sockets'[rpc.h].status = "FREE"
           /\ sockets'[rpc.h].clientId = sockets[rpc.h].clientId
           /\ clients' = CountDown(rpc.client)
           /\ rpc' \in RpcRecord
           /\ rpc'.pc = "freeing" /\ rpc'.h = rpc.h /\ rpc'.client = rpc.client
           /\ ctl' = ctl
  <1>1. rpc.h \in SocketsOf(rpc.client) /\ rpc.client \in Clients
    BY DEF IInv, CallInv, Holds, FreeHandle
  <1>2. rpc.h \in Handles /\ sockets \in [Handles -> SocketRecord]
    BY <1>1 DEF SocketsOf, IInv, TypeOK, TableTypeOK
  <1>3. rpc' \in RpcRecord
        /\ rpc'.pc = "freeing" /\ rpc'.h = rpc.h /\ rpc'.client = rpc.client
    BY DEF IInv, TypeOK, FreeHandle, RpcRecord
  <1> QED
    BY <1>1, <1>2, <1>3 DEF FreeHandle, HalfFreedEntry, SocketRecord

\* The second half of free_handle.
LEMMA FreeHandleRestEffect ==
    ASSUME IInv, FreeHandleRest
    PROVE  /\ Freeing(rpc.h) /\ rpc.h \in Handles
           /\ sockets' = [sockets EXCEPT ![rpc.h] = FreedEntry(rpc.h)]
           /\ sockets[rpc.h].status = "FREE" /\ sockets'[rpc.h].status = "FREE"
           /\ sockets'[rpc.h].clientId = NoClient
           /\ sockets'[rpc.h].eventMask = {}
           /\ sockets'[rpc.h].pending = 0
           /\ clients' = clients
           /\ rpc' = IdleRpc
           /\ ctl' = ctl
  <1>1. Freeing(rpc.h) /\ rpc.h \in Handles /\ ~InUse(rpc.h)
    BY DEF IInv, CallInv, FreeHandleRest, Freeing
  <1>2. sockets \in [Handles -> SocketRecord]
    BY DEF IInv, TypeOK, TableTypeOK
  <1>3. sockets[rpc.h].status = "FREE"
    BY <1>1, <1>2 DEF InUse, SocketRecord
  <1> QED
    BY <1>1, <1>2, <1>3 DEF FreeHandleRest, FreedEntry, SocketRecord

\* A control thread that has faulted takes no step any more.
LEMMA FaultStays ==
    [Next]_vars /\ ctl \in CtlRecord /\ ctl.pc = "fault" => ctl' = ctl
  BY DEF Next, ClientCall, CallCreate, CallOnSocket, CallCloseAfterFin,
         CallGetPendingEvents, RpcStep, RpcLock, RpcCritical, CreateFails,
         CreateRefused, Create, Close, Connect, Listen, ConnectOrListen,
         PlainCall, Bind, Write, SendTo, AcceptNone, AcceptRefused, Accept,
         ReadFails, ReadEmpty, ReadSome, RecvFromSome, Unlock, ClearLoad,
         ClearStore, FreeHandle, FreeHandleRest, VisitQuiet, VisitPending,
         AfterPending, TickOrData, PicoStep, EventBegin, EventNoHandle,
         EventIncoming, CtlStep, CtlWait, CtlLock, EventFinish, EventFault,
         TickDone, SkipClient, NotifyClient, NotifyClear, CtlUnlock, vars

-----------------------------------------------------------------------------
(* Ownership, cleanliness and quota.                                       *)

\* Every step keeps each used entry with a client.
LEMMA OwnerStep == IInv /\ [Next]_vars => OwnerInv'
  <1> SUFFICES ASSUME IInv, [Next]_vars
               PROVE  OwnerInv'
    OBVIOUS
  <1>0. /\ OwnerInv
        /\ rpc.pc # "idle" => rpc.client \in Clients
        /\ sockets \in [Handles -> SocketRecord]
    BY DEF IInv, CallInv, TypeOK, TableTypeOK
  <1>1. CASE Kept
    BY <1>0, <1>1 DEF OwnerInv, Kept, SameOwner, InUse, Freeing
  <1>2. ASSUME NEW h \in Handles, Reserves(h)
        PROVE  OwnerInv'
    BY <1>0, <1>2 DEF OwnerInv, Reserves, SameOwner, InUse, Freeing
  <1>3. CASE FreeHandle
    <2>1. rpc.pc = "free"
      BY <1>3 DEF FreeHandle
    <2> QED
      BY <1>0, <1>3, <2>1, FreeHandleEffect
      DEF OwnerInv, InUse, Freeing, SocketsOf
  <1>4. CASE FreeHandleRest
    BY <1>0, <1>4, FreeHandleRestEffect DEF OwnerInv, InUse, Freeing
  <1> QED
    BY <1>1, <1>2, <1>3, <1>4, TableStep

\* Every step keeps free entries without events.
LEMMA CleanStep == IInv /\ [Next]_vars => CleanInv'
  <1> SUFFICES ASSUME IInv, [Next]_vars
               PROVE  CleanInv'
    OBVIOUS
  <1>0. /\ CleanInv
        /\ sockets \in [Handles -> SocketRecord]
        /\ ctl.pc = "fault" => ctl' = ctl
    BY FaultStays DEF IInv, TypeOK, TableTypeOK
  <1>1. CASE Kept
    BY <1>0, <1>1 DEF CleanInv, Kept, SameOwner, InUse, Freeing
  <1>2. ASSUME NEW h \in Handles, Reserves(h)
        PROVE  CleanInv'
    BY <1>0, <1>2 DEF CleanInv, Reserves, SameOwner, InUse, Freeing
  <1>3. CASE FreeHandle
    <2>1. rpc.pc = "free"
      BY <1>3 DEF FreeHandle
    <2> QED
      BY <1>0, <1>3, <2>1, FreeHandleEffect
      DEF CleanInv, InUse, Freeing, SocketsOf
  <1>4. CASE FreeHandleRest
    BY <1>0, <1>4, FreeHandleRestEffect DEF CleanInv, InUse, Freeing
  <1> QED
    BY <1>1, <1>2, <1>3, <1>4, TableStep

\* A client's sockets are a finite set, and change by one at most.
LEMMA SocketsOfFinite ==
    ASSUME NEW c
    PROVE  IsFiniteSet(SocketsOf(c)) /\ Cardinality(SocketsOf(c)) \in Nat
  <1>1. IsFiniteSet(Handles)
    BY NumSocketsAssumption, FS_Interval DEF Handles
  <1>2. SocketsOf(c) \subseteq Handles
    BY DEF SocketsOf
  <1> QED
    BY <1>1, <1>2, FS_Subset, FS_CardinalityType

\* Every step keeps the counter equal to the number of sockets held.
LEMMA QuotaStep == IInv /\ [Next]_vars => QuotaKept'
  <1> SUFFICES ASSUME IInv, [Next]_vars, NEW c \in Clients
               PROVE  /\ clients'[c].currentSocketsInUse =
                            Cardinality(SocketsOf(c)')
                      /\ clients'[c].currentSocketsInUse <= Quota[c]
    BY DEF QuotaKept
  <1> DEFINE used  == clients[c].currentSocketsInUse
             used2 == clients'[c].currentSocketsInUse
  <1>0. /\ used = Cardinality(SocketsOf(c))
        /\ used \in Nat
        /\ used <= Quota[c] /\ Quota[c] \in Nat
        /\ sockets \in [Handles -> SocketRecord]
        /\ clients \in [Clients -> ClientRecord]
        /\ rpc.pc # "idle" => rpc.client \in Clients
    BY SocketsOfFinite, QuotaAssumption
    DEF IInv, QuotaKept, TypeOK, TableTypeOK, CallInv
  <1>1. CASE Kept
    <2>1. SocketsOf(c)' = SocketsOf(c)
      BY <1>1 DEF Kept, SameOwner, SocketsOf
    <2> QED
      BY <1>0, <1>1, <2>1 DEF Kept
  <1>2. ASSUME NEW h \in Handles, Reserves(h)
        PROVE  used2 = Cardinality(SocketsOf(c)') /\ used2 <= Quota[c]
    <2>0. rpc.client \in Clients
      BY <1>0, <1>2 DEF Reserves
    <2>1. CASE rpc.client = c
      <3>1. SocketsOf(c)' = SocketsOf(c) \cup {h}
        BY <1>2, <2>1 DEF Reserves, SameOwner, SocketsOf
      <3>2. h \notin SocketsOf(c)
        BY <1>2 DEF Reserves, Reservable, SocketsOf
      <3>3. Cardinality(SocketsOf(c)') = Cardinality(SocketsOf(c)) + 1
        BY <3>1, <3>2, SocketsOfFinite, FS_AddElement
      <3>4. used2 = used + 1 /\ used < Quota[c]
        BY <1>0, <1>2, <2>1 DEF Reserves, Reservable, CountUp, ClientRecord
      <3> QED
        BY <1>0, <3>3, <3>4
    <2>2. CASE rpc.client # c
      <3>1. SocketsOf(c)' = SocketsOf(c)
        BY <1>2, <2>2 DEF Reserves, Reservable, SameOwner, SocketsOf
      <3>2. used2 = used
        BY <1>0, <1>2, <2>0, <2>2 DEF Reserves, CountUp, ClientRecord
      <3> QED
        BY <1>0, <3>1, <3>2
    <2> QED
      BY <2>1, <2>2
  <1>3. CASE FreeHandle
    <2>0. rpc.client \in Clients
      BY <1>3, FreeHandleEffect
    <2>1. CASE rpc.client = c
      <3>1. rpc.h \in SocketsOf(c)
        BY <1>3, <2>1, FreeHandleEffect
      <3>2. SocketsOf(c)' = SocketsOf(c) \ {rpc.h}
        BY <1>0, <1>3, <3>1, FreeHandleEffect DEF SocketsOf
      <3>3. Cardinality(SocketsOf(c)') = Cardinality(SocketsOf(c)) - 1
        BY <3>1, <3>2, SocketsOfFinite, FS_RemoveElement
      <3>4. used2 = used - 1
        BY <1>0, <1>3, <2>1, FreeHandleEffect DEF CountDown, ClientRecord
      <3> QED
        BY <1>0, <3>3, <3>4
    <2>2. CASE rpc.client # c
      <3>1. SocketsOf(c)' = SocketsOf(c)
        BY <1>0, <1>3, <2>2, FreeHandleEffect DEF SocketsOf
      <3>2. used2 = used
        BY <1>0, <1>3, <2>0, <2>2, FreeHandleEffect DEF CountDown, ClientRecord
      <3> QED
        BY <1>0, <3>1, <3>2
    <2> QED
      BY <2>1, <2>2
  <1>4. CASE FreeHandleRest
    <2>1. SocketsOf(c)' = SocketsOf(c)
      BY <1>0, <1>4, FreeHandleRestEffect DEF SocketsOf
    <2>2. used2 = used
      BY <1>4, FreeHandleRestEffect
    <2> QED
      BY <1>0, <2>1, <2>2
  <1> QED
    BY <1>1, <1>2, <1>3, <1>4, TableStep

-----------------------------------------------------------------------------
(* What the threads rely on between their steps.                           *)

\* Every step keeps what a call relies on between its own steps.
LEMMA CallStep == IInv /\ [Next]_vars => CallInv'
  <1> SUFFICES ASSUME IInv, [Next]_vars
               PROVE  CallInv'
    OBVIOUS
  <1>0. /\ CallInv /\ OwnerInv
        /\ sockets \in [Handles -> SocketRecord]
        /\ rpc \in RpcRecord
    BY DEF IInv, TypeOK, TableTypeOK
  <1>1. ASSUME ClientCall
        PROVE  CallInv'
    <2>1. ASSUME NEW c \in Clients, NEW op, NEW h \in Handles,
                 Admits(c, op, h), rpc.pc = "idle", sockets' = sockets
          PROVE  h \in SocketsOf(c)' /\ h \in SocketsOf(c)
      BY <1>0, <2>1, NoClientAssumption
      DEF Admits, OwnerInv, Freeing, InUse, SocketsOf
    <2>2. ASSUME NEW c \in Clients, CallCreate(c)
          PROVE  CallInv'
      BY <2>2, IdleType
      DEF CallCreate, CallInv, Holds, OnSocket, RpcRecord
    <2>3. ASSUME NEW c \in Clients, NEW h \in Handles, NEW op \in SocketOps,
                 CallOnSocket(c, op, h)
          PROVE  CallInv'
      <3>1. h \in SocketsOf(c)'
        BY <2>1, <2>3 DEF CallOnSocket
      <3>2. sockets[h].impl \in PicoSockets
        BY <1>0, <2>3 DEF CallOnSocket, SocketRecord
      <3>3. /\ rpc'.pc = "lock" /\ rpc'.client = c /\ rpc'.h = h
            /\ rpc'.impl = sockets[h].impl
        BY <2>3, IdleType DEF CallOnSocket, RpcRecord
      <3> QED
        BY <3>1, <3>2, <3>3 DEF CallInv, Holds, OnSocket, SocketsOf
    <2>4. ASSUME NEW c \in Clients, NEW h \in Handles, CallCloseAfterFin(c, h)
          PROVE  CallInv'
      <3>1. h \in SocketsOf(c)'
        BY <2>1, <2>4 DEF CallCloseAfterFin
      <3>2. rpc'.pc = "free" /\ rpc'.client = c /\ rpc'.h = h
        BY <2>4, IdleType DEF CallCloseAfterFin, RpcRecord
      <3> QED
        BY <3>1, <3>2 DEF CallInv, Holds, OnSocket, SocketsOf
    <2>5. ASSUME NEW c \in Clients, NEW max \in 1..NumSockets,
                 CallGetPendingEvents(c, max)
          PROVE  CallInv'
      <3>1. rpc'.pc = "visit" /\ rpc'.client = c
        BY <2>5, IdleType DEF CallGetPendingEvents, RpcRecord
      <3> QED
        BY <3>1 DEF CallInv, Holds, OnSocket
    <2> QED
      BY <1>1, <2>2, <2>3, <2>4, <2>5 DEF ClientCall
  <1>2. ASSUME rpc' = IdleRpc
        PROVE  CallInv'
    BY <1>2, IdleFields DEF CallInv, Holds, OnSocket
  <1>3. CASE FreeHandle
    BY <1>3, FreeHandleEffect DEF CallInv, Holds, OnSocket, InUse, SocketsOf
  <1>4. ASSUME Kept, rpc' \in RpcRecord,
               rpc'.client = rpc.client, rpc'.h = rpc.h, rpc'.impl = rpc.impl,
               rpc.pc # "idle", rpc'.pc # "freeing",
               Holds' => Holds,
               OnSocket' => OnSocket
        PROVE  CallInv'
    <2>1. Holds' => (rpc.h \in SocketsOf(rpc.client))'
      BY <1>0, <1>4 DEF CallInv, Kept, SameOwner, SocketsOf
    <2> QED
      BY <1>0, <1>4, <2>1 DEF CallInv
  <1>5. CASE Kept /\ rpc' = rpc
    <2>1. SocketsOf(rpc.client)' = SocketsOf(rpc.client)
      BY <1>5 DEF Kept, SameOwner, SocketsOf
    <2>2. rpc.pc = "freeing" =>
                ~InUse(rpc.h)' /\ sockets'[rpc.h].clientId = rpc.client
      BY <1>0, <1>5 DEF CallInv, Kept, SameOwner, InUse
    <2> QED
      BY <1>0, <1>5, <2>1, <2>2 DEF CallInv, Holds, OnSocket, SocketsOf
  <1>6. ASSUME RpcStep, rpc' # IdleRpc, ~FreeHandle
        PROVE  CallInv'
    <2>1. ~FreeHandleRest
      BY <1>6 DEF FreeHandleRest
    <2>2. Kept
      BY <1>6, <2>1, TableRpcStep DEF Reserves
    <2>3. rpc \in RpcRecord /\ rpc' \in RpcRecord
      BY <1>6, TypeRpcStep DEF IInv, TypeOK
    <2>4. ASSUME rpc' \in {[rpc EXCEPT !.pc = "locked"],
                           [rpc EXCEPT !.pc = "free"],
                           ThenClear(TRUE), ThenClear(FALSE)},
                 OnSocket \/ rpc' = [rpc EXCEPT !.pc = "locked"],
                 rpc.pc \in {"lock", "locked"}
          PROVE  CallInv'
      BY <1>4, <2>2, <2>3, <2>4
      DEF ThenClear, RpcRecord, Holds, OnSocket
    <2>5. CASE RpcLock
      BY <2>4, <2>5 DEF RpcLock
    <2>6. CASE RpcCritical
      BY <1>6, <2>4, <2>6
      DEF RpcCritical, CreateFails, CreateRefused, Create, Close, Connect,
          Listen, ConnectOrListen, PlainCall, Bind, Write, SendTo, AcceptNone,
          AcceptRefused, Accept, ReadFails, ReadEmpty, ReadSome, RecvFromSome,
          Locked, Unlock, OnSocket
    <2>7. CASE ClearLoad \/ ClearStore
      BY <1>4, <1>6, <2>2, <2>3, <2>7
      DEF ClearLoad, ClearStore, RpcRecord, Holds, OnSocket
    <2>8. ASSUME Advance, rpc.pc \in {"visit", "advance"}
          PROVE  CallInv'
      <3>1. rpc' = [rpc EXCEPT !.pc = "visit"]
        BY <1>6, <2>8 DEF Advance
      <3> QED
        BY <1>4, <2>2, <2>3, <2>8, <3>1 DEF RpcRecord, Holds, OnSocket
    <2>9. CASE VisitQuiet \/ VisitPending \/ AfterPending
      BY <1>4, <2>2, <2>3, <2>8, <2>9
      DEF VisitQuiet, VisitPending, AfterPending, RpcRecord, Holds, OnSocket
    <2> QED
      BY <1>6, <2>1, <2>5, <2>6, <2>7, <2>9 DEF RpcStep
  <1>7. CASE TickOrData \/ PicoStep \/ CtlStep \/ UNCHANGED vars
    <2>1. rpc' = rpc
      BY <1>7
      DEF TickOrData, PicoStep, CtlStep, CtlWait, CtlLock, EventBegin,
          EventNoHandle, EventIncoming, EventFinish, EventFault, TickDone,
          SkipClient, NotifyClient, NotifyClear, CtlUnlock, vars
    <2>2. Kept
      BY <1>7, TableControl DEF vars, Kept, SameOwner
    <2> QED
      BY <1>5, <2>1, <2>2
  <1> QED
    BY <1>1, <1>2, <1>3, <1>6, <1>7 DEF Next

\* Every step keeps the number of events copied within the limit: a call
\* starts with none, and Advance goes on only below the limit.
LEMMA RoomStep == IInv /\ [Next]_vars => RoomInv'
  <1> SUFFICES ASSUME IInv, [Next]_vars
               PROVE  RoomInv'
    OBVIOUS
  <1>0. RoomInv /\ rpc \in RpcRecord
    BY DEF IInv, TypeOK
  <1>1. ASSUME rpc' = IdleRpc
        PROVE  RoomInv'
    BY <1>1, IdleFields DEF RoomInv
  <1>2. ASSUME rpc'.count = rpc.count, rpc'.max = rpc.max, rpc'.pc # "visit"
        PROVE  RoomInv'
    BY <1>0, <1>2 DEF RoomInv
  <1>3. CASE rpc' = rpc
    BY <1>0, <1>3 DEF RoomInv
  <1>4. CASE ClientCall
    <2>1. ASSUME NEW c \in Clients,
                 \/ CallCreate(c)
                 \/ \E h \in Handles, op \in SocketOps : CallOnSocket(c, op, h)
                 \/ \E h \in Handles : CallCloseAfterFin(c, h)
          PROVE  /\ rpc'.count = IdleRpc.count /\ rpc'.max = IdleRpc.max
                 /\ rpc'.pc # "visit"
      <3>1. CASE CallCreate(c)
        BY <3>1 DEF CallCreate, IdleRpc
      <3>2. ASSUME NEW h \in Handles, NEW op \in SocketOps,
                   CallOnSocket(c, op, h)
            PROVE  /\ rpc'.count = IdleRpc.count /\ rpc'.max = IdleRpc.max
                   /\ rpc'.pc # "visit"
        BY <3>2 DEF CallOnSocket, IdleRpc
      <3>3. ASSUME NEW h \in Handles, CallCloseAfterFin(c, h)
            PROVE  /\ rpc'.count = IdleRpc.count /\ rpc'.max = IdleRpc.max
                   /\ rpc'.pc # "visit"
        BY <3>3 DEF CallCloseAfterFin, IdleRpc
      <3> QED
        BY <2>1, <3>1, <3>2, <3>3
    <2>2. ASSUME NEW c \in Clients, NEW max \in 1..NumSockets,
                 CallGetPendingEvents(c, max)
          PROVE  RoomInv'
      <3>1. rpc'.max = max /\ rpc'.count = 0
        BY <2>2, IdleType DEF CallGetPendingEvents, RpcRecord, IdleRpc
      <3> QED
        BY <3>1, NumSocketsAssumption DEF RoomInv
    <2> QED
      BY <1>4, <2>1, <2>2, IdleFields DEF ClientCall, RoomInv
  <1>5. CASE RpcLock \/ ClearLoad \/ FreeHandle
    BY <1>0, <1>2, <1>5 DEF RpcLock, ClearLoad, FreeHandle, RpcRecord
  <1>6. CASE RpcCritical
    BY <1>0, <1>1, <1>2, <1>6
    DEF RpcCritical, CreateFails, CreateRefused, Create, Close, Connect, Listen,
        ConnectOrListen, PlainCall, Bind, Write, SendTo, AcceptNone,
        AcceptRefused, Accept, ReadFails, ReadEmpty, ReadSome, ThenClear,
        RecvFromSome, Unlock, RpcRecord
  <1>7. CASE ClearStore \/ FreeHandleRest
    BY <1>1, <1>7 DEF ClearStore, FreeHandleRest
  <1>8. CASE VisitPending
    <2>1. /\ rpc'.count = rpc.count + 1 /\ rpc'.max = rpc.max
          /\ rpc'.pc = "advance" /\ rpc.count < rpc.max
      BY <1>0, <1>8 DEF VisitPending, RpcRecord, RoomInv
    <2> QED
      BY <1>0, <2>1, NumSocketsAssumption DEF RoomInv, RpcRecord
  <1>9. CASE VisitQuiet \/ AfterPending
    <2>1. \/ rpc' = [rpc EXCEPT !.pc = "visit"] /\ rpc.count < rpc.max
          \/ rpc' = IdleRpc
      BY <1>9 DEF VisitQuiet, AfterPending, Advance, GoesOn
    <2> QED
      BY <1>0, <1>1, <2>1 DEF RoomInv, RpcRecord
  <1>10. CASE TickOrData \/ PicoStep \/ CtlStep \/ UNCHANGED vars
    BY <1>3, <1>10
    DEF TickOrData, PicoStep, CtlStep, CtlWait, CtlLock, EventBegin,
        EventNoHandle, EventIncoming, EventFinish, EventFault, TickDone,
        SkipClient, NotifyClient, NotifyClear, CtlUnlock, vars
  <1> QED
    BY <1>4, <1>5, <1>6, <1>7, <1>8, <1>9, <1>10 DEF Next, RpcStep

\* Every step keeps what the control thread relies on.
LEMMA CtlStepInv == IInv /\ [Next]_vars => CtlInv'
  <1> SUFFICES ASSUME IInv, [Next]_vars
               PROVE  CtlInv'
    OBVIOUS
  <1>0. /\ CtlInv /\ CallInv /\ LockInv
        /\ sockets \in [Handles -> SocketRecord]
        /\ ctl \in CtlRecord
    BY DEF IInv, TypeOK, TableTypeOK
  <1>1. ASSUME ctl' = ctl,
               ctl.pc = "event" =>
                    sockets'[ctl.h].pending \in {0, sockets[ctl.h].pending}
        PROVE  CtlInv'
    BY <1>0, <1>1, MaxPendingAssumption DEF CtlInv
  <1>2. CASE ClientCall \/ UNCHANGED vars
    BY <1>0, <1>1, <1>2
    DEF ClientCall, CallCreate, CallOnSocket, CallCloseAfterFin,
        CallGetPendingEvents, vars
  <1>3. CASE RpcCritical
    <2>1. ctl' = ctl /\ rpc.pc = "locked"
      BY <1>3
      DEF RpcCritical, CreateFails, CreateRefused, Create, Close, Connect,
          Listen, ConnectOrListen, PlainCall, Bind, Write, SendTo, AcceptNone,
          AcceptRefused, Accept, ReadFails, ReadEmpty, ReadSome, RecvFromSome,
          Locked, Unlock
    <2> QED
      BY <1>0, <1>1, <2>1 DEF LockInv
  <1>4. CASE ClearStore
    BY <1>0, <1>1, <1>4 DEF ClearStore, CtlInv, SocketRecord
  <1>5. CASE FreeHandle
    BY <1>0, <1>1, <1>5
    DEF FreeHandle, HalfFreedEntry, CtlInv, SocketRecord
  <1>6. CASE FreeHandleRest
    BY <1>0, <1>1, <1>6
    DEF FreeHandleRest, FreedEntry, CtlInv, SocketRecord
  <1>7. CASE VisitPending
    BY <1>0, <1>1, <1>7 DEF VisitPending, CtlInv, LockInv
  <1>8. CASE RpcLock \/ ClearLoad \/ VisitQuiet \/ AfterPending \/ TickOrData
    BY <1>0, <1>1, <1>8 DEF RpcLock, ClearLoad, VisitQuiet, AfterPending,
                           TickOrData
  <1>9. ASSUME NEW h \in Handles, NEW bits, Callback(h, bits),
               sockets' = sockets,
               "CONN_ACPT" \in bits => sockets[h].pending < MaxPending
        PROVE  CtlInv'
    BY <1>0, <1>9 DEF Callback, CtlInv, CtlRecord
  <1>10. CASE PicoStep
    <2>1. ASSUME NEW a \in PicoSockets, NEW e \in PicoEvents,
                 NEW h \in Handles, EventBegin(a, e, h)
          PROVE  CtlInv'
      BY <1>9, <2>1 DEF EventBegin, OsEvents
    <2>2. ASSUME NEW a \in PicoSockets, NEW e \in PicoEvents,
                 EventNoHandle(a, e)
          PROVE  CtlInv'
      BY <1>1, <2>2 DEF EventNoHandle
    <2>3. ASSUME NEW l \in PicoSockets, NEW b \in PicoSockets,
                 NEW h \in Handles, EventIncoming(l, b, h)
          PROVE  CtlInv'
      BY <1>9, <2>3 DEF EventIncoming
    <2> QED
      BY <1>10, <2>1, <2>2, <2>3 DEF PicoStep
  <1>11. CASE CtlStep
    BY <1>0, <1>11, IdleType, IdleFields
    DEF CtlStep, CtlWait, CtlLock, EventFinish, EventFault, TickDone,
        SkipClient, NotifyClient, NotifyClear, CtlUnlock, CtlInv, CtlRecord
  <1> QED
    BY <1>2, <1>3, <1>4, <1>5, <1>6, <1>7, <1>8, <1>10, <1>11
    DEF Next, RpcStep

-----------------------------------------------------------------------------
(* The theorems.                                                           *)

\* The strengthened invariant holds initially.
LEMMA IInvInit == Init => IInv
  <1> SUFFICES ASSUME Init
               PROVE  IInv
    OBVIOUS
  <1>1. TypeOK
    BY TypeInit
  <1>2. \A h \in Handles : sockets[h] = ZeroSocket
    BY DEF Init, TableInit
  <1>3. /\ ZeroSocket.status = "FREE" /\ ZeroSocket.clientId = NoClient
        /\ ZeroSocket.eventMask = {} /\ ZeroSocket.pending = 0
        /\ NewClient.currentSocketsInUse = 0
    BY DEF ZeroSocket, NewClient
  <1>4. LockInv /\ CallInv /\ RoomInv /\ CtlInv
    BY IdleFields
    DEF Init, LockInv, CallInv, RoomInv, CtlInv, Holds, OnSocket
  <1>5. OwnerInv /\ CleanInv
    BY <1>2, <1>3 DEF OwnerInv, CleanInv, InUse
  <1>6. QuotaKept
    <2>1. \A c \in Clients : SocketsOf(c) = {}
      BY <1>2, <1>3 DEF SocketsOf
    <2>2. \A c \in Clients : clients[c].currentSocketsInUse = 0
      BY <1>3 DEF Init, TableInit
    <2> QED
      BY <2>1, <2>2, FS_EmptySet, QuotaAssumption DEF QuotaKept
  <1> QED
    BY <1>1, <1>4, <1>5, <1>6 DEF IInv

\* The strengthened invariant is inductive.
LEMMA IInvStep == IInv /\ [Next]_vars => IInv'
  BY TypeStep, LockStep, CallStep, RoomStep, CtlStepInv, OwnerStep, CleanStep,
     QuotaStep
  DEF IInv

\* In every reachable state the strengthened invariant holds: who holds
\* stackThreadSafeMutex, what a call and the control thread may rely on
\* between their steps, who owns which entry of the socket table.
THEOREM Invariant == Spec => []IInv
  BY IInvInit, IInvStep, PTL DEF Spec

\* Every variable keeps its type: no step of network_stack_core.c leaves
\* the tables, a client's ring index ever leaves 0..NumSockets-1.
THEOREM TypeCorrect == Spec => []TypeOK
  <1>1. IInv => TypeOK
    BY DEF IInv
  <1> QED
    BY <1>1, Invariant, PTL

\* reserve_handle and free_handle stay paired on every path through create,
\* accept and close: currentSocketsInUse is the number of sockets the client
\* holds and never exceeds socketQuota.
THEOREM QuotaHolds == Spec => []QuotaKept
  <1>1. IInv => QuotaKept
    BY DEF IInv
  <1> QED
    BY <1>1, Invariant, PTL

\* getPendingEvents never copies more events than the dataport has room for.
THEOREM EventsFitHolds == Spec => []EventsFit
  <1>1. IInv => EventsFit
    BY DEF IInv, RoomInv, EventsFit
  <1> QED
    BY <1>1, Invariant, PTL

\* reserve_handle hands out an entry without events of the socket that used
\* it before, though it does not reset eventMask and free_handle runs without
\* the mutex: the control thread can write to a freed entry only by faulting
\* over it, and then nobody reserves an entry again.
THEOREM CleanReservationHolds == Spec => CleanReservation
  <1>1. ASSUME IInv, [Next]_vars, NEW h \in Handles,
               sockets[h].status = "FREE", sockets'[h].status = "IN_USE"
        PROVE  sockets'[h].eventMask = {} /\ sockets'[h].pending = 0
    <2>1. ~InUse(h)
      BY <1>1 DEF InUse
    <2>2. Reserves(h)
      <3>1. ~Kept
        BY <1>1 DEF Kept, SameOwner
      <3>2. sockets \in [Handles -> SocketRecord]
        BY <1>1 DEF IInv, TypeOK, TableTypeOK
      <3>3. ~FreeHandle
        BY <1>1, <3>2, FreeHandleEffect
      <3>4. ~FreeHandleRest
        BY <1>1, <3>2, FreeHandleRestEffect
      <3>5. PICK g \in Handles : Reserves(g)
        BY <1>1, <3>1, <3>3, <3>4, TableStep
      <3>6. g = h
        BY <1>1, <3>5 DEF Reserves, SameOwner
      <3> QED
        BY <3>5, <3>6
    <2>3. rpc.pc = "locked" /\ ~Freeing(h)
      BY <2>2 DEF Reserves, Freeing
    <2>4. ctl.pc # "fault"
      BY <1>1, <2>3 DEF IInv, LockInv
    <2>5. sockets[h].eventMask = {}
      BY <1>1, <2>1, <2>3, <2>4 DEF IInv, CleanInv
    <2> QED
      BY <2>2, <2>5 DEF Reserves
  <1>2. IInv /\ [Next]_vars =>
            [\A h \in Handles :
                sockets[h].status = "FREE" /\ sockets'[h].status = "IN_USE" =>
                    /\ sockets'[h].eventMask = {}
                    /\ sockets'[h].pending = 0]_vars
    BY <1>1
  <1> QED
    BY <1>2, Invariant, PTL DEF Spec, CleanReservation

\* A call of one client changes no socket of another client: every entry the
\* RPC thread writes is the caller's, or belongs to nobody.
THEOREM OwnSocketsOnlyHolds == Spec => OwnSocketsOnly
  <1>1. ASSUME IInv, [Next]_vars, rpc' # rpc, NEW h \in Handles,
               sockets'[h] # sockets[h]
        PROVE  sockets[h].clientId \in {rpc.client, NoClient}
    <2>0. /\ Holds => rpc.h \in SocketsOf(rpc.client)
          /\ rpc.pc = "freeing" => sockets[rpc.h].clientId = rpc.client
          /\ OwnerInv
          /\ sockets \in [Handles -> SocketRecord]
      BY <1>1 DEF IInv, CallInv, TypeOK, TableTypeOK
    <2>1. ASSUME rpc.pc = "locked", sockets[h].status = "FREE"
          PROVE  sockets[h].clientId = NoClient
      BY <2>0, <2>1 DEF OwnerInv, InUse, Freeing
    <2>2. ASSUME Holds, rpc.h = h
          PROVE  sockets[h].clientId = rpc.client
      BY <2>0, <2>2 DEF SocketsOf
    <2>3. RpcStep
      BY <1>1
      DEF Next, ClientCall, CallCreate, CallOnSocket, CallCloseAfterFin,
          CallGetPendingEvents, TickOrData, PicoStep, EventBegin,
          EventNoHandle, EventIncoming, CtlStep, CtlWait, CtlLock,
          EventFinish, EventFault, TickDone, SkipClient, NotifyClient,
          NotifyClear, CtlUnlock, vars
    <2>4. CASE RpcCritical
      BY <1>1, <2>0, <2>1, <2>2, <2>4
      DEF RpcCritical, CreateFails, CreateRefused, Create, Close, Connect,
          Listen, ConnectOrListen, PlainCall, Bind, Write, SendTo, AcceptNone,
          AcceptRefused, Accept, ReadFails, ReadEmpty, ReadSome, RecvFromSome,
          Locked, Reservable, Holds, OnSocket
    <2>5. CASE ClearStore \/ FreeHandle \/ FreeHandleRest
      BY <1>1, <2>0, <2>2, <2>5
      DEF ClearStore, FreeHandle, FreeHandleRest, Holds
    <2>6. CASE VisitPending
      BY <1>1, <2>0, <2>6 DEF VisitPending, HasEvents
    <2>7. CASE RpcLock \/ ClearLoad \/ VisitQuiet \/ AfterPending
      BY <1>1, <2>7 DEF RpcLock, ClearLoad, VisitQuiet, AfterPending
    <2> QED
      BY <2>3, <2>4, <2>5, <2>6, <2>7 DEF RpcStep
  <1>2. IInv /\ [Next]_vars =>
            [rpc' # rpc =>
                \A h \in Handles :
                    sockets'[h] # sockets[h] =>
                        sockets[h].clientId \in {rpc.client, NoClient}]_vars
    BY <1>1
  <1> QED
    BY <1>2, Invariant, PTL DEF Spec, OwnSocketsOnly

-----------------------------------------------------------------------------
(* The rounds of getPendingEvents.                                         *)

\* The index goes round the table: while tail is not reached, each step
\* brings it nearer by one.
LEMMA RoundNearer ==
    ASSUME NEW i \in Handles, NEW t \in Handles, NextIndex(i) # t,
           NEW before, before = IF t > i THEN t - i ELSE NumSockets + t - i,
           NEW after, after = IF t > NextIndex(i) THEN t - NextIndex(i)
                              ELSE NumSockets + t - NextIndex(i)
    PROVE  /\ NextIndex(i) \in Handles
           /\ after = before - 1 /\ after > 0
  BY NumSocketsAssumption DEF Handles, NextIndex

\* A round that goes on leaves one entry less to visit.
LEMMA AdvanceNearer ==
    ASSUME IInv, Advance, rpc.client \in Clients, rpc'.pc = "visit",
           NEW c \in Clients, c = rpc.client
    PROVE  Left(c)' = Left(c) - 1 /\ Left(c)' > 0
  <1> DEFINE next == NextIndex(clients[c].head)
  <1>1. clients \in [Clients -> ClientRecord]
    BY DEF IInv, TypeOK, TableTypeOK
  <1>2. clients[c].head \in Handles /\ clients[c].tail \in Handles
    BY <1>1 DEF ClientRecord
  <1>3. next # clients[c].tail /\ clients' = [clients EXCEPT ![c].head = next]
    BY IdleFields DEF Advance, GoesOn
  <1>4. clients'[c].head = next /\ clients'[c].tail = clients[c].tail
    BY <1>1, <1>3 DEF ClientRecord
  <1> HIDE DEF next
  <1>5. /\ Left(c) = IF clients[c].tail > clients[c].head
                     THEN clients[c].tail - clients[c].head
                     ELSE NumSockets + clients[c].tail - clients[c].head
        /\ Left(c)' = IF clients[c].tail > next
                      THEN clients[c].tail - next
                      ELSE NumSockets + clients[c].tail - next
    BY <1>4 DEF Left
  <1> QED
    BY <1>2, <1>3, <1>5, RoundNearer DEF next

\* The control thread leaves head and tail alone.
LEMMA ControlRounds ==
    ASSUME IInv, TickOrData \/ PicoStep \/ CtlStep
    PROVE  \A c \in Clients : clients'[c].head = clients[c].head
  <1>1. clients \in [Clients -> ClientRecord]
    BY DEF IInv, TypeOK, TableTypeOK
  <1>2. CASE EventFinish \/ NotifyClear
    BY <1>1, <1>2 DEF EventFinish, NotifyClear, ClientRecord
  <1> QED
    BY <1>2
    DEF TickOrData, PicoStep, CtlStep, CtlWait, CtlLock, EventBegin,
        EventNoHandle, EventIncoming, EventFault, TickDone, SkipClient,
        NotifyClient, CtlUnlock

\* The loop of getPendingEvents visits each entry at most once in a call: each
\* round that goes on leaves one entry less, however many sockets there are
\* and wherever the last call of this client has stopped.
THEOREM RoundsEndHolds == Spec => RoundsEnd
  <1>1. ASSUME IInv, [Next]_vars, NEW c \in Clients,
               rpc.client = c, rpc.pc \in {"visit", "advance"},
               rpc'.pc = "visit", clients'[c].head # clients[c].head
        PROVE  Left(c)' = Left(c) - 1 /\ Left(c)' > 0
    <2>1. ~ UNCHANGED vars /\ ~(TickOrData \/ PicoStep \/ CtlStep)
      BY <1>1, ControlRounds DEF vars
    <2>2. ~ClientCall
      BY <1>1
      DEF ClientCall, CallCreate, CallOnSocket, CallCloseAfterFin,
          CallGetPendingEvents
    <2>3. ~RpcCritical
      BY <1>1
      DEF RpcCritical, CreateFails, CreateRefused, Create, Close, Connect,
          Listen, ConnectOrListen, PlainCall, Bind, Write, SendTo, AcceptNone,
          AcceptRefused, Accept, ReadFails, ReadEmpty, ReadSome, RecvFromSome,
          Locked
    <2>4. VisitQuiet \/ AfterPending
      BY <1>1, <2>1, <2>2, <2>3
      DEF Next, RpcStep, RpcLock, ClearLoad, ClearStore, FreeHandle,
          FreeHandleRest, VisitPending
    <2> QED
      BY <1>1, <2>4, AdvanceNearer DEF VisitQuiet, AfterPending
  <1>2. IInv /\ [Next]_vars =>
            [\A c \in Clients :
                /\ rpc.client = c /\ rpc'.client = c
                /\ rpc.pc \in {"visit", "advance"} /\ rpc'.pc = "visit"
                /\ clients'[c].head # clients[c].head
                => Left(c)' = Left(c) - 1 /\ Left(c)' > 0]_vars
    BY <1>1
  <1> QED
    BY <1>2, Invariant, PTL DEF Spec, RoundsEnd

-----------------------------------------------------------------------------
(* Refinement.                                                             *)

\* What a client owns in the abstract service is what it holds in the table.
LEMMA OwnedIsHeld ==
    ASSUME NEW c \in Clients, sockets \in [Handles -> SocketRecord]
    PROVE  Service!OwnedBy(c) = SocketsOf(c)
  BY NoClientAssumption
  DEF Service!OwnedBy, Owner, SocketsOf, InUse

\* The abstract service counts as FiniteSets does.
LEMMA SameCardinality == \A S : Service!Cardinality(S) = Cardinality(S)
  BY DEF Service!Cardinality, Cardinality

\* The zeroed table is the abstract table without owners.
LEMMA ServiceInit == Init => Service!Init
  <1>1. ZeroSocket.status = "FREE"
    BY DEF ZeroSocket
  <1> QED
    BY <1>1 DEF Init, TableInit, Service!Init, Owner, InUse

\* A reservation is an Acquire, the first half of free_handle a Release, and
\* every other step a stutter.
LEMMA ServiceStep ==
    IInv /\ [Next]_vars => Service!Next \/ Owner' = Owner
  <1> SUFFICES ASSUME IInv, [Next]_vars
               PROVE  Service!Next \/ Owner' = Owner
    OBVIOUS
  <1>0. /\ sockets \in [Handles -> SocketRecord]
        /\ QuotaKept /\ OwnerInv
        /\ rpc.pc # "idle" => rpc.client \in Clients
    BY DEF IInv, CallInv, TypeOK, TableTypeOK
  <1>1. CASE Kept
    <2>1. \A h \in Handles : SameOwner(h)
      BY <1>1 DEF Kept
    <2>2. Owner' = Owner
      BY <2>1 DEF Owner, SameOwner, InUse
    <2> QED
      BY <2>2
  <1>2. ASSUME NEW h \in Handles, Reserves(h)
        PROVE  Service!Next
    <2>1. rpc.client \in Clients
      BY <1>0, <1>2 DEF Reserves
    <2>2. Owner[h] = NoClient
      BY <1>2 DEF Reserves, Reservable, Owner, InUse
    <2>3. Owner' = [Owner EXCEPT ![h] = rpc.client]
      BY <1>2 DEF Reserves, SameOwner, Owner, InUse
    <2>4. Service!Cardinality(Service!OwnedBy(rpc.client)) < Quota[rpc.client]
      BY <1>0, <1>2, <2>1, OwnedIsHeld, SameCardinality
      DEF Reserves, Reservable, QuotaKept
    <2> QED
      BY <2>1, <2>2, <2>3, <2>4 DEF Service!Next, Service!Acquire
  <1>3. CASE FreeHandle
    <2>1. rpc.h \in Handles /\ Owner[rpc.h] = rpc.client
      BY <1>3, FreeHandleEffect DEF SocketsOf, Owner, InUse
    <2>2. Owner' = [Owner EXCEPT ![rpc.h] = NoClient]
      BY <1>0, <1>3, <2>1, FreeHandleEffect DEF Owner, InUse
    <2> QED
      BY <1>3, <2>1, <2>2, FreeHandleEffect DEF Service!Next, Service!Release
  <1>4. CASE FreeHandleRest
    <2>1. /\ sockets' = [sockets EXCEPT ![rpc.h] = FreedEntry(rpc.h)]
          /\ rpc.h \in Handles
          /\ sockets[rpc.h].status = "FREE"
          /\ sockets'[rpc.h].status = "FREE"
      BY <1>4, FreeHandleRestEffect
    <2>2. \A h \in Handles : h # rpc.h => sockets'[h] = sockets[h]
      BY <1>0, <2>1
    <2>3. Owner' = Owner
      BY <2>1, <2>2 DEF Owner, InUse
    <2> QED
      BY <2>3
  <1> QED
    BY <1>1, <1>2, <1>3, <1>4, TableStep

\* The socket layer with its threads, its mutex and picoTCP implements the
\* abstract handle service: however calls, callbacks and the unlocked
\* free_handle interleave, a handle never has two owners, never changes
\* hands without being given up, and is only given out below the quota.
THEOREM ImplementsService == Spec => ServiceSpec
  <1>1. IInv /\ [Next]_vars => [Service!Next]_Owner
    BY ServiceStep
  <1> QED
    BY <1>1, ServiceInit, Invariant, PTL DEF Spec, ServiceSpec, Service!Spec
=============================================================================
