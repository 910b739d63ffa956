------------------------- MODULE SocketAcceptProofs -------------------------
(***************************************************************************)
(* Proofs about the connections that wait at a listening socket, for every *)
(* number of sockets, clients, quotas and pico sockets.  They assume that  *)
(* the heap does not reuse an address that a table entry still holds.      *)
(***************************************************************************)
EXTENDS SocketLinkProofs

-----------------------------------------------------------------------------
(* The inductive invariant.                                                *)

\* A connection waits only at a socket that listens.
Parented ==
    \A b \in PicoSockets :
        pico[b].parent # NoSock => pico[pico[b].parent].state = "listen"

\* The states of a socket that will never listen.
Quieted == {"dgram", "estab", "closewait", "closing", "free"}

DgramLink ==
    \A h \in Handles : InUse(h) /\ sockets[h].socketType = "DGRAM" =>
                            pico[Impl(h)].state \in Quieted

\* The calls that write an event mask back without the mutex ...
Reading ==
    \/ OnSocket /\ rpc.op \in {"read", "recvfrom"}
    \/ rpc.pc \in {"clear", "store"}

\* ... do so for a socket that never listens.
ReadLink == Reading => pico[Impl(rpc.h)].state \in Quieted

\* The callback of entry h is between its load and its store.
CallbackAt(h) == ctl.pc = "event" /\ ctl.h = h

\* What it is about to add to pendingConnections.
Coming(h) == IF CallbackAt(h) /\ "CONN_ACPT" \in ctl.bits THEN 1 ELSE 0

\* The events the entry has, or will have after the store.
Told(h) == IF CallbackAt(h) THEN ctl.val \cup ctl.bits ELSE sockets[h].eventMask

Waits(h) == Acceptable(Impl(h))

EntryOk(h) ==
    /\ IsFiniteSet(Waits(h))
    /\ Cardinality(Waits(h)) <= sockets[h].pending + Coming(h)
    /\ Waits(h) # {} => "CONN_ACPT" \in Told(h)

QueueInv ==
    /\ Parented
    /\ DgramLink
    /\ ReadLink
    /\ \A h \in Handles : InUse(h) => EntryOk(h)

-----------------------------------------------------------------------------
(* Steps that neither reserve nor free a handle.                           *)

\* What such a step may do to the sockets that have a handle.
WaitMove ==
    /\ Parented'
    /\ \A a \in PicoSockets :
        ~NoHandleFound(a) =>
            /\ Acceptable(a)' \subseteq Acceptable(a)
            /\ pico[a].state \in Quieted => pico'[a].state \in Quieted

\* What it may do to an entry in use.
ToldMove ==
    \A h \in Handles :
        InUse(h) =>
            /\ sockets'[h].socketType = sockets[h].socketType
            /\ \/ Acceptable(Impl(h)) = {}
               \/ /\ sockets'[h].pending + Coming(h)' >=
                                            sockets[h].pending + Coming(h)
                  /\ "CONN_ACPT" \in Told(h) => "CONN_ACPT" \in Told(h)'

\* A set that shrinks does not get larger.
LEMMA Shrinks ==
    ASSUME NEW S, NEW T, IsFiniteSet(T), S \subseteq T
    PROVE  /\ IsFiniteSet(S)
           /\ Cardinality(S) \in Nat /\ Cardinality(T) \in Nat
           /\ Cardinality(S) <= Cardinality(T)
  BY FS_Subset, FS_CardinalityType

\* The numbers that are compared.
LEMMA PendingType ==
    ASSUME IInv, NEW h \in Handles
    PROVE  sockets[h].pending \in Nat /\ Coming(h) \in Nat
  BY MaxPendingAssumption DEF IInv, TypeOK, TableTypeOK, SocketRecord, Coming

\* An entry stays as it should while no connection arrives for it.
LEMMA EntryKept ==
    ASSUME IInv, IInv', NEW h \in Handles, EntryOk(h),
           Waits(h)' \subseteq Waits(h),
           \/ Waits(h) = {}
           \/ /\ sockets'[h].pending + Coming(h)' >=
                                            sockets[h].pending + Coming(h)
              /\ "CONN_ACPT" \in Told(h) => "CONN_ACPT" \in Told(h)'
    PROVE  EntryOk(h)'
  <1>1. /\ sockets[h].pending \in Nat /\ Coming(h) \in Nat
        /\ sockets'[h].pending \in Nat /\ Coming(h)' \in Nat
    <2>1. sockets'[h].pending \in Nat
      BY MaxPendingAssumption DEF IInv, TypeOK, TableTypeOK, SocketRecord
    <2>2. Coming(h)' \in Nat
      BY DEF Coming
    <2> QED
      BY <2>1, <2>2, PendingType
  <1>2. /\ IsFiniteSet(Waits(h)')
        /\ Cardinality(Waits(h)') \in Nat /\ Cardinality(Waits(h)) \in Nat
        /\ Cardinality(Waits(h)') <= Cardinality(Waits(h))
    BY Shrinks DEF EntryOk
  <1>3. Waits(h) = {} => Cardinality(Waits(h)) = 0
    BY FS_EmptySet
  <1> QED
    BY <1>1, <1>2, <1>3 DEF EntryOk

\* A step with these effects keeps the invariant.
LEMMA QueueKeeps ==
    ASSUME QueueInv, LinkInv, IInv, IInv', SameLinks, WaitMove, ToldMove,
           ReadLink'
    PROVE  QueueInv'
  <1>1. \A h \in Handles : InUse(h)' = InUse(h) /\ Impl(h)' = Impl(h)
    BY DEF SameLinks, InUse, Impl
  <1>2. \A h \in Handles : InUse(h) => /\ Impl(h) \in PicoSockets
                                       /\ ~NoHandleFound(Impl(h))
    BY HandleHeld DEF LinkInv, Linked
  <1>3. DgramLink'
    BY <1>1, <1>2 DEF QueueInv, DgramLink, WaitMove, ToldMove
  <1>4. ASSUME NEW h \in Handles, InUse(h)
        PROVE  EntryOk(h)'
    <2>1. Waits(h)' \subseteq Waits(h)
      BY <1>1, <1>2, <1>4 DEF Waits, WaitMove, Acceptable
    <2> QED
      BY <1>4, <2>1, EntryKept DEF ToldMove, QueueInv, Waits
  <1> QED
    BY <1>1, <1>3, <1>4 DEF QueueInv, WaitMove

-----------------------------------------------------------------------------
(* What picoTCP's functions and events do to the connections that wait.    *)

\* Data that is queued or taken.
LEMMA QuietWait ==
    ASSUME QueueInv, IInv, PicoQuiet
    PROVE  WaitMove
  <1>1. \A a \in PicoSockets : Acceptable(a)' = Acceptable(a)
    BY DEF PicoQuiet, Acceptable
  <1>2. Parented'
    BY PicoTyped DEF PicoQuiet, QueueInv, Parented
  <1> QED
    BY <1>1, <1>2 DEF WaitMove, PicoQuiet

\* pico_socket_close().
LEMMA CloseWait ==
    ASSUME QueueInv, LinkInv, IInv, NEW a \in PicoSockets, pico' = PicoClose(a)
    PROVE  WaitMove
  <1>1. Waiting /\ Parented
    BY DEF LinkInv, QueueInv
  <1>2. /\ pico'[a].state = IF pico[a].state = "free" THEN "free" ELSE "closing"
        /\ pico'[a].parent = pico[a].parent
    BY PicoTyped DEF PicoClose, PicoRecord
  <1>3. ASSUME NEW b \in PicoSockets, b # a, pico[b].parent = a
        PROVE  /\ pico'[b].parent = NoSock
               /\ pico'[b].state = IF pico[b].state = "estab" THEN "orphan"
                                   ELSE pico[b].state
               /\ pico[b].state \in {"estab", "closing"}
               /\ NoHandleFound(b)
    BY <1>1, <1>3, PicoTyped, NoSockAssumption
    DEF PicoClose, PicoRecord, Waiting
  <1>4. ASSUME NEW b \in PicoSockets, b # a, pico[b].parent # a
        PROVE  pico'[b] = pico[b]
    BY <1>4 DEF PicoClose
  <1>5. pico[a].parent # NoSock => pico[a].state \in {"estab", "closing"}
    BY <1>1 DEF Waiting
  <1>6. \A b \in PicoSockets : Acceptable(b)' \subseteq Acceptable(b)
    BY <1>2, <1>3, <1>4, NoSockAssumption DEF Acceptable
  <1>7. Parented'
    <2> SUFFICES ASSUME NEW b \in PicoSockets, pico'[b].parent # NoSock
                 PROVE  pico'[pico'[b].parent].state = "listen"
      BY DEF Parented
    <2>1. pico'[b].parent = pico[b].parent
      BY <1>2, <1>3, <1>4
    <2>2. PICK l \in PicoSockets : l = pico[b].parent
      BY <2>1, PicoTyped
    <2>3. pico[l].state = "listen" /\ l # a
      <3>1. pico[l].state = "listen"
        BY <1>1, <2>1, <2>2 DEF Parented
      <3>2. b # a => l # a
        BY <1>3, <2>2
      <3>3. b = a => l # a
        BY <1>5, <2>1, <3>1, <2>2
      <3> QED
        BY <3>1, <3>2, <3>3
    <2>4. pico'[l].state = "listen"
      BY <1>3, <1>4, <2>3
    <2> QED
      BY <2>1, <2>2, <2>4
  <1> QED
    BY <1>2, <1>3, <1>4, <1>6, <1>7 DEF WaitMove, Quieted

\* An event of one socket.
LEMMA AfterWait ==
    ASSUME QueueInv, LinkInv, IInv, NEW a \in PicoSockets,
           NEW e \in PicoEvents, CanHappen(a, e), pico' = PicoAfter(a, e)
    PROVE  WaitMove
  <1>1. Parented /\ pico[a].state = e.from
    BY DEF QueueInv, CanHappen
  <1>2. /\ pico'[a].state = e.to
        /\ pico'[a].parent = IF e.to = "free" THEN NoSock ELSE pico[a].parent
        /\ \A b \in PicoSockets \ {a} : pico'[b] = pico[b]
    BY PicoTyped DEF PicoAfter, NoPicoSocket, PicoRecord
  <1>3. /\ e.from # "listen" /\ e.to # "listen"
        /\ e.from \in Quieted => e.to \in Quieted
        /\ e.to = "estab" /\ e.from # "estab" => e.from = "synsent"
    BY DEF PicoEvents, AllPicoEvents, PicoEvent, Quieted
  <1>4. pico[a].state = "synsent" => pico[a].parent = NoSock
    BY DEF LinkInv, Waiting
  <1>5. \A b \in PicoSockets : Acceptable(b)' \subseteq Acceptable(b)
    BY <1>1, <1>2, <1>3, <1>4, NoSockAssumption DEF Acceptable
  <1>6. Parented'
    <2> SUFFICES ASSUME NEW b \in PicoSockets, pico'[b].parent # NoSock
                 PROVE  pico'[pico'[b].parent].state = "listen"
      BY DEF Parented
    <2>1. pico'[b].parent = pico[b].parent
      BY <1>2
    <2>2. PICK l \in PicoSockets : l = pico[b].parent
      BY <2>1, PicoTyped
    <2>3. pico[l].state = "listen" /\ l # a
      BY <1>1, <1>3, <2>1, <2>2 DEF Parented
    <2> QED
      BY <1>2, <2>1, <2>2, <2>3
  <1> QED
    BY <1>1, <1>2, <1>3, <1>5, <1>6 DEF WaitMove

\* A socket that neither listened nor listens now, and waits nowhere.
LEMMA SingleWait ==
    ASSUME QueueInv, LinkInv, IInv, NEW a \in PicoSockets,
           pico[a].state # "listen", pico'[a].state # "listen",
           pico'[a].parent = NoSock,
           \A b \in PicoSockets \ {a} : pico'[b] = pico[b],
           \/ NoHandleFound(a)
           \/ pico[a].state \in Quieted => pico'[a].state \in Quieted
    PROVE  WaitMove /\ \A b \in PicoSockets : Acceptable(b)' = Acceptable(b) \ {a}
  <1>1. \A b \in PicoSockets : Acceptable(b)' = Acceptable(b) \ {a}
    BY NoSockAssumption DEF Acceptable
  <1>2. Parented'
    <2> SUFFICES ASSUME NEW b \in PicoSockets, pico'[b].parent # NoSock
                 PROVE  pico'[pico'[b].parent].state = "listen"
      BY DEF Parented
    <2>1. pico'[b].parent = pico[b].parent
      OBVIOUS
    <2>2. PICK l \in PicoSockets : l = pico[b].parent
      BY <2>1, PicoTyped
    <2>3. pico[l].state = "listen" /\ l # a
      BY <2>1, <2>2 DEF QueueInv, Parented
    <2> QED
      BY <2>1, <2>2, <2>3
  <1> QED
    BY <1>1, <1>2 DEF WaitMove

\* listen() of a fresh socket: nothing has waited there before.
LEMMA ListenWait ==
    ASSUME QueueInv, LinkInv, IInv, NEW a \in PicoSockets,
           pico[a].state = "fresh", pico' = [pico EXCEPT ![a].state = "listen"]
    PROVE  WaitMove
  <1>1. Parented
    BY DEF QueueInv
  <1>2. /\ pico'[a].state = "listen" /\ pico'[a].parent = pico[a].parent
        /\ \A b \in PicoSockets \ {a} : pico'[b] = pico[b]
    BY PicoTyped DEF PicoRecord
  <1>3. \A b \in PicoSockets : pico[b].parent # a
    BY <1>1, NoSockAssumption DEF Parented
  <1>4. \A b \in PicoSockets : Acceptable(b)' \subseteq Acceptable(b)
    BY <1>2, <1>3 DEF Acceptable
  <1>5. Parented'
    <2> SUFFICES ASSUME NEW b \in PicoSockets, pico'[b].parent # NoSock
                 PROVE  pico'[pico'[b].parent].state = "listen"
      BY DEF Parented
    <2>1. pico'[b].parent = pico[b].parent
      BY <1>2
    <2>2. PICK l \in PicoSockets : l = pico[b].parent
      BY <2>1, PicoTyped
    <2>3. pico[l].state = "listen"
      BY <1>1, <2>1, <2>2 DEF Parented
    <2> QED
      BY <1>2, <2>1, <2>2, <2>3
  <1> QED
    BY <1>2, <1>4, <1>5 DEF WaitMove, Quieted

-----------------------------------------------------------------------------
(* The control thread.                                                     *)

\* A call goes on as before whatever the control thread does to picoTCP.
LEMMA ReadKept ==
    ASSUME QueueInv, LinkInv, IInv, WaitMove, SameLinks, rpc' = rpc
    PROVE  ReadLink'
  <1> SUFFICES ASSUME Reading
               PROVE  pico'[sockets'[rpc.h].impl].state \in Quieted
    BY DEF ReadLink, Reading, OnSocket, Impl
  <1>1. rpc.h \in Handles /\ InUse(rpc.h)
    BY DEF Reading, Holds, OnSocket, IInv, CallInv, SocketsOf, InUse
  <1>2. /\ Impl(rpc.h) \in PicoSockets /\ ~NoHandleFound(Impl(rpc.h))
        /\ sockets'[rpc.h].impl = Impl(rpc.h)
    BY <1>1, HandleHeld DEF LinkInv, Linked, SameLinks, Impl
  <1> QED
    BY <1>2 DEF QueueInv, ReadLink, WaitMove

\* A step of the control thread outside the callback.
LEMMA QueueCtl ==
    ASSUME QueueInv, LinkInv, IInv, IInv', WaitMove,
           sockets' = sockets, rpc' = rpc,
           ctl' = ctl \/ (ctl.pc # "event" /\ ctl'.pc # "event")
    PROVE  QueueInv'
  <1>1. SameLinks
    BY DEF SameLinks
  <1>2. \A h \in Handles : Coming(h)' = Coming(h) /\ Told(h)' = Told(h)
    BY DEF Coming, Told, CallbackAt
  <1>3. ToldMove
    BY <1>2, PendingType DEF ToldMove
  <1> QED
    BY <1>1, <1>3, ReadKept, QueueKeeps

\* What a callback that starts adds to the entry, and to the others.
LEMMA CallbackFacts ==
    ASSUME IInv, sockets' = sockets, NEW h \in Handles, NEW bits,
           ctl.pc = "tick", Callback(h, bits)
    PROVE  /\ \A g \in Handles : /\ Coming(g) = 0
                                 /\ Told(g) = sockets[g].eventMask
           /\ \A g \in Handles \ {h} : Coming(g)' = 0 /\ Told(g)' = Told(g)
           /\ Coming(h)' = IF "CONN_ACPT" \in bits THEN 1 ELSE 0
           /\ Told(h)' = Told(h) \cup bits
  <1>1. /\ ctl'.pc = "event" /\ ctl'.h = h
        /\ ctl'.val = sockets[h].eventMask /\ ctl'.bits = bits
    BY DEF IInv, TypeOK, CtlRecord, Callback
  <1> QED
    BY <1>1 DEF Coming, Told, CallbackAt

\* An event of a socket with a handle.
LEMMA QueueEventBegin ==
    ASSUME QueueInv, LinkInv, IInv, IInv', NEW a \in PicoSockets,
           NEW e \in PicoEvents, NEW h \in Handles, EventBegin(a, e, h)
    PROVE  QueueInv'
  <1>1. /\ WaitMove /\ rpc' = rpc
        /\ sockets' = sockets
        /\ ctl.pc = "tick"
        /\ Callback(h, OsEvents(e.mask, e.refused, FALSE))
    BY AfterWait DEF EventBegin
  <1>2. SameLinks
    BY <1>1 DEF SameLinks
  <1>3. ASSUME NEW g \in Handles
        PROVE  /\ Coming(g) = 0 /\ Coming(g)' \in {0, 1}
               /\ Told(g) \subseteq Told(g)'
    BY <1>1, CallbackFacts
  <1>4. ASSUME NEW g \in Handles
        PROVE  sockets[g].pending + Coming(g)' >= sockets[g].pending + Coming(g)
    BY <1>3, PendingType
  <1>5. ToldMove
    BY <1>1, <1>3, <1>4 DEF ToldMove
  <1> QED
    BY <1>1, <1>2, <1>5, ReadKept, QueueKeeps

\* A connection arrives: the callback is about to count and announce it.
LEMMA QueueIncoming ==
    ASSUME ~ReuseAddresses, QueueInv, LinkInv, IInv, IInv',
           NEW l \in PicoSockets, NEW b \in PicoSockets, NEW h \in Handles,
           EventIncoming(l, b, h)
    PROVE  QueueInv'
  <1>1. /\ pico[l].state = "listen" /\ pico[b].state = "free"
        /\ NoHandleFound(b)
        /\ Impl(h) = l
        /\ sockets' = sockets /\ rpc' = rpc /\ ctl.pc = "tick"
        /\ Callback(h, OsEvents({"CONN"}, FALSE, TRUE))
    BY DEF EventIncoming, Available, Alive, HandleFound, Impl
  <1>2. /\ pico'[b].state = "estab" /\ pico'[b].parent = l
        /\ \A d \in PicoSockets \ {b} : pico'[d] = pico[d]
    BY PicoTyped DEF EventIncoming, PicoIncoming, NoPicoSocket
  <1>3. "CONN_ACPT" \in OsEvents({"CONN"}, FALSE, TRUE)
    BY DEF OsEvents
  <1>4. /\ \A g \in Handles : Coming(g) = 0 /\ Told(g) = sockets[g].eventMask
        /\ \A g \in Handles \ {h} : Coming(g)' = 0 /\ Told(g)' = Told(g)
        /\ Coming(h)' = 1
        /\ "CONN_ACPT" \in Told(h)'
    BY <1>1, <1>3, CallbackFacts
  <1>5. /\ \A d \in PicoSockets \ {l} : Acceptable(d)' = Acceptable(d)
        /\ Acceptable(l)' = Acceptable(l) \cup {b}
        /\ b \notin Acceptable(l)
    BY <1>1, <1>2 DEF Acceptable
  <1>6. \A g \in Handles : /\ InUse(g)' = InUse(g)
                           /\ Impl(g)' = Impl(g)
                           /\ InUse(g) => Impl(g) \in PicoSockets \ {b}
    BY <1>1 DEF LinkInv, Linked, InUse, Impl, NoHandleFound
  <1>7. InUse(h)
    BY <1>1, NoSockAssumption DEF LinkInv, Linked
  <1>8. ASSUME NEW g \in Handles, g # h, InUse(g)
        PROVE  EntryOk(g)'
    <2>1. Impl(g) # l
      BY <1>1, <1>7, <1>8 DEF LinkInv, Unshared
    <2>2. Waits(g)' \subseteq Waits(g)
      BY <1>5, <1>6, <1>8, <2>1 DEF Waits, Acceptable
    <2>3. EntryOk(g) /\ sockets'[g].pending + Coming(g)' >=
                                            sockets[g].pending + Coming(g)
      BY <1>1, <1>4, <1>8, PendingType DEF QueueInv
    <2> QED
      BY <1>4, <1>8, <2>2, <2>3, EntryKept
  <1>9. EntryOk(h)'
    <2>1. /\ IsFiniteSet(Acceptable(l))
          /\ Cardinality(Acceptable(l)) <= sockets[h].pending
          /\ Cardinality(Acceptable(l)) \in Nat /\ sockets[h].pending \in Nat
      BY <1>1, <1>4, <1>7, PendingType, FS_CardinalityType
      DEF QueueInv, EntryOk, Waits
    <2>2. Waits(h)' = Acceptable(l) \cup {b}
      BY <1>1, <1>5, <1>6 DEF Waits, Acceptable
    <2>3. /\ IsFiniteSet(Waits(h)')
          /\ Cardinality(Waits(h)') = Cardinality(Acceptable(l)) + 1
      BY <1>5, <2>1, <2>2, FS_AddElement
    <2> QED
      BY <1>1, <1>4, <2>1, <2>3 DEF EntryOk
  <1>10. Parented'
    BY <1>1, <1>2, PicoTyped, NoSockAssumption DEF QueueInv, Parented
  <1>11. DgramLink'
    BY <1>1, <1>2, <1>6 DEF QueueInv, DgramLink
  <1>12. ReadLink'
    <2> SUFFICES ASSUME Reading
                 PROVE  pico'[Impl(rpc.h)].state \in Quieted
      BY <1>1 DEF ReadLink, Reading, OnSocket, Impl
    <2>1. rpc.h \in Handles /\ InUse(rpc.h)
      BY DEF Reading, Holds, OnSocket, IInv, CallInv, SocketsOf, InUse
    <2> QED
      BY <1>2, <1>6, <2>1 DEF QueueInv, ReadLink
  <1> QED
    BY <1>6, <1>8, <1>9, <1>10, <1>11, <1>12 DEF QueueInv

\* The callback stores what it was about to.
LEMMA QueueEventFinish ==
    ASSUME QueueInv, LinkInv, IInv, IInv', EventFinish
    PROVE  QueueInv'
  <1>a. PICK h \in Handles : h = ctl.h
    BY DEF IInv, CtlInv, EventFinish
  <1>0. sockets \in [Handles -> SocketRecord]
    BY DEF IInv, TypeOK, TableTypeOK
  <1>1. /\ ctl.pc = "event" /\ ctl'.pc = "tick" /\ rpc' = rpc /\ pico' = pico
        /\ \A g \in Handles \ {h} : sockets'[g] = sockets[g]
        /\ sockets'[h] = WithEvents(h)
    BY <1>a, <1>0 DEF EventFinish, IdleCtl
  <1>2. /\ sockets'[h].status = sockets[h].status
        /\ sockets'[h].impl = sockets[h].impl
        /\ sockets'[h].socketType = sockets[h].socketType
        /\ sockets'[h].eventMask = ctl.val \cup ctl.bits
        /\ sockets'[h].pending = IF "CONN_ACPT" \in ctl.bits
                                 THEN sockets[h].pending + 1
                                 ELSE sockets[h].pending
    BY <1>0, <1>1 DEF WithEvents, SocketRecord
  <1>3. SameLinks /\ PicoQuiet
    BY <1>1, <1>2 DEF SameLinks, PicoQuiet
  <1>4. \A g \in Handles \ {h} : /\ Coming(g) = 0 /\ Coming(g)' = 0
                                 /\ Told(g)' = Told(g)
    BY <1>a, <1>1 DEF Coming, Told, CallbackAt
  <1>5. /\ Coming(h) = IF "CONN_ACPT" \in ctl.bits THEN 1 ELSE 0
        /\ Coming(h)' = 0
        /\ Told(h)' = Told(h)
    BY <1>a, <1>1, <1>2 DEF Coming, Told, CallbackAt
  <1>6. ToldMove
    BY <1>1, <1>2, <1>4, <1>5, PendingType DEF ToldMove
  <1> QED
    BY <1>1, <1>3, <1>6, QuietWait, ReadKept, QueueKeeps

\* The entry was freed: no entry in use is touched.
LEMMA QueueEventFault ==
    ASSUME QueueInv, LinkInv, IInv, IInv', EventFault
    PROVE  QueueInv'
  <1>a. PICK h \in Handles : h = ctl.h
    BY DEF IInv, CtlInv, EventFault
  <1>0. sockets \in [Handles -> SocketRecord] /\ ~InUse(h)
    BY <1>a, NoClientAssumption
    DEF IInv, TypeOK, TableTypeOK, OwnerInv, EventFault
  <1>1. /\ ctl'.pc = "fault" /\ rpc' = rpc /\ pico' = pico
        /\ \A g \in Handles \ {h} : sockets'[g] = sockets[g]
        /\ sockets'[h].status = sockets[h].status
        /\ sockets'[h].impl = sockets[h].impl
    BY <1>a, <1>0 DEF EventFault, IInv, TypeOK, CtlRecord, WithEvents,
                      SocketRecord
  <1>2. SameLinks /\ PicoQuiet
    BY <1>1 DEF SameLinks, PicoQuiet
  <1>3. \A g \in Handles \ {h} : /\ Coming(g) = 0 /\ Coming(g)' = 0
                                 /\ Told(g)' = Told(g)
    BY <1>a, <1>1 DEF Coming, Told, CallbackAt
  <1>4. ToldMove
    BY <1>0, <1>1, <1>3, PendingType DEF ToldMove
  <1> QED
    BY <1>1, <1>2, <1>4, QuietWait, ReadKept, QueueKeeps

\* Every step of the control thread and of picoTCP.
LEMMA QueueControl ==
    ASSUME ~ReuseAddresses, QueueInv, LinkInv, IInv, IInv',
           TickOrData \/ PicoStep \/ CtlStep
    PROVE  QueueInv'
  <1>0. ctl \in CtlRecord
    BY DEF IInv, TypeOK
  <1>1. CASE TickOrData \/ CtlWait \/ CtlLock \/ TickDone \/ CtlUnlock
    <2>1. /\ UNCHANGED <<pico, sockets, rpc>>
          /\ ctl' = ctl \/ (ctl.pc # "event" /\ ctl'.pc # "event")
      BY <1>0, <1>1, IdleFields
      DEF TickOrData, CtlWait, CtlLock, TickDone, CtlUnlock, CtlRecord
    <2> QED
      BY <2>1, QuietWait, QueueCtl DEF PicoQuiet
  <1>2. ASSUME NotifyClear \/ \E c \in Clients : SkipClient(c) \/ NotifyClient(c)
        PROVE  QueueInv'
    <2>1. /\ UNCHANGED <<pico, sockets, rpc>>
          /\ ctl.pc # "event" /\ ctl'.pc # "event"
      BY <1>0, <1>2 DEF NotifyClear, SkipClient, NotifyClient, CtlRecord
    <2> QED
      BY <2>1, QuietWait, QueueCtl DEF PicoQuiet
  <1>3. ASSUME NEW a \in PicoSockets, NEW e \in PicoEvents, EventNoHandle(a, e)
        PROVE  QueueInv'
    BY <1>3, CloseWait, AfterWait, QueueCtl DEF EventNoHandle
  <1>4. CASE PicoStep
    BY <1>3, <1>4, QueueEventBegin, QueueIncoming DEF PicoStep
  <1> QED
    BY <1>1, <1>2, <1>4, QueueEventFinish, QueueEventFault DEF CtlStep

-----------------------------------------------------------------------------
(* The RPC thread.                                                         *)

\* A step that takes nothing from an entry at which connections wait.
LEMMA QueueRpc ==
    ASSUME QueueInv, LinkInv, IInv, IInv', SameLinks, WaitMove, ctl' = ctl,
           ReadLink',
           \A h \in Handles : InUse(h) =>
                /\ sockets'[h].socketType = sockets[h].socketType
                /\ \/ Acceptable(Impl(h)) = {}
                   \/ /\ sockets'[h].pending = sockets[h].pending
                      /\ "CONN_ACPT" \in sockets[h].eventMask =>
                                "CONN_ACPT" \in sockets'[h].eventMask
    PROVE  QueueInv'
  <1>1. ASSUME NEW h \in Handles
        PROVE  /\ Coming(h)' = Coming(h)
               /\ CallbackAt(h) => Told(h)' = Told(h)
               /\ ~CallbackAt(h) => /\ Told(h) = sockets[h].eventMask
                                    /\ Told(h)' = sockets'[h].eventMask
    BY DEF Coming, Told, CallbackAt
  <1>2. ToldMove
    BY <1>1, PendingType DEF ToldMove
  <1> QED
    BY <1>2, QueueKeeps

\* A call that does not go on to write an event mask back.
LEMMA NotReading ==
    ASSUME rpc'.pc \in {"idle", "free", "visit", "advance", "freeing"}
    PROVE  ReadLink'
  BY DEF ReadLink, Reading, OnSocket

\* A call that goes on with the socket it has found.
LEMMA StillReading ==
    ASSUME QueueInv, LinkInv, IInv, SameLinks, PicoQuiet, rpc'.h = rpc.h,
           Reading' => Reading
    PROVE  ReadLink'
  <1> SUFFICES ASSUME Reading'
               PROVE  pico'[sockets'[rpc.h].impl].state \in Quieted
    BY DEF ReadLink, Impl
  <1>1. Reading
    OBVIOUS
  <1>2. rpc.h \in Handles /\ InUse(rpc.h)
    BY <1>1 DEF Reading, Holds, OnSocket, IInv, CallInv, SocketsOf, InUse
  <1>3. Impl(rpc.h) \in PicoSockets /\ sockets'[rpc.h].impl = Impl(rpc.h)
    BY <1>2 DEF LinkInv, Linked, SameLinks, Impl
  <1> QED
    BY <1>1, <1>3 DEF QueueInv, ReadLink, PicoQuiet

\* read and recvfrom are admitted only on sockets that never listen.
LEMMA QueueClientCall ==
    ASSUME QueueInv, LinkInv, IInv, IInv', ClientCall
    PROVE  QueueInv'
  <1>1. /\ rpc'.pc \in {"lock", "free", "visit"}
        /\ UNCHANGED <<pico, ctl, sockets>>
    BY CallStarts DEF ClientCall, CallCreate, CallOnSocket, CallCloseAfterFin,
                      CallGetPendingEvents
  <1>2. SameLinks /\ PicoQuiet
    BY <1>1 DEF SameLinks, PicoQuiet
  <1>3. ASSUME NEW c \in Clients, CallCreate(c)
        PROVE  ReadLink'
    BY <1>3 DEF CallCreate, IdleRpc, ReadLink, Reading, OnSocket
  <1>4. ASSUME NEW c \in Clients, NEW h \in Handles, NEW op \in SocketOps,
               CallOnSocket(c, op, h)
        PROVE  ReadLink'
    <2>1. rpc'.pc = "lock" /\ rpc'.h = h /\ rpc'.op = op
      BY <1>4 DEF CallOnSocket, IdleRpc
    <2>2. ASSUME op \in {"read", "recvfrom"}
          PROVE  pico[Impl(h)].state \in Quieted
      <3>1. /\ sockets[h].impl # NoSock
            /\ op = "read" => sockets[h].connected
            /\ op = "recvfrom" => sockets[h].socketType = "DGRAM"
        BY <1>4, <2>2 DEF CallOnSocket, Admits, ConnectedOps, DgramOps
      <3>2. InUse(h)
        BY <3>1 DEF LinkInv, Linked, Impl
      <3>3. op = "read" => pico[Impl(h)].state \in Quieted
        BY <3>1, <3>2
        DEF LinkInv, ConnectedMeansEstablished, Impl, Quieted
      <3>4. op = "recvfrom" => pico[Impl(h)].state \in Quieted
        BY <3>1, <3>2 DEF QueueInv, DgramLink
      <3> QED
        BY <2>2, <3>3, <3>4
    <2> QED
      BY <1>1, <2>1, <2>2 DEF ReadLink, Reading, Impl
  <1>5. ASSUME NEW c \in Clients, NEW h \in Handles, CallCloseAfterFin(c, h)
        PROVE  ReadLink'
    BY <1>5, NotReading DEF CallCloseAfterFin, IdleRpc
  <1>6. ASSUME NEW c \in Clients, NEW max \in 1..NumSockets,
               CallGetPendingEvents(c, max)
        PROVE  ReadLink'
    BY <1>6, NotReading DEF CallGetPendingEvents, IdleRpc
  <1>7. ReadLink'
    BY <1>3, <1>4, <1>5, <1>6 DEF ClientCall
  <1> QED
    BY <1>1, <1>2, <1>7, QuietWait, QueueRpc

\* An entry that a step of the RPC thread does not touch.
LEMMA OtherEntry ==
    ASSUME QueueInv, LinkInv, IInv, IInv', ctl' = ctl,
           NEW g \in Handles, InUse(g), sockets'[g] = sockets[g],
           Acceptable(Impl(g))' \subseteq Acceptable(Impl(g))
    PROVE  EntryOk(g)'
  <1>1. Coming(g)' = Coming(g) /\ Told(g)' = Told(g)
    BY DEF Coming, Told, CallbackAt
  <1>2. Waits(g)' \subseteq Waits(g)
    BY DEF Waits
  <1>3. sockets'[g].pending + Coming(g)' >= sockets[g].pending + Coming(g)
    BY <1>1, PendingType
  <1> QED
    BY <1>1, <1>2, <1>3, EntryKept DEF QueueInv

\* The entry of a listening socket after one of its connections was accepted:
\* the event goes only when the last one has gone.
LEMMA AcceptedEntry ==
    ASSUME QueueInv, LinkInv, IInv, rpc.pc = "locked", ctl' = ctl,
           NEW g \in Handles, InUse(g), sockets'[g] = AcceptedFrom(g),
           NEW b, b \in Waits(g), Waits(g)' = Waits(g) \ {b}
    PROVE  EntryOk(g)'
  <1>0. /\ Coming(g) = 0 /\ Coming(g)' = 0
        /\ Told(g) = sockets[g].eventMask /\ Told(g)' = sockets'[g].eventMask
    BY NoCallback DEF Coming, Told, CallbackAt
  <1>1. /\ IsFiniteSet(Waits(g)) /\ Cardinality(Waits(g)) \in Nat
        /\ sockets[g].pending \in Nat
        /\ Cardinality(Waits(g)) <= sockets[g].pending
        /\ "CONN_ACPT" \in sockets[g].eventMask
    BY <1>0, PendingType, FS_CardinalityType DEF QueueInv, EntryOk
  <1>2. /\ IsFiniteSet(Waits(g) \ {b})
        /\ Cardinality(Waits(g) \ {b}) = Cardinality(Waits(g)) - 1
        /\ Cardinality(Waits(g) \ {b}) \in Nat
    BY <1>1, FS_RemoveElement, FS_CardinalityType
  <1>3. sockets[g].pending > 0
    BY <1>1, <1>2
  <1>4. /\ sockets'[g].pending = sockets[g].pending - 1
        /\ sockets[g].pending - 1 # 0 =>
                sockets'[g].eventMask = sockets[g].eventMask
    BY <1>3 DEF AcceptedFrom, IInv, TypeOK, TableTypeOK, SocketRecord
  <1>5. sockets[g].pending - 1 = 0 => Waits(g) \ {b} = {}
    <2>1. sockets[g].pending - 1 = 0 => Cardinality(Waits(g) \ {b}) = 0
      BY <1>1, <1>2
    <2> QED
      BY <1>2, <2>1, FS_EmptySet
  <1> QED
    BY <1>0, <1>1, <1>2, <1>4, <1>5 DEF EntryOk

\* An entry at which nothing waits.
LEMMA EmptyEntry ==
    ASSUME IInv', NEW h \in Handles, Waits(h)' = {}
    PROVE  EntryOk(h)'
  <1>1. sockets'[h].pending \in Nat /\ Coming(h)' \in Nat
    BY MaxPendingAssumption
    DEF IInv, TypeOK, TableTypeOK, SocketRecord, Coming
  <1> QED
    BY <1>1, FS_EmptySet DEF EntryOk

\* create or accept puts a pico socket that has no handle into a free entry.
LEMMA QueueReserve ==
    ASSUME QueueInv, LinkInv, IInv, IInv', NEW a \in PicoSockets,
           NEW h \in Handles, rpc' = IdleRpc, ~InUse(h), NoHandleFound(a),
           pico[a].state # "listen", pico'[a].state # "listen",
           pico'[a].parent = NoSock,
           \A b \in PicoSockets \ {a} : pico'[b] = pico[b],
           sockets'[h].impl = a,
           sockets'[h].socketType = "DGRAM" => pico'[a].state \in Quieted,
           \A g \in Handles \ {h} :
                /\ sockets'[g].status = sockets[g].status
                /\ sockets'[g].impl = sockets[g].impl
                /\ sockets'[g].socketType = sockets[g].socketType
                /\ InUse(g) => EntryOk(g)'
    PROVE  QueueInv'
  <1>1. \A g \in Handles \ {h} : /\ InUse(g)' = InUse(g)
                                 /\ Impl(g)' = Impl(g)
                                 /\ InUse(g) => Impl(g) \in PicoSockets \ {a}
    BY DEF InUse, Impl, NoHandleFound, LinkInv, Linked
  <1>2. Parented'
    BY SingleWait DEF WaitMove
  <1>3. DgramLink'
    <2>1. Impl(h)' = a
      BY DEF Impl
    <2>2. ASSUME NEW g \in Handles \ {h}, InUse(g),
                 sockets'[g].socketType = "DGRAM"
          PROVE  pico'[Impl(g)].state \in Quieted
      BY <1>1, <2>2 DEF QueueInv, DgramLink
    <2> QED
      BY <1>1, <2>1, <2>2 DEF DgramLink
  <1>4. ReadLink'
    BY IdleFields, NotReading
  <1>5. EntryOk(h)'
    <2>1. Waits(h)' = {}
      BY DEF Waits, Acceptable, Impl
    <2> QED
      BY <2>1, EmptyEntry
  <1> QED
    BY <1>1, <1>2, <1>3, <1>4, <1>5 DEF QueueInv

\* create.
LEMMA QueueCreate ==
    ASSUME ~ReuseAddresses, QueueInv, LinkInv, IInv, IInv',
           NEW a \in PicoSockets, NEW h \in Handles, NEW type \in SocketTypes,
           Create(a, h, type)
    PROVE  QueueInv'
  <1>0. /\ sockets \in [Handles -> SocketRecord]
        /\ rpc.pc = "locked" /\ rpc' = IdleRpc /\ ctl' = ctl
        /\ NoHandleFound(a) /\ pico[a].state = "free"
        /\ ~InUse(h)
    BY DEF IInv, TypeOK, TableTypeOK, Create, Locked, Unlock, Available, Alive,
           Reservable, InUse
  <1>1. /\ sockets'[h].impl = a /\ sockets'[h].socketType = type
        /\ \A g \in Handles \ {h} : sockets'[g] = sockets[g]
    BY <1>0 DEF Create, ReservedEntry, SocketRecord
  <1>2. /\ \A b \in PicoSockets \ {a} : pico'[b] = pico[b]
        /\ pico'[a].parent = NoSock
        /\ pico'[a].state = IF type = "STREAM" THEN "fresh" ELSE "dgram"
    BY PicoTyped DEF Create, PicoOpen, NoPicoSocket
  <1>3. \A b \in PicoSockets : Acceptable(b)' \subseteq Acceptable(b)
    BY <1>0, <1>2, SingleWait
  <1>4. ASSUME NEW g \in Handles \ {h}, InUse(g)
        PROVE  EntryOk(g)'
    <2>1. Impl(g) \in PicoSockets /\ Impl(g)' = Impl(g)
      BY <1>1, <1>4 DEF LinkInv, Linked, Impl
    <2>2. Acceptable(Impl(g))' \subseteq Acceptable(Impl(g))
      BY <1>3, <2>1 DEF Acceptable
    <2> QED
      BY <1>0, <1>1, <1>4, <2>2, OtherEntry
  <1>5. type = "DGRAM" => pico'[a].state \in Quieted
    BY <1>2 DEF Quieted
  <1> QED
    BY <1>0, <1>1, <1>2, <1>4, <1>5, QueueReserve

\* create without a free handle: the socket that is closed never listened.
LEMMA QueueCreateRefused ==
    ASSUME ~ReuseAddresses, QueueInv, LinkInv, IInv, IInv',
           NEW a \in PicoSockets, NEW type, CreateRefused(a, type)
    PROVE  QueueInv'
  <1>1. /\ rpc'.pc = "idle" /\ ctl' = ctl /\ sockets' = sockets
        /\ NoHandleFound(a) /\ pico[a].state = "free"
    BY IdleFields DEF CreateRefused, Locked, Unlock, Available, Alive
  <1>2. /\ \A b \in PicoSockets \ {a} : pico'[b] = pico[b]
        /\ pico'[a].state = "closing" /\ pico'[a].parent = NoSock
    BY PicoTyped DEF CreateRefused, PicoOpen, NoPicoSocket
  <1>3. WaitMove
    BY <1>1, <1>2, SingleWait
  <1> QED
    BY <1>1, <1>3, NotReading, QueueRpc DEF SameLinks

\* accept: the connection leaves the listening socket and gets an entry of
\* its own.
LEMMA QueueAccept ==
    ASSUME QueueInv, LinkInv, IInv, IInv', NEW b \in PicoSockets,
           NEW h \in Handles, Accept(b, h)
    PROVE  QueueInv'
  <1>0. /\ sockets \in [Handles -> SocketRecord]
        /\ rpc.pc = "locked" /\ rpc.op # "create"
        /\ rpc' = IdleRpc /\ ctl' = ctl
        /\ b \in Acceptable(rpc.impl)
        /\ pico[b].state = "estab" /\ pico[b].parent = rpc.impl
        /\ sockets[h].status = "FREE"
    BY DEF IInv, TypeOK, TableTypeOK, Accept, Locked, Unlock, Acceptable,
           Reservable
  <1>1. PICK g \in Handles : g = rpc.h /\ InUse(g) /\ Impl(g) = rpc.impl
                             /\ rpc.impl \in PicoSockets
    BY <1>0, OnSocketFacts
  <1>2. ~InUse(h) /\ g # h /\ NoHandleFound(b)
    BY <1>0, <1>1, NoSockAssumption DEF InUse, LinkInv, Waiting
  <1>3. /\ sockets'[h].impl = b /\ sockets'[h].socketType = "STREAM"
        /\ sockets'[g] = AcceptedFrom(g)
        /\ \A k \in Handles \ {g, h} : sockets'[k] = sockets[k]
    BY <1>0, <1>1, <1>2 DEF Accept, ReservedEntry, SocketRecord
  <1>4. /\ \A d \in PicoSockets \ {b} : pico'[d] = pico[d]
        /\ pico'[b].parent = NoSock /\ pico'[b].state = "estab"
    BY <1>0, PicoTyped DEF Accept, PicoAccept, PicoRecord
  <1>5. \A d \in PicoSockets : Acceptable(d)' = Acceptable(d) \ {b}
    BY <1>0, <1>2, <1>4, SingleWait
  <1>6. /\ AcceptedFrom(g).status = sockets[g].status
        /\ AcceptedFrom(g).impl = sockets[g].impl
        /\ AcceptedFrom(g).socketType = sockets[g].socketType
    BY <1>0 DEF AcceptedFrom, SocketRecord
  <1>7. ASSUME NEW k \in Handles \ {h}, InUse(k)
        PROVE  EntryOk(k)'
    <2>1. Impl(k) \in PicoSockets /\ Impl(k)' = Impl(k)
      BY <1>3, <1>6, <1>7 DEF LinkInv, Linked, Impl
    <2>2. Acceptable(Impl(k))' = Acceptable(Impl(k)) \ {b}
      BY <1>5, <2>1 DEF Acceptable
    <2>3. CASE k = g
      BY <1>0, <1>1, <1>3, <2>2, <2>3, AcceptedEntry DEF Waits
    <2>4. CASE k # g
      BY <1>0, <1>3, <1>7, <2>2, <2>4, OtherEntry
    <2> QED
      BY <2>3, <2>4
  <1> QED
    BY <1>0, <1>2, <1>3, <1>4, <1>6, <1>7, QueueReserve

\* accept without a free handle: the connection leaves, and is closed.
LEMMA QueueAcceptRefused ==
    ASSUME QueueInv, LinkInv, IInv, IInv', NEW b \in PicoSockets,
           AcceptRefused(b)
    PROVE  QueueInv'
  <1>0. /\ sockets \in [Handles -> SocketRecord]
        /\ rpc.pc = "locked" /\ rpc.op # "create"
        /\ rpc'.pc = "idle" /\ ctl' = ctl
        /\ b \in Acceptable(rpc.impl)
        /\ pico[b].state = "estab" /\ pico[b].parent = rpc.impl
    BY IdleFields
    DEF IInv, TypeOK, TableTypeOK, AcceptRefused, Locked, Unlock, Acceptable
  <1>1. PICK g \in Handles : g = rpc.h /\ InUse(g) /\ Impl(g) = rpc.impl
                             /\ rpc.impl \in PicoSockets
    BY <1>0, OnSocketFacts
  <1>2. NoHandleFound(b)
    BY <1>0, <1>1, NoSockAssumption DEF LinkInv, Waiting
  <1>3. /\ sockets'[g] = AcceptedFrom(g)
        /\ \A k \in Handles \ {g} : sockets'[k] = sockets[k]
    BY <1>0, <1>1 DEF AcceptRefused
  <1>4. /\ \A d \in PicoSockets \ {b} : pico'[d] = pico[d]
        /\ pico'[b].parent = NoSock /\ pico'[b].state = "closing"
    BY PicoTyped DEF AcceptRefused, PicoAccept, PicoRecord
  <1>5. /\ Parented'
        /\ \A d \in PicoSockets : Acceptable(d)' = Acceptable(d) \ {b}
    BY <1>0, <1>2, <1>4, SingleWait DEF WaitMove
  <1>6. /\ AcceptedFrom(g).status = sockets[g].status
        /\ AcceptedFrom(g).impl = sockets[g].impl
        /\ AcceptedFrom(g).socketType = sockets[g].socketType
    BY <1>0 DEF AcceptedFrom, SocketRecord
  <1>7. \A k \in Handles :
            /\ InUse(k)' = InUse(k) /\ Impl(k)' = Impl(k)
            /\ sockets'[k].socketType = sockets[k].socketType
            /\ InUse(k) => Impl(k) \in PicoSockets \ {b}
    BY <1>2, <1>3, <1>6 DEF InUse, Impl, NoHandleFound, LinkInv, Linked
  <1>8. ASSUME NEW k \in Handles, InUse(k)
        PROVE  EntryOk(k)'
    <2>1. Acceptable(Impl(k))' = Acceptable(Impl(k)) \ {b}
      BY <1>5, <1>7, <1>8 DEF Acceptable
    <2>2. CASE k = g
      BY <1>0, <1>1, <1>3, <2>1, <2>2, AcceptedEntry DEF Waits
    <2>3. CASE k # g
      BY <1>0, <1>3, <1>8, <2>1, <2>3, OtherEntry
    <2> QED
      BY <2>2, <2>3
  <1>9. DgramLink'
    BY <1>4, <1>7 DEF QueueInv, DgramLink
  <1> QED
    BY <1>0, <1>5, <1>7, <1>8, <1>9, NotReading DEF QueueInv

\* accept without a connection: the entry loses nothing it has to keep.
LEMMA QueueAcceptNone ==
    ASSUME QueueInv, LinkInv, IInv, IInv', AcceptNone
    PROVE  QueueInv'
  <1>0. /\ sockets \in [Handles -> SocketRecord]
        /\ rpc.pc = "locked" /\ rpc.op # "create"
        /\ rpc'.pc = "idle" /\ ctl' = ctl /\ pico' = pico
        /\ Acceptable(rpc.impl) = {}
        /\ sockets' = [sockets EXCEPT ![rpc.h] = AcceptedFrom(rpc.h)]
    BY IdleFields DEF IInv, TypeOK, TableTypeOK, AcceptNone, Locked, Unlock
  <1>1. PICK g \in Handles : g = rpc.h /\ Impl(g) = rpc.impl
    BY <1>0, OnSocketFacts
  <1>2. /\ AcceptedFrom(g).status = sockets[g].status
        /\ AcceptedFrom(g).impl = sockets[g].impl
        /\ AcceptedFrom(g).socketType = sockets[g].socketType
    BY <1>0 DEF AcceptedFrom, SocketRecord
  <1>3. SameLinks /\ PicoQuiet
    BY <1>0, <1>1, <1>2 DEF SameLinks, PicoQuiet
  <1>4. ASSUME NEW h \in Handles
        PROVE  /\ sockets'[h].socketType = sockets[h].socketType
               /\ Acceptable(Impl(h)) = {} \/ sockets'[h] = sockets[h]
    BY <1>0, <1>1, <1>2
  <1> QED
    BY <1>0, <1>3, <1>4, QuietWait, NotReading, QueueRpc

\* close: no connection can be accepted any more.
LEMMA QueueClose ==
    ASSUME QueueInv, LinkInv, IInv, IInv', Close
    PROVE  QueueInv'
  <1>0. /\ sockets \in [Handles -> SocketRecord]
        /\ rpc \in RpcRecord
        /\ rpc.pc = "locked" /\ rpc.op # "create"
    BY DEF IInv, TypeOK, TableTypeOK, Close, Locked
  <1>1. WaitMove
    BY <1>0, OnSocketFacts, CloseWait DEF Close
  <1>2. \A h \in Handles :
            /\ sockets'[h].status = sockets[h].status
            /\ sockets'[h].impl = sockets[h].impl
            /\ sockets'[h].socketType = sockets[h].socketType
            /\ sockets'[h].pending = sockets[h].pending
            /\ "CONN_ACPT" \in sockets[h].eventMask =>
                    "CONN_ACPT" \in sockets'[h].eventMask
    BY <1>0 DEF Close, SocketRecord
  <1>3. rpc'.pc = "free" /\ ctl' = ctl
    BY <1>0 DEF Close, Unlock, RpcRecord
  <1>4. SameLinks
    BY <1>2 DEF SameLinks
  <1> QED
    BY <1>1, <1>2, <1>3, <1>4, NotReading, QueueRpc

\* connect and listen.
LEMMA QueueConnectOrListen ==
    ASSUME QueueInv, LinkInv, IInv, IInv', NEW op \in {"connect", "listen"},
           NEW state \in {"synsent", "listen"}, ConnectOrListen(op, state)
    PROVE  QueueInv'
  <1>0. /\ rpc.pc = "locked" /\ rpc.op # "create"
        /\ pico' \in PicoTurn(rpc.impl, state)
        /\ sockets' = sockets /\ ctl' = ctl /\ rpc'.pc = "idle"
    BY IdleFields DEF ConnectOrListen, Locked, Unlock
  <1>1. rpc.impl \in PicoSockets
    BY <1>0, OnSocketFacts
  <1>2. WaitMove
    <2>1. CASE pico' = pico
      BY <2>1, QuietWait DEF PicoQuiet
    <2>2. CASE pico[rpc.impl].state = "fresh"
               /\ pico' = [pico EXCEPT ![rpc.impl].state = "listen"]
      BY <1>1, <2>2, ListenWait
    <2>3. CASE pico[rpc.impl].state = "fresh"
               /\ pico' = [pico EXCEPT ![rpc.impl].state = "synsent"]
      <3>1. /\ pico'[rpc.impl].state = "synsent"
            /\ pico'[rpc.impl].parent = pico[rpc.impl].parent
            /\ \A b \in PicoSockets \ {rpc.impl} : pico'[b] = pico[b]
        BY <1>1, <2>3, PicoTyped DEF PicoRecord
      <3>2. pico[rpc.impl].parent = NoSock
        BY <1>1, <2>3 DEF LinkInv, Waiting
      <3> QED
        BY <1>1, <2>3, <3>1, <3>2, SingleWait DEF Quieted
    <2> QED
      BY <1>0, <2>1, <2>2, <2>3 DEF PicoTurn
  <1> QED
    BY <1>0, <1>2, NotReading, QueueRpc DEF SameLinks

\* A step that leaves the table alone and at most takes data from a socket.
LEMMA QueueQuiet ==
    ASSUME QueueInv, LinkInv, IInv, IInv', PicoQuiet, sockets' = sockets,
           ctl' = ctl,
           \/ rpc'.pc \in {"idle", "visit"}
           \/ rpc'.h = rpc.h /\ (Reading' => Reading)
    PROVE  QueueInv'
  <1>1. SameLinks
    BY DEF SameLinks
  <1>2. ReadLink'
    BY <1>1, NotReading, StillReading
  <1> QED
    BY <1>1, <1>2, QuietWait, QueueRpc

\* read and recvfrom go on with the socket they have read from.
LEMMA QueueRead ==
    ASSUME QueueInv, LinkInv, IInv, IInv',
           \/ \E op \in {"read", "recvfrom"} : ReadFails(op) \/ ReadEmpty(op)
           \/ \E len \in 1..MaxRx + 1 : ReadSome(len)
           \/ RecvFromSome
    PROVE  QueueInv'
  <1>0. rpc \in RpcRecord
    BY DEF IInv, TypeOK
  <1>1. /\ rpc.pc = "locked" /\ rpc.op \in {"read", "recvfrom"}
        /\ sockets' = sockets /\ ctl' = ctl
    BY DEF ReadFails, ReadEmpty, ReadSome, RecvFromSome, Locked, Unlock
  <1>2. \A notify : ThenClear(notify).pc = "clear" /\ ThenClear(notify).h = rpc.h
    BY <1>0 DEF ThenClear, RpcRecord
  <1>3. rpc'.pc = "idle" \/ rpc'.h = rpc.h
    BY <1>2, IdleFields
    DEF ReadFails, ReadEmpty, ReadSome, RecvFromSome, Unlock
  <1>4. pico' = pico \/ \E n : pico' = PicoTake(rpc.impl, n)
    BY DEF ReadFails, ReadEmpty, ReadSome, RecvFromSome
  <1>5. PicoQuiet
    BY <1>1, <1>4, OnSocketFacts, TakeMove DEF PicoQuiet
  <1>6. Reading
    BY <1>1 DEF Reading, OnSocket
  <1> QED
    BY <1>1, <1>3, <1>5, <1>6, QueueQuiet

\* The event mask is stored for a socket at which nothing waits.
LEMMA QueueClearStore ==
    ASSUME QueueInv, LinkInv, IInv, IInv', ClearStore
    PROVE  QueueInv'
  <1>0. sockets \in [Handles -> SocketRecord]
    BY DEF IInv, TypeOK, TableTypeOK
  <1>1. /\ pico' = pico /\ ctl' = ctl
        /\ rpc.pc = "store" /\ rpc'.pc = "idle"
        /\ sockets' = [sockets EXCEPT ![rpc.h].eventMask = rpc.val \ {"READ"}]
    BY IdleFields DEF ClearStore
  <1>2. PICK g \in Handles : g = rpc.h
    BY <1>1 DEF Holds, IInv, CallInv, SocketsOf
  <1>3. Acceptable(Impl(g)) = {}
    BY <1>1, <1>2 DEF QueueInv, ReadLink, Reading, Quieted, Acceptable
  <1>4. /\ \A h \in Handles \ {g} : sockets'[h] = sockets[h]
        /\ sockets'[g].status = sockets[g].status
        /\ sockets'[g].impl = sockets[g].impl
        /\ sockets'[g].socketType = sockets[g].socketType
    BY <1>0, <1>1, <1>2 DEF SocketRecord
  <1>5. SameLinks /\ PicoQuiet
    BY <1>1, <1>4 DEF SameLinks, PicoQuiet
  <1>6. \A h \in Handles :
            /\ sockets'[h].socketType = sockets[h].socketType
            /\ Acceptable(Impl(h)) = {} \/ sockets'[h] = sockets[h]
    BY <1>3, <1>4
  <1> QED
    BY <1>1, <1>5, <1>6, QuietWait, NotReading, QueueRpc

\* free_handle: the other entries stay as they are.
LEMMA QueueFreeHandle ==
    ASSUME QueueInv, LinkInv, IInv, IInv', FreeHandle
    PROVE  QueueInv'
  <1>a. PICK h \in Handles : h = rpc.h
    BY FreeHandleEffect DEF SocketsOf
  <1>0. sockets \in [Handles -> SocketRecord]
    BY DEF IInv, TypeOK, TableTypeOK
  <1>1. /\ sockets'[h].status = "FREE"
        /\ \A g \in Handles \ {h} : sockets'[g] = sockets[g]
        /\ pico' = pico /\ ctl' = ctl /\ rpc'.pc = "freeing"
    BY <1>a, <1>0, FreeHandleEffect DEF FreeHandle
  <1>2. ASSUME NEW g \in Handles, InUse(g)'
        PROVE  /\ sockets'[g] = sockets[g]
               /\ InUse(g)
    BY <1>1, <1>2 DEF InUse
  <1>3. PicoQuiet /\ Parented'
    BY <1>1, QuietWait DEF PicoQuiet, WaitMove
  <1>4. DgramLink'
    BY <1>1, <1>2 DEF QueueInv, DgramLink, Impl
  <1>5. ASSUME NEW g \in Handles, InUse(g)'
        PROVE  EntryOk(g)'
    <2>1. Acceptable(Impl(g))' = Acceptable(Impl(g))
      BY <1>1, <1>2, <1>5 DEF Acceptable, Impl
    <2> QED
      BY <1>1, <1>2, <1>5, <2>1, OtherEntry
  <1> QED
    BY <1>1, <1>3, <1>4, <1>5, NotReading DEF QueueInv

\* The second half of free_handle.
LEMMA QueueFreeHandleRest ==
    ASSUME QueueInv, LinkInv, IInv, IInv', FreeHandleRest
    PROVE  QueueInv'
  <1>a. PICK h \in Handles : h = rpc.h
    BY FreeHandleRestEffect
  <1>0. sockets \in [Handles -> SocketRecord]
    BY DEF IInv, TypeOK, TableTypeOK
  <1>1. /\ ~InUse(h)
        /\ sockets'[h].status = sockets[h].status
        /\ sockets'[h].impl = sockets[h].impl
        /\ \A g \in Handles \ {h} : sockets'[g] = sockets[g]
        /\ pico' = pico /\ ctl' = ctl /\ rpc'.pc = "idle"
    BY <1>a, <1>0, FreeHandleRestEffect, IdleFields
    DEF FreeHandleRest, FreedEntry, SocketRecord, InUse
  <1>2. SameLinks /\ PicoQuiet
    BY <1>1 DEF SameLinks, PicoQuiet
  <1> QED
    BY <1>1, <1>2, QuietWait, NotReading, QueueRpc

\* getPendingEvents leaves CONN_ACPT in the mask.
LEMMA QueueVisit ==
    ASSUME QueueInv, LinkInv, IInv, IInv',
           VisitQuiet \/ VisitPending \/ AfterPending
    PROVE  QueueInv'
  <1>0. /\ sockets \in [Handles -> SocketRecord]
        /\ rpc \in RpcRecord
    BY DEF IInv, TypeOK, TableTypeOK
  <1>1. PicoQuiet /\ ctl' = ctl
    BY DEF VisitQuiet, VisitPending, AfterPending, PicoQuiet
  <1>2. CASE VisitPending
    <2>1. rpc'.pc = "advance"
      BY <1>0, <1>2 DEF VisitPending, RpcRecord
    <2>2. \A h \in Handles :
            /\ sockets'[h].status = sockets[h].status
            /\ sockets'[h].impl = sockets[h].impl
            /\ sockets'[h].socketType = sockets[h].socketType
            /\ sockets'[h].pending = sockets[h].pending
            /\ "CONN_ACPT" \in sockets[h].eventMask =>
                    "CONN_ACPT" \in sockets'[h].eventMask
      BY <1>0, <1>2 DEF VisitPending, SocketRecord
    <2>3. SameLinks
      BY <2>2 DEF SameLinks
    <2> QED
      BY <1>1, <2>1, <2>2, <2>3, QuietWait, NotReading, QueueRpc
  <1>3. CASE VisitQuiet \/ AfterPending
    <2>1. rpc'.pc \in {"idle", "visit"} /\ sockets' = sockets
      BY <1>0, <1>3, IdleFields DEF VisitQuiet, AfterPending, Advance, RpcRecord
    <2> QED
      BY <1>1, <2>1, QueueQuiet
  <1> QED
    BY <1>2, <1>3

\* Every step of the RPC thread.
LEMMA QueueRpcStep ==
    ASSUME ~ReuseAddresses, QueueInv, LinkInv, IInv, IInv', RpcStep
    PROVE  QueueInv'
  <1>0. rpc \in RpcRecord
    BY DEF IInv, TypeOK
  <1>1. ASSUME CreateFails \/ \E op : PlainCall(op)
        PROVE  QueueInv'
    <2>1. UNCHANGED <<pico, sockets, ctl>> /\ rpc'.pc = "idle"
      BY <1>1, IdleFields DEF CreateFails, PlainCall, Locked, Unlock
    <2>2. PicoQuiet
      BY <2>1 DEF PicoQuiet
    <2> QED
      BY <2>1, <2>2, QueueQuiet
  <1>2. CASE RpcCritical
    <2>1. ASSUME NEW a \in PicoSockets, NEW type \in SocketTypes,
                 CreateRefused(a, type) \/ \E h \in Handles : Create(a, h, type)
          PROVE  QueueInv'
      BY <2>1, QueueCreate, QueueCreateRefused
    <2>2. CASE Connect \/ Listen
      BY <2>2, QueueConnectOrListen DEF Connect, Listen
    <2>3. ASSUME NEW b \in PicoSockets,
                 AcceptRefused(b) \/ \E h \in Handles : Accept(b, h)
          PROVE  QueueInv'
      BY <2>3, QueueAccept, QueueAcceptRefused
    <2> QED
      BY <1>1, <1>2, <2>1, <2>2, <2>3, QueueClose, QueueAcceptNone, QueueRead
      DEF RpcCritical, Bind, Write, SendTo
  <1>3. CASE RpcLock \/ ClearLoad
    <2>1. /\ PicoQuiet /\ sockets' = sockets /\ ctl' = ctl
          /\ rpc'.h = rpc.h /\ rpc'.op = rpc.op
          /\ \/ rpc.pc = "lock" /\ rpc'.pc = "locked"
             \/ rpc.pc = "clear" /\ rpc'.pc = "store"
      BY <1>0, <1>3 DEF RpcLock, ClearLoad, RpcRecord, PicoQuiet
    <2>2. Reading' => Reading
      BY <2>1 DEF Reading, OnSocket
    <2> QED
      BY <2>1, <2>2, QueueQuiet
  <1> QED
    BY <1>2, <1>3, QueueClearStore, QueueFreeHandle, QueueFreeHandleRest,
       QueueVisit
    DEF RpcStep

-----------------------------------------------------------------------------
(* The theorem.                                                            *)

\* At start nothing waits.
LEMMA QueueInit == Init => QueueInv
  <1> SUFFICES ASSUME Init
               PROVE  QueueInv
    OBVIOUS
  <1>1. /\ \A h \in Handles : ~InUse(h)
        /\ \A a \in PicoSockets : pico[a].parent = NoSock
        /\ rpc.pc = "idle"
    BY IdleFields
    DEF Init, TableInit, ZeroSocket, PicoInit, NoPicoSocket, InUse
  <1> QED
    BY <1>1 DEF QueueInv, Parented, DgramLink, ReadLink, Reading, OnSocket

\* Every step keeps what a listening socket knows of its connections.
LEMMA QueueStep ==
    ASSUME ~ReuseAddresses, QueueInv, LinkInv, IInv, IInv', [Next]_vars
    PROVE  QueueInv'
  <1>1. CASE UNCHANGED vars
    <2>1. /\ PicoQuiet /\ sockets' = sockets /\ ctl' = ctl /\ rpc' = rpc
      BY <1>1 DEF vars, PicoQuiet
    <2>2. Reading' => Reading
      BY <2>1 DEF Reading, OnSocket
    <2> QED
      BY <2>1, <2>2, QueueQuiet
  <1> QED
    BY <1>1, QueueClientCall, QueueRpcStep, QueueControl DEF Next

\* The callback and accept agree about the connections that wait.
LEMMA QueueHolds ==
    ASSUME ~ReuseAddresses
    PROVE  Spec => []QueueInv
  <1>1. QueueInv /\ LinkInv /\ IInv /\ IInv' /\ [Next]_vars => QueueInv'
    BY QueueStep
  <1> QED
    BY <1>1, QueueInit, Invariant, LinkHolds, PTL DEF Spec

\* While an established connection waits at a listening socket, the server is
\* told so: pendingConnections covers what waits, and CONN_ACPT stays set
\* until the last connection has been accepted.
THEOREM ConnectionsAnnouncedHolds ==
    ASSUME ~ReuseAddresses
    PROVE  Spec => []ConnectionsAnnounced
  <1>1. QueueInv /\ IInv => ConnectionsAnnounced
    <2> SUFFICES ASSUME QueueInv, IInv, NEW h \in Handles, InUse(h),
                        ~CallbackAt(h)
                 PROVE  /\ Cardinality(Waits(h)) <= sockets[h].pending
                        /\ Waits(h) # {} => "CONN_ACPT" \in sockets[h].eventMask
      BY DEF ConnectionsAnnounced, CallbackAt, Waits, Impl
    <2>1. Coming(h) = 0 /\ Told(h) = sockets[h].eventMask
      BY DEF Coming, Told
    <2>2. EntryOk(h) /\ sockets[h].pending + 0 = sockets[h].pending
      BY PendingType DEF QueueInv
    <2> QED
      BY <2>1, <2>2 DEF EntryOk
  <1> QED
    BY <1>1, QueueHolds, Invariant, PTL

-----------------------------------------------------------------------------
(* Refinement: the abstract service of connections.                        *)

\* What a step may look like to the service.
AcceptMove == Accepting!Next \/ UNCHANGED <<Owner, Holding, Backlog>>

\* What the service sees of an entry.
LEMMA ServiceView ==
    ASSUME LinkInv, NEW h \in Handles
    PROVE  /\ Owner[h] = IF InUse(h) THEN sockets[h].clientId ELSE NoClient
           /\ Holding[h] = Impl(h)
           /\ Backlog[h] = IF InUse(h) THEN Waits(h) ELSE {}
           /\ InUse(h) => Impl(h) \in PicoSockets /\ ~NoHandleFound(Impl(h))
           /\ ~InUse(h) => Impl(h) = NoSock
  BY NoSockAssumption, HandleHeld
  DEF LinkInv, Linked, Owner, Holding, Backlog, Waits, Impl

\* What it sees of the entries after a step.
LEMMA NextView ==
    ASSUME LinkInv', NEW h \in Handles
    PROVE  /\ Holding'[h] = sockets'[h].impl
           /\ Backlog'[h] = IF InUse(h)' THEN Waits(h)' ELSE {}
  BY NoSockAssumption
  DEF LinkInv, Linked, Holding, Backlog, Waits, Impl, Acceptable

\* What can be accepted from an entry that keeps its socket.
LEMMA WaitsView ==
    ASSUME NEW h \in Handles, NEW a, Impl(h) = a, Impl(h)' = a
    PROVE  Waits(h) = Acceptable(a) /\ Waits(h)' = Acceptable(a)'
  BY DEF Waits, Acceptable

\* A step that keeps the links keeps the owners, too.
LEMMA OwnerKept ==
    ASSUME IInv, [Next]_vars, SameLinks
    PROVE  Owner' = Owner
  <1>0. sockets \in [Handles -> SocketRecord]
    BY DEF IInv, TypeOK, TableTypeOK
  <1>1. CASE Kept
    BY <1>1 DEF Kept, SameOwner, Owner, InUse
  <1>2. ASSUME NEW h \in Handles, Reserves(h)
        PROVE  FALSE
    BY <1>2 DEF Reserves, Reservable, SameLinks
  <1>3. CASE FreeHandle
    <2>1. rpc.h \in Handles /\ sockets[rpc.h].status = "IN_USE"
          /\ sockets'[rpc.h].status = "FREE"
      BY <1>3, FreeHandleEffect DEF SocketsOf
    <2> QED
      BY <2>1 DEF SameLinks
  <1>4. CASE FreeHandleRest
    <2>1. PICK k \in Handles :
            /\ sockets' = [sockets EXCEPT ![k] = FreedEntry(k)]
            /\ sockets[k].status = "FREE" /\ sockets'[k].status = "FREE"
      BY <1>4, FreeHandleRestEffect
    <2>2. \A h \in Handles \ {k} : sockets'[h] = sockets[h]
      BY <1>0, <2>1
    <2> QED
      BY <2>1, <2>2 DEF Owner, InUse
  <1> QED
    BY <1>1, <1>2, <1>3, <1>4, TableStep

\* A connection waits at one entry only.
LEMMA OneListener ==
    ASSUME LinkInv, NEW g \in Handles, NEW h \in Handles, InUse(g), InUse(h),
           NEW b, b \in Waits(g), b \in Waits(h)
    PROVE  h = g
  <1>1. pico[b].parent = Impl(g) /\ pico[b].parent = Impl(h)
    BY DEF Waits, Acceptable
  <1> QED
    BY <1>1 DEF LinkInv, Unshared

\* A step that keeps the links and what waits is not seen.
LEMMA Stays ==
    ASSUME LinkInv, LinkInv', IInv, [Next]_vars, SameLinks,
           \A a \in PicoSockets : ~NoHandleFound(a) =>
                                        Acceptable(a)' = Acceptable(a)
    PROVE  AcceptMove
  <1>1. Owner' = Owner
    BY OwnerKept
  <1>2. ASSUME NEW h \in Handles
        PROVE  /\ Holding'[h] = Holding[h]
               /\ Backlog'[h] = Backlog[h]
    <2>1. InUse(h)' = InUse(h) /\ Impl(h)' = Impl(h)
      BY DEF SameLinks, InUse, Impl
    <2>2. InUse(h) => Waits(h)' = Waits(h)
      <3> SUFFICES ASSUME InUse(h)
                   PROVE  Waits(h)' = Waits(h)
        OBVIOUS
      <3>1. PICK a \in PicoSockets : a = Impl(h) /\ ~NoHandleFound(a)
        BY ServiceView
      <3> QED
        BY <2>1, <3>1, WaitsView
    <2> QED
      BY <2>1, <2>2, ServiceView, NextView DEF Impl
  <1>3. Holding' = Holding /\ Backlog' = Backlog
    BY <1>2 DEF Holding, Backlog
  <1> QED
    BY <1>1, <1>3 DEF AcceptMove

\* A step that keeps the links and takes one connection away is a Leave, or
\* not seen when the connection waited nowhere.
LEMMA Leaves ==
    ASSUME LinkInv, LinkInv', IInv, [Next]_vars, SameLinks,
           NEW b \in PicoSockets,
           \A a \in PicoSockets : ~NoHandleFound(a) =>
                                        Acceptable(a)' = Acceptable(a) \ {b}
    PROVE  AcceptMove
  <1>1. CASE \A h \in Handles : b \notin Backlog[h]
    <2>1. ASSUME NEW a \in PicoSockets, ~NoHandleFound(a)
          PROVE  b \notin Acceptable(a)
      <3>1. PICK h \in Handles : Impl(h) = a
        BY <2>1 DEF NoHandleFound, Impl
      <3>2. InUse(h)
        BY <3>1, NoSockAssumption DEF LinkInv, Linked
      <3> QED
        BY <1>1, <3>1, <3>2, ServiceView DEF Waits
    <2>2. \A a \in PicoSockets : ~NoHandleFound(a) =>
                                        Acceptable(a)' = Acceptable(a)
      BY <2>1
    <2> QED
      BY <2>2, Stays
  <1>2. ASSUME NEW g \in Handles, b \in Backlog[g]
        PROVE  Accepting!Leave(g, b)
    <2>1. InUse(g) /\ b \in Waits(g)
      BY <1>2, ServiceView
    <2>2. ASSUME NEW h \in Handles
          PROVE  /\ Holding'[h] = Holding[h]
                 /\ Backlog'[h] = IF h = g THEN Backlog[h] \ {b} ELSE Backlog[h]
      <3>1. InUse(h)' = InUse(h) /\ Impl(h)' = Impl(h)
        BY DEF SameLinks, InUse, Impl
      <3>2. InUse(h) => Waits(h)' = Waits(h) \ {b}
        <4> SUFFICES ASSUME InUse(h)
                     PROVE  Waits(h)' = Waits(h) \ {b}
          OBVIOUS
        <4>1. PICK a \in PicoSockets : a = Impl(h) /\ ~NoHandleFound(a)
          BY ServiceView
        <4> QED
          BY <3>1, <4>1, WaitsView
      <3>3. InUse(h) /\ b \in Waits(h) => h = g
        BY <2>1, OneListener
      <3>4. InUse(h) => Backlog'[h] = Waits(h) \ {b} /\ Backlog[h] = Waits(h)
        BY <3>1, <3>2, ServiceView, NextView
      <3>5. ~InUse(h) => Backlog'[h] = {} /\ Backlog[h] = {} /\ h # g
        BY <2>1, <3>1, ServiceView, NextView
      <3>6. Holding'[h] = Holding[h]
        BY <3>1, ServiceView, NextView DEF Impl
      <3> QED
        BY <3>3, <3>4, <3>5, <3>6
    <2>3. Holding' = Holding /\ Backlog' = [Backlog EXCEPT ![g] = @ \ {b}]
      BY <2>2 DEF Holding, Backlog
    <2> QED
      BY <1>2, <2>3, OwnerKept DEF Accepting!Leave
  <1> QED
    BY <1>1, <1>2 DEF AcceptMove, Accepting!Next

-----------------------------------------------------------------------------
(* Refinement: picoTCP and the control thread.                             *)

\* An event takes its own socket out of what waits, or nothing.
LEMMA EventLoses ==
    ASSUME LinkInv, IInv, NEW a \in PicoSockets, NEW e \in PicoEvents,
           CanHappen(a, e), pico' = PicoAfter(a, e)
    PROVE  \/ \A d \in PicoSockets : Acceptable(d)' = Acceptable(d)
           \/ \A d \in PicoSockets : Acceptable(d)' = Acceptable(d) \ {a}
  <1>1. /\ pico[a].state = e.from
        /\ pico'[a].state = e.to
        /\ pico'[a].parent = IF e.to = "free" THEN NoSock ELSE pico[a].parent
        /\ \A b \in PicoSockets \ {a} : pico'[b] = pico[b]
    BY PicoTyped DEF CanHappen, PicoAfter, NoPicoSocket, PicoRecord
  <1>2. /\ e.from # "listen" /\ e.to # "listen"
        /\ e.to = "estab" /\ e.from # "estab" => e.from = "synsent"
    BY DEF PicoEvents, AllPicoEvents, PicoEvent
  <1>3. pico[a].state = "synsent" => pico[a].parent = NoSock
    BY DEF LinkInv, Waiting
  <1>4. CASE e.from = "estab" /\ e.to = "estab"
    BY <1>1, <1>4 DEF Acceptable
  <1>5. CASE e.from # "estab" \/ e.to # "estab"
    BY <1>1, <1>2, <1>3, <1>5, NoSockAssumption DEF Acceptable
  <1> QED
    BY <1>4, <1>5

\* pico_socket_close() empties its own queue and leaves every other one.
LEMMA CloseLoses ==
    ASSUME IInv, NEW a \in PicoSockets, pico' = PicoClose(a)
    PROVE  /\ Acceptable(a)' = {}
           /\ \A d \in PicoSockets \ {a} : Acceptable(d)' = Acceptable(d) \ {a}
  <1>1. pico'[a].state \in {"free", "closing"}
    BY PicoTyped DEF PicoClose, PicoRecord
  <1>2. ASSUME NEW b \in PicoSockets, b # a, pico[b].parent = a
        PROVE  /\ pico'[b].parent = NoSock
               /\ pico'[b].state = "listen" <=> pico[b].state = "listen"
    BY <1>2, PicoTyped DEF PicoClose, PicoRecord
  <1>3. ASSUME NEW b \in PicoSockets, b # a, pico[b].parent # a
        PROVE  pico'[b] = pico[b]
    BY <1>3 DEF PicoClose
  <1>4. \A d \in PicoSockets \ {a} : pico'[d].state = "listen" <=>
                                        pico[d].state = "listen"
    BY <1>2, <1>3
  <1> QED
    BY <1>1, <1>2, <1>3, <1>4, NoSockAssumption DEF Acceptable

\* The control thread never gives out or frees a handle.
LEMMA ControlLinks ==
    ASSUME IInv, TickOrData \/ PicoStep \/ CtlStep
    PROVE  SameLinks
  <1>0. sockets \in [Handles -> SocketRecord]
    BY DEF IInv, TypeOK, TableTypeOK
  <1>1. CASE EventFinish \/ EventFault
    <2>1. PICK k \in Handles : k = ctl.h
      BY <1>1 DEF IInv, CtlInv, EventFinish, EventFault
    <2>2. sockets' = [sockets EXCEPT ![k] = WithEvents(k)]
      BY <1>1, <2>1 DEF EventFinish, EventFault
    <2> QED
      BY <1>0, <2>1, <2>2 DEF WithEvents, SocketRecord, SameLinks
  <1>2. CASE sockets' = sockets
    BY <1>2 DEF SameLinks
  <1> QED
    BY <1>1, <1>2
    DEF TickOrData, PicoStep, CtlStep, CtlWait, CtlLock, EventBegin,
        EventNoHandle, EventIncoming, TickDone, SkipClient, NotifyClient,
        NotifyClear, CtlUnlock

\* An event of a socket without a handle.
LEMMA AcceptEventNoHandle ==
    ASSUME LinkInv, LinkInv', IInv, [Next]_vars, SameLinks,
           NEW a \in PicoSockets, NEW e \in PicoEvents, EventNoHandle(a, e)
    PROVE  AcceptMove
  <1>1. CASE pico' = PicoAfter(a, e)
    BY <1>1, EventLoses, Stays, Leaves DEF EventNoHandle
  <1>2. CASE pico' = PicoClose(a)
    <2>1. \A d \in PicoSockets : ~NoHandleFound(d) =>
                                    Acceptable(d)' = Acceptable(d) \ {a}
      BY <1>2, CloseLoses DEF EventNoHandle
    <2> QED
      BY <2>1, Leaves
  <1> QED
    BY <1>1, <1>2 DEF EventNoHandle

\* A connection arrives at the entry of the listening socket.
LEMMA AcceptIncoming ==
    ASSUME ~ReuseAddresses, LinkInv, LinkInv', IInv, [Next]_vars, SameLinks,
           NEW l \in PicoSockets, NEW b \in PicoSockets, NEW h \in Handles,
           EventIncoming(l, b, h)
    PROVE  AcceptMove
  <1>1. /\ pico[l].state = "listen" /\ pico[b].state = "free"
        /\ NoHandleFound(b)
        /\ Impl(h) = l
    BY DEF EventIncoming, Available, Alive, HandleFound, Impl
  <1>2. /\ pico'[b].state = "estab" /\ pico'[b].parent = l
        /\ \A d \in PicoSockets \ {b} : pico'[d] = pico[d]
    BY PicoTyped DEF EventIncoming, PicoIncoming, NoPicoSocket
  <1>3. /\ \A d \in PicoSockets \ {l} : Acceptable(d)' = Acceptable(d)
        /\ Acceptable(l)' = Acceptable(l) \cup {b}
        /\ \A d \in PicoSockets : b \notin Acceptable(d)
    BY <1>1, <1>2 DEF Acceptable
  <1>4. InUse(h) /\ Owner[h] # NoClient
    <2>1. InUse(h)
      BY <1>1, NoSockAssumption DEF LinkInv, Linked
    <2> QED
      BY <2>1, ServiceView, NoClientAssumption DEF IInv, OwnerInv
  <1>5. ASSUME NEW g \in Handles
        PROVE  /\ Holding'[g] = Holding[g]
               /\ Holding[g] # b /\ b \notin Backlog[g]
               /\ Backlog'[g] = IF g = h THEN Backlog[g] \cup {b} ELSE Backlog[g]
    <2>1. InUse(g)' = InUse(g) /\ Impl(g)' = Impl(g)
      BY DEF SameLinks, InUse, Impl
    <2>2. Holding[g] # b /\ b \notin Backlog[g]
      BY <1>1, <1>3, ServiceView DEF NoHandleFound, Impl, Waits
    <2>3. InUse(g) /\ g # h => Impl(g) # l
      BY <1>1, <1>4 DEF LinkInv, Unshared
    <2>4. InUse(g) => Waits(g)' = IF g = h THEN Waits(g) \cup {b} ELSE Waits(g)
      <3> SUFFICES ASSUME InUse(g)
                   PROVE  Waits(g)' = IF g = h THEN Waits(g) \cup {b}
                                               ELSE Waits(g)
        OBVIOUS
      <3>1. PICK a \in PicoSockets : a = Impl(g)
        BY ServiceView
      <3> QED
        BY <1>1, <1>3, <2>1, <2>3, <3>1, WaitsView
    <2> QED
      BY <1>4, <2>1, <2>2, <2>4, ServiceView, NextView DEF Impl
  <1>6. Holding' = Holding /\ Backlog' = [Backlog EXCEPT ![h] = @ \cup {b}]
    BY <1>5 DEF Holding, Backlog
  <1>7. Accepting!Arrive(h, b)
    BY <1>4, <1>5, <1>6, OwnerKept DEF Accepting!Arrive, Accepting!New
  <1> QED
    BY <1>7 DEF AcceptMove, Accepting!Next

\* Every step of the control thread and of picoTCP.
LEMMA AcceptControl ==
    ASSUME ~ReuseAddresses, LinkInv, LinkInv', IInv,
           TickOrData \/ PicoStep \/ CtlStep
    PROVE  AcceptMove
  <1>0. [Next]_vars /\ SameLinks
    BY ControlLinks DEF Next
  <1>1. CASE pico' = pico
    BY <1>0, <1>1, Stays DEF Acceptable
  <1>2. ASSUME NEW a \in PicoSockets, NEW e \in PicoEvents, NEW h \in Handles,
               EventBegin(a, e, h)
        PROVE  AcceptMove
    BY <1>0, <1>2, EventLoses, Stays, Leaves DEF EventBegin
  <1>3. CASE PicoStep
    BY <1>0, <1>2, <1>3, AcceptEventNoHandle, AcceptIncoming DEF PicoStep
  <1> QED
    BY <1>1, <1>3
    DEF TickOrData, CtlStep, CtlWait, CtlLock, EventFinish, EventFault,
        TickDone, SkipClient, NotifyClient, NotifyClear, CtlUnlock

-----------------------------------------------------------------------------
(* Refinement: the RPC thread.                                             *)

\* A step that keeps links, states and parents is not seen.
LEMMA QuietStays ==
    ASSUME LinkInv, LinkInv', IInv, [Next]_vars, SameLinks, PicoQuiet
    PROVE  AcceptMove
  <1>1. \A a \in PicoSockets : Acceptable(a)' = Acceptable(a)
    BY DEF PicoQuiet, Acceptable
  <1> QED
    BY <1>1, Stays

\* A handle is given out: the entry belongs to the caller and holds the new
\* socket, and nothing waits at it.
LEMMA ReservedView ==
    ASSUME LinkInv, LinkInv', IInv, NEW h \in Handles, NEW b \in PicoSockets,
           Reserves(h), sockets'[h].impl = b,
           \A g \in Handles \ {h} : sockets'[g].impl = sockets[g].impl,
           pico'[b].state # "listen"
    PROVE  /\ Owner[h] = NoClient
           /\ Owner' = [Owner EXCEPT ![h] = rpc.client]
           /\ Holding' = [Holding EXCEPT ![h] = b]
           /\ Backlog[h] = {} /\ Backlog'[h] = {}
           /\ \A g \in Handles \ {h} : /\ InUse(g)' = InUse(g)
                                       /\ Impl(g)' = Impl(g)
  <1>1. ~InUse(h)
    BY DEF Reserves, Reservable, InUse
  <1>2. \A g \in Handles \ {h} : /\ InUse(g)' = InUse(g)
                                 /\ Impl(g)' = Impl(g)
    BY DEF Reserves, SameOwner, InUse, Impl
  <1>3. Owner' = [Owner EXCEPT ![h] = rpc.client]
    BY DEF Reserves, SameOwner, Owner, InUse
  <1>4. \A g \in Handles : Holding'[g] = IF g = h THEN b ELSE Holding[g]
    BY <1>2, ServiceView, NextView DEF Impl
  <1>5. Holding' = [Holding EXCEPT ![h] = b]
    BY <1>4 DEF Holding
  <1>6. Waits(h)' = {}
    BY DEF Waits, Acceptable, Impl
  <1> QED
    BY <1>1, <1>2, <1>3, <1>5, <1>6, ServiceView, NextView

\* create opens a socket that nobody holds.
LEMMA AcceptCreate ==
    ASSUME ~ReuseAddresses, LinkInv, LinkInv', IInv, NEW a \in PicoSockets,
           NEW h \in Handles, NEW type \in SocketTypes, Create(a, h, type)
    PROVE  AcceptMove
  <1>0. /\ sockets \in [Handles -> SocketRecord]
        /\ rpc.pc = "locked" /\ NoHandleFound(a) /\ pico[a].state = "free"
    BY DEF IInv, TypeOK, TableTypeOK, Create, Locked, Available, Alive
  <1>1. /\ sockets'[h].impl = a /\ sockets'[h].status = "IN_USE"
        /\ sockets'[h].clientId = rpc.client /\ sockets'[h].pending = 0
        /\ sockets'[h].eventMask = sockets[h].eventMask
        /\ \A g \in Handles \ {h} : sockets'[g] = sockets[g]
    BY <1>0 DEF Create, ReservedEntry, SocketRecord
  <1>2. Reserves(h)
    BY <1>0, <1>1 DEF Create, Reserves, SameOwner, Unlock
  <1>3. /\ \A b \in PicoSockets \ {a} : pico'[b] = pico[b]
        /\ pico'[a].state \in {"fresh", "dgram"}
    BY PicoTyped DEF Create, PicoOpen, NoPicoSocket
  <1>4. /\ Owner[h] = NoClient
        /\ Owner' = [Owner EXCEPT ![h] = rpc.client]
        /\ Holding' = [Holding EXCEPT ![h] = a]
        /\ Backlog[h] = {} /\ Backlog'[h] = {}
        /\ \A g \in Handles \ {h} : InUse(g)' = InUse(g) /\ Impl(g)' = Impl(g)
    BY <1>1, <1>2, <1>3, ReservedView
  <1>5. /\ \A d \in PicoSockets \ {a} : Acceptable(d)' = Acceptable(d)
        /\ \A d \in PicoSockets : a \notin Acceptable(d)
    BY <1>0, <1>3 DEF Acceptable
  <1>6. ASSUME NEW g \in Handles
        PROVE  /\ Holding[g] # a /\ a \notin Backlog[g]
               /\ Backlog'[g] = Backlog[g]
    <2>1. Holding[g] # a /\ a \notin Backlog[g]
      BY <1>0, <1>5, ServiceView DEF NoHandleFound, Impl, Waits
    <2>2. ASSUME g # h, InUse(g)
          PROVE  Waits(g)' = Waits(g)
      <3>1. PICK d \in PicoSockets \ {a} : d = Impl(g)
        BY <1>0, <2>2, ServiceView DEF NoHandleFound, Impl
      <3> QED
        BY <1>4, <1>5, <2>2, <3>1, WaitsView
    <2> QED
      BY <1>4, <2>1, <2>2, ServiceView, NextView
  <1>7. Backlog' = Backlog
    BY <1>6 DEF Backlog
  <1>8. rpc.client \in Clients
    BY <1>0 DEF IInv, CallInv
  <1>9. Accepting!Open(rpc.client, h, a)
    BY <1>4, <1>6, <1>7 DEF Accepting!Open, Accepting!New
  <1> QED
    BY <1>8, <1>9 DEF AcceptMove, Accepting!Next

\* accept hands a connection that waits to the owner of the listening socket.
LEMMA AcceptAccept ==
    ASSUME LinkInv, LinkInv', IInv, NEW b \in PicoSockets, NEW h \in Handles,
           Accept(b, h)
    PROVE  AcceptMove
  <1>0. /\ sockets \in [Handles -> SocketRecord]
        /\ rpc.pc = "locked" /\ rpc.op # "create"
        /\ b \in Acceptable(rpc.impl)
        /\ pico[b].state = "estab" /\ pico[b].parent = rpc.impl
        /\ sockets[h].status = "FREE"
    BY DEF IInv, TypeOK, TableTypeOK, Accept, Locked, Acceptable, Reservable
  <1>1. PICK g \in Handles : g = rpc.h /\ InUse(g) /\ Impl(g) = rpc.impl
                             /\ rpc.impl \in PicoSockets
    BY <1>0, OnSocketFacts
  <1>2. sockets[g].clientId = rpc.client /\ g # h /\ ~InUse(h)
    BY <1>0, <1>1
    DEF IInv, CallInv, Holds, OnSocket, SocketsOf, InUse
  <1>3. /\ AcceptedFrom(g).status = sockets[g].status
        /\ AcceptedFrom(g).impl = sockets[g].impl
        /\ AcceptedFrom(g).clientId = sockets[g].clientId
    BY <1>0 DEF AcceptedFrom, SocketRecord
  <1>4. /\ sockets'[h] = [ReservedEntry(h, b, rpc.client) EXCEPT
                            !.parentHandle = g,
                            !.clientId = sockets[g].clientId,
                            !.socketType = "STREAM", !.connected = TRUE]
        /\ sockets'[g] = AcceptedFrom(g)
        /\ \A k \in Handles \ {g, h} : sockets'[k] = sockets[k]
    BY <1>0, <1>1, <1>2 DEF Accept
  <1>5. /\ sockets'[h].impl = b /\ sockets'[h].status = "IN_USE"
        /\ sockets'[h].clientId = rpc.client /\ sockets'[h].pending = 0
        /\ sockets'[h].eventMask = sockets[h].eventMask
    BY <1>0, <1>2, <1>4 DEF ReservedEntry, SocketRecord
  <1>6. Reserves(h)
    <2>1. \A k \in Handles \ {h} : /\ SameOwner(k)
                                   /\ ~InUse(k) => sockets'[k] = sockets[k]
      BY <1>1, <1>3, <1>4 DEF SameOwner
    <2> QED
      BY <1>0, <1>5, <2>1 DEF Accept, Reserves, Unlock
  <1>7. /\ \A d \in PicoSockets \ {b} : pico'[d] = pico[d]
        /\ pico'[b].parent = NoSock /\ pico'[b].state = "estab"
    BY <1>0, PicoTyped DEF Accept, PicoAccept, PicoRecord
  <1>8. /\ Owner[h] = NoClient
        /\ Owner' = [Owner EXCEPT ![h] = rpc.client]
        /\ Holding' = [Holding EXCEPT ![h] = b]
        /\ Backlog[h] = {} /\ Backlog'[h] = {}
        /\ \A k \in Handles \ {h} : InUse(k)' = InUse(k) /\ Impl(k)' = Impl(k)
    <2>1. \A k \in Handles \ {h} : sockets'[k].impl = sockets[k].impl
      BY <1>3, <1>4
    <2> QED
      BY <1>5, <1>6, <1>7, <2>1, ReservedView
  <1>9. \A d \in PicoSockets : Acceptable(d)' = Acceptable(d) \ {b}
    BY <1>0, <1>7, NoSockAssumption DEF Acceptable
  <1>10. b \in Backlog[g] /\ Owner[g] = rpc.client
    BY <1>0, <1>1, <1>2, ServiceView DEF Waits
  <1>11. ASSUME NEW k \in Handles
         PROVE  Backlog'[k] = IF k = g THEN Backlog[k] \ {b} ELSE Backlog[k]
    <2>1. ASSUME k # h, InUse(k)
          PROVE  Waits(k)' = Waits(k) \ {b}
      <3>1. PICK d \in PicoSockets : d = Impl(k)
        BY <2>1, ServiceView
      <3> QED
        BY <1>8, <1>9, <2>1, <3>1, WaitsView
    <2>2. InUse(k) /\ b \in Waits(k) => k = g
      BY <1>0, <1>1, OneListener DEF Waits
    <2>3. CASE k = h
      BY <1>2, <1>8, <2>3
    <2>4. CASE k # h /\ InUse(k)
      <3>1. Backlog'[k] = Waits(k) \ {b} /\ Backlog[k] = Waits(k)
        BY <1>8, <2>1, <2>4, ServiceView, NextView
      <3> QED
        BY <2>2, <2>4, <3>1
    <2>5. CASE k # h /\ ~InUse(k)
      <3>1. Backlog'[k] = {} /\ Backlog[k] = {}
        BY <1>8, <2>5, ServiceView, NextView
      <3> QED
        BY <3>1
    <2> QED
      BY <2>3, <2>4, <2>5
  <1>12. Backlog' = [Backlog EXCEPT ![g] = @ \ {b}]
    BY <1>11 DEF Backlog
  <1>13. Accepting!Accept(g, h, b)
    BY <1>8, <1>10, <1>12 DEF Accepting!Accept
  <1> QED
    BY <1>13 DEF AcceptMove, Accepting!Next

\* close drops what waits at the handle.
LEMMA AcceptClose ==
    ASSUME LinkInv, LinkInv', IInv, [Next]_vars, Close
    PROVE  AcceptMove
  <1>0. /\ sockets \in [Handles -> SocketRecord]
        /\ rpc.pc = "locked" /\ rpc.op # "create"
    BY DEF IInv, TypeOK, TableTypeOK, Close, Locked
  <1>1. PICK g \in Handles : /\ g = rpc.h /\ InUse(g) /\ Impl(g) = rpc.impl
                             /\ rpc.impl \in PicoSockets
                             /\ ~NoHandleFound(rpc.impl)
    BY <1>0, OnSocketFacts
  <1>2. SameLinks
    BY <1>0 DEF Close, SocketRecord, SameLinks
  <1>a. PICK a \in PicoSockets : a = rpc.impl
    BY <1>1
  <1>3. /\ Acceptable(a)' = {}
        /\ \A d \in PicoSockets \ {a} : Acceptable(d)' = Acceptable(d) \ {a}
    BY <1>a, CloseLoses DEF Close
  <1>4. \A d \in PicoSockets : a \notin Acceptable(d)
    BY <1>1, <1>a, NoSockAssumption DEF LinkInv, Waiting, Acceptable
  <1>5. ASSUME NEW k \in Handles
        PROVE  /\ Holding'[k] = Holding[k]
               /\ Backlog'[k] = IF k = g THEN {} ELSE Backlog[k]
    <2>1. InUse(k)' = InUse(k) /\ Impl(k)' = Impl(k)
      BY <1>2 DEF SameLinks, InUse, Impl
    <2>2. InUse(k) => Waits(k)' = IF k = g THEN {} ELSE Waits(k)
      <3> SUFFICES ASSUME InUse(k)
                   PROVE  Waits(k)' = IF k = g THEN {} ELSE Waits(k)
        OBVIOUS
      <3>1. PICK d \in PicoSockets : d = Impl(k)
        BY ServiceView
      <3>2. k = g <=> d = a
        BY <1>1, <1>a, <3>1 DEF LinkInv, Unshared
      <3>3. Acceptable(d)' = IF k = g THEN {} ELSE Acceptable(d)
        <4>1. CASE k = g
          BY <1>3, <3>2, <4>1
        <4>2. CASE k # g
          BY <1>3, <1>4, <3>2, <4>2
        <4> QED
          BY <4>1, <4>2
      <3> QED
        BY <2>1, <3>1, <3>3, WaitsView
    <2>3. Holding'[k] = Holding[k]
      BY <2>1, ServiceView, NextView DEF Impl
    <2>4. InUse(k) => Backlog'[k] = Waits(k)' /\ Backlog[k] = Waits(k)
      BY <2>1, ServiceView, NextView
    <2>5. ~InUse(k) => Backlog'[k] = {} /\ Backlog[k] = {} /\ k # g
      BY <1>1, <2>1, ServiceView, NextView
    <2> QED
      BY <2>2, <2>3, <2>4, <2>5
  <1>6. Holding' = Holding /\ Backlog' = [Backlog EXCEPT ![g] = {}]
    BY <1>5 DEF Holding, Backlog
  <1>7. Accepting!Drop(g)
    BY <1>2, <1>6, OwnerKept DEF Accepting!Drop
  <1> QED
    BY <1>7 DEF AcceptMove, Accepting!Next

\* free_handle releases a handle at which nothing waits any more.
LEMMA AcceptFreeHandle ==
    ASSUME LinkInv, LinkInv', IInv, FreeHandle
    PROVE  AcceptMove
  <1>0. sockets \in [Handles -> SocketRecord]
    BY DEF IInv, TypeOK, TableTypeOK
  <1>1. PICK g \in Handles :
            /\ g = rpc.h /\ InUse(g)
            /\ sockets' = [sockets EXCEPT ![g] = HalfFreedEntry(g)]
            /\ sockets'[g].status = "FREE"
            /\ sockets[g].clientId \in Clients
    BY FreeHandleEffect DEF SocketsOf, InUse
  <1>2. pico' = pico /\ \A k \in Handles \ {g} : sockets'[k] = sockets[k]
    BY <1>0, <1>1 DEF FreeHandle
  <1>3. Waits(g) = {}
    BY <1>1 DEF FreeHandle, LinkInv, FreeLink, Ended, Waits, Acceptable
  <1>4. ~InUse(g)' /\ sockets'[g].impl = NoSock
    BY <1>0, <1>1 DEF InUse, HalfFreedEntry, SocketRecord
  <1>5. ASSUME NEW k \in Handles
        PROVE  /\ Owner'[k] = IF k = g THEN NoClient ELSE Owner[k]
               /\ Holding'[k] = IF k = g THEN NoSock ELSE Holding[k]
               /\ Backlog'[k] = Backlog[k]
    <2>1. CASE k = g
      <3>1. Owner'[k] = NoClient
        BY <1>4, <2>1 DEF Owner
      <3>2. Holding'[k] = NoSock
        BY <1>4, <2>1, NextView
      <3>3. Backlog'[k] = {} /\ Backlog[k] = {}
        BY <1>1, <1>3, <1>4, <2>1, ServiceView, NextView
      <3> QED
        BY <2>1, <3>1, <3>2, <3>3
    <2>2. CASE k # g
      <3>1. /\ InUse(k)' = InUse(k) /\ Impl(k)' = Impl(k)
            /\ Waits(k)' = Waits(k)
        BY <1>2, <2>2 DEF InUse, Impl, Waits, Acceptable
      <3>2. Owner'[k] = Owner[k]
        BY <1>2, <2>2 DEF Owner, InUse
      <3> QED
        BY <2>2, <3>1, <3>2, ServiceView, NextView DEF Impl
    <2> QED
      BY <2>1, <2>2
  <1>6. /\ Owner' = [Owner EXCEPT ![g] = NoClient]
        /\ Holding' = [Holding EXCEPT ![g] = NoSock]
        /\ Backlog' = Backlog
    BY <1>5 DEF Owner, Holding, Backlog
  <1>7. Owner[g] # NoClient /\ Backlog[g] = {}
    BY <1>1, <1>3, ServiceView, NoClientAssumption
  <1>8. Accepting!Release(g)
    BY <1>6, <1>7 DEF Accepting!Release
  <1> QED
    BY <1>8 DEF AcceptMove, Accepting!Next

\* A handle cannot be given out: the socket is closed, and waits nowhere.
LEMMA AcceptTurnedAway ==
    ASSUME ~ReuseAddresses, LinkInv, LinkInv', IInv, [Next]_vars,
           \/ \E a \in PicoSockets, type \in SocketTypes : CreateRefused(a, type)
           \/ \E b \in PicoSockets : AcceptRefused(b)
    PROVE  AcceptMove
  <1>0. sockets \in [Handles -> SocketRecord]
    BY DEF IInv, TypeOK, TableTypeOK
  <1>1. ASSUME NEW a \in PicoSockets, SameLinks,
               pico[a].state # "listen", pico'[a].state = "closing",
               \A b \in PicoSockets \ {a} : pico'[b] = pico[b]
        PROVE  AcceptMove
    <2>1. \A d \in PicoSockets : Acceptable(d)' = Acceptable(d) \ {a}
      BY <1>1 DEF Acceptable
    <2> QED
      BY <1>1, <2>1, Leaves
  <1>2. ASSUME NEW a \in PicoSockets, NEW type \in SocketTypes,
               CreateRefused(a, type)
        PROVE  AcceptMove
    <2>1. SameLinks /\ pico[a].state = "free"
      BY <1>2 DEF CreateRefused, Available, Alive, SameLinks
    <2>2. /\ pico'[a].state = "closing"
          /\ \A b \in PicoSockets \ {a} : pico'[b] = pico[b]
      BY <1>2, PicoTyped DEF CreateRefused, PicoOpen, NoPicoSocket
    <2> QED
      BY <1>1, <2>1, <2>2
  <1>3. ASSUME NEW b \in PicoSockets, AcceptRefused(b)
        PROVE  AcceptMove
    <2>1. SameLinks
      BY <1>0, <1>3 DEF AcceptRefused, AcceptedFrom, SocketRecord, SameLinks
    <2>2. /\ pico[b].state = "estab" /\ pico'[b].state = "closing"
          /\ \A d \in PicoSockets \ {b} : pico'[d] = pico[d]
      BY <1>3, PicoTyped DEF AcceptRefused, PicoAccept, PicoRecord, Acceptable
    <2> QED
      BY <1>1, <2>1, <2>2
  <1> QED
    BY <1>2, <1>3

\* connect and listen: nothing has waited at the socket before.
LEMMA AcceptTurned ==
    ASSUME QueueInv, LinkInv, LinkInv', IInv, [Next]_vars, Connect \/ Listen
    PROVE  AcceptMove
  <1>1. /\ rpc.pc = "locked" /\ rpc.op # "create" /\ SameLinks
        /\ \E state \in {"synsent", "listen"} : pico' \in PicoTurn(rpc.impl, state)
    BY DEF Connect, Listen, ConnectOrListen, Locked, SameLinks
  <1>2. PICK a \in PicoSockets : a = rpc.impl
    BY <1>1, OnSocketFacts
  <1>3. CASE pico' = pico
    BY <1>1, <1>3, QuietStays DEF PicoQuiet
  <1>4. CASE pico[a].state = "fresh"
             /\ \E state \in {"synsent", "listen"} :
                    pico' = [pico EXCEPT ![a].state = state]
    <2>1. /\ pico'[a].state \in {"synsent", "listen"}
          /\ \A b \in PicoSockets \ {a} : pico'[b] = pico[b]
      BY <1>4, PicoTyped DEF PicoRecord
    <2>2. \A b \in PicoSockets : pico[b].parent # a
      BY <1>4, NoSockAssumption DEF QueueInv, Parented
    <2>3. \A d \in PicoSockets : Acceptable(d)' = Acceptable(d)
      BY <1>4, <2>1, <2>2 DEF Acceptable
    <2> QED
      BY <1>1, <2>3, Stays
  <1> QED
    BY <1>1, <1>2, <1>3, <1>4 DEF PicoTurn

\* The steps that leave the table alone and at most take data.
LEMMA AcceptQuiet ==
    ASSUME LinkInv, LinkInv', IInv, [Next]_vars,
           \/ CreateFails \/ \E op : PlainCall(op)
           \/ \E op \in {"read", "recvfrom"} : ReadFails(op) \/ ReadEmpty(op)
           \/ \E len \in 1..MaxRx + 1 : ReadSome(len)
           \/ RecvFromSome
           \/ RpcLock \/ ClearLoad \/ VisitQuiet \/ AfterPending
    PROVE  AcceptMove
  <1>1. SameLinks
    BY DEF CreateFails, PlainCall, ReadFails, ReadEmpty, ReadSome, RecvFromSome,
           RpcLock, ClearLoad, VisitQuiet, AfterPending, SameLinks
  <1>2. CASE pico' = pico
    BY <1>1, <1>2, QuietStays DEF PicoQuiet
  <1>3. ASSUME NEW n, rpc.pc = "locked", rpc.op # "create",
               pico' = PicoTake(rpc.impl, n)
        PROVE  AcceptMove
    BY <1>1, <1>3, OnSocketFacts, TakeMove, QuietStays
  <1> QED
    BY <1>2, <1>3
    DEF CreateFails, PlainCall, ReadFails, ReadEmpty, ReadSome, RecvFromSome,
        RpcLock, ClearLoad, VisitQuiet, AfterPending, Locked

\* The steps that write to one entry, but not to its link.
LEMMA AcceptEntries ==
    ASSUME LinkInv, LinkInv', IInv, [Next]_vars,
           AcceptNone \/ ClearStore \/ FreeHandleRest \/ VisitPending
    PROVE  AcceptMove
  <1>0. sockets \in [Handles -> SocketRecord]
    BY DEF IInv, TypeOK, TableTypeOK
  <1>1. pico' = pico
    BY DEF AcceptNone, ClearStore, FreeHandleRest, VisitPending
  <1>2. ASSUME AcceptNone
        PROVE  SameLinks
    BY <1>0, <1>2 DEF AcceptNone, AcceptedFrom, SocketRecord, SameLinks
  <1>3. ASSUME ClearStore \/ VisitPending
        PROVE  SameLinks
    BY <1>0, <1>3 DEF ClearStore, VisitPending, SocketRecord, SameLinks
  <1>4. ASSUME FreeHandleRest
        PROVE  SameLinks
    BY <1>0, <1>4 DEF FreeHandleRest, FreedEntry, SocketRecord, SameLinks
  <1> QED
    BY <1>1, <1>2, <1>3, <1>4, QuietStays DEF PicoQuiet

\* Every step of the system.
LEMMA AcceptStep ==
    ASSUME ~ReuseAddresses, QueueInv, LinkInv, LinkInv', IInv, [Next]_vars
    PROVE  AcceptMove
  <1>1. CASE UNCHANGED vars \/ ClientCall
    <2>1. pico' = pico /\ sockets' = sockets
      BY <1>1
      DEF vars, ClientCall, CallCreate, CallOnSocket, CallCloseAfterFin,
          CallGetPendingEvents
    <2> QED
      BY <2>1, QuietStays DEF PicoQuiet, SameLinks
  <1>2. CASE RpcCritical
    BY <1>2, AcceptQuiet, AcceptTurnedAway, AcceptTurned, AcceptEntries,
       AcceptCreate, AcceptAccept, AcceptClose
    DEF RpcCritical, Bind, Write, SendTo
  <1>3. CASE RpcStep
    BY <1>2, <1>3, AcceptQuiet, AcceptEntries, AcceptFreeHandle DEF RpcStep
  <1> QED
    BY <1>1, <1>3, AcceptControl DEF Next

\* At start nobody holds anything.
LEMMA AcceptInit == Init => Accepting!Init
  <1>1. ZeroSocket.status = "FREE"
    BY DEF ZeroSocket
  <1> QED
    BY <1>1
    DEF Init, TableInit, Accepting!Init, Owner, Holding, Backlog, InUse

\* The socket layer implements the abstract service of connections: a
\* connection that arrives is handed out at most once, to the owner of the
\* listening socket it arrived at, and a handle keeps its connection until it
\* is released, which happens only when nothing waits at it.
THEOREM ImplementsAcceptService ==
    ASSUME ~ReuseAddresses
    PROVE  Spec => AcceptSpec
  <1>1. QueueInv /\ LinkInv /\ LinkInv' /\ IInv /\ [Next]_vars =>
                [Accepting!Next]_<<Owner, Holding, Backlog>>
    BY AcceptStep DEF AcceptMove
  <1> QED
    BY <1>1, AcceptInit, QueueHolds, LinkHolds, Invariant, PTL
    DEF Spec, AcceptSpec, Accepting!Spec, Accepting!vars
=============================================================================
