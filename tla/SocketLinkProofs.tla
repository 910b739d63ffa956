-------------------------- MODULE SocketLinkProofs --------------------------
(***************************************************************************)
(* Proofs about the link between the socket table and picoTCP's sockets,   *)
(* for every number of sockets, clients, quotas and pico sockets.  They    *)
(* assume that the heap does not reuse an address that a table entry still *)
(* holds.                                                                  *)
(***************************************************************************)
EXTENDS SocketLayerProofs

-----------------------------------------------------------------------------
(* The inductive invariant.                                                *)

Impl(h) == sockets[h].impl

Ended == {"free", "closing"}
Established == {"estab", "closewait", "closing", "free"}

\* An entry has a pico socket exactly while it is in use.
Linked ==
    \A h \in Handles : IF InUse(h) THEN Impl(h) \in PicoSockets
                                   ELSE Impl(h) = NoSock

\* No two entries share one.
Unshared ==
    \A g, h \in Handles : InUse(g) /\ InUse(h) /\ Impl(g) = Impl(h) => g = h

\* A connection that was not accepted has no handle.
Waiting ==
    \A a \in PicoSockets :
        pico[a].parent # NoSock =>
            pico[a].state \in {"estab", "closing"} /\ NoHandleFound(a)

\* The pointer a call has copied stays the one in the table ...
CallLink == OnSocket => Impl(rpc.h) = rpc.impl

\* ... and its handle is freed only when picoTCP has closed the socket.
FreeLink == rpc.pc = "free" => pico[Impl(rpc.h)].state \in Ended

\* FIN is in the entry's mask, or in what a thread is about to store there.
FinSeen(h) ==
    \/ "FIN" \in sockets[h].eventMask
    \/ rpc.pc = "store" /\ rpc.h = h /\ "FIN" \in rpc.val
    \/ ctl.pc = "event" /\ ctl.h = h /\ "FIN" \in ctl.val \cup ctl.bits

\* The callback is about to say that the connection is established.
EstSeen(h) == ctl.pc = "event" /\ ctl.h = h /\ "CONN_EST" \in ctl.bits

\* FIN means that picoTCP has freed the socket.
FinLink == \A h \in Handles : InUse(h) /\ FinSeen(h) =>
                                 pico[Impl(h)].state = "free"

EstLink == \A h \in Handles : InUse(h) /\ EstSeen(h) =>
                                 pico[Impl(h)].state = "estab"

\* A pico socket that is open is reachable through a handle, or waits in a
\* listening socket to be accepted, or did so when that was closed.
Reached ==
    \A a \in PicoSockets :
        /\ pico[a].state \notin {"free", "closing", "orphan"}
        /\ pico[a].parent = NoSock
        => ~NoHandleFound(a)

LinkInv ==
    /\ Linked
    /\ Unshared
    /\ Waiting
    /\ CallLink
    /\ FreeLink
    /\ FinLink
    /\ EstLink
    /\ ConnectedMeansEstablished
    /\ Reached

-----------------------------------------------------------------------------
(* Steps that neither reserve nor free a handle.                           *)

SameLinks ==
    \A h \in Handles : /\ sockets'[h].status = sockets[h].status
                       /\ sockets'[h].impl = sockets[h].impl

\* What such a step may do to picoTCP's sockets.
PicoMove ==
    \A a \in PicoSockets :
        /\ ~NoHandleFound(a) =>
            /\ pico[a].state = "free" => pico'[a].state = "free"
            /\ pico[a].state \in Ended => pico'[a].state \in Ended
            /\ pico[a].state \in Established => pico'[a].state \in Established
        /\ pico'[a].parent # NoSock =>
            pico'[a].state \in {"estab", "closing"} /\ NoHandleFound(a)
        /\ /\ pico'[a].state \notin {"free", "closing", "orphan"}
           /\ pico'[a].parent = NoSock
           => ~NoHandleFound(a)

\* What it may do to the flags of the entries that are in use.
FlagMove ==
    \A h \in Handles :
        InUse(h) =>
            /\ FinSeen(h)' => FinSeen(h) \/ pico'[Impl(h)].state = "free"
            /\ EstSeen(h)' => pico'[Impl(h)].state = "estab"
            /\ sockets'[h].connected =>
                    \/ sockets[h].connected
                    \/ pico'[Impl(h)].state \in Established

\* And what the RPC thread may go on with.
CallMove ==
    /\ OnSocket' => rpc'.h \in Handles /\ Impl(rpc'.h) = rpc'.impl
    /\ rpc'.pc = "free" => rpc'.h \in Handles /\ pico'[Impl(rpc'.h)].state \in Ended

\* An address in the table has a handle.
LEMMA HandleHeld ==
    ASSUME NEW h \in Handles
    PROVE  ~NoHandleFound(Impl(h))
  BY DEF NoHandleFound, Impl

\* A step with these effects keeps the link.
LEMMA MovesKeep ==
    ASSUME LinkInv, SameLinks, PicoMove, FlagMove, CallMove
    PROVE  LinkInv'
  <1> USE DEF LinkInv
  <1>1. \A h \in Handles : InUse(h)' = InUse(h) /\ Impl(h)' = Impl(h)
    BY DEF SameLinks, InUse, Impl
  <1>2. \A a \in PicoSockets : NoHandleFound(a)' <=> NoHandleFound(a)
    BY <1>1 DEF NoHandleFound, Impl
  <1>3. Linked' /\ Unshared'
    BY <1>1 DEF Linked, Unshared
  <1>4. Waiting' /\ Reached'
    BY <1>2 DEF PicoMove, Waiting, Reached
  <1>5. CallLink' /\ FreeLink'
    BY <1>1 DEF CallMove, CallLink, FreeLink
  <1>6. FinLink' /\ EstLink'
    <2> SUFFICES ASSUME NEW h \in Handles, InUse(h)
                 PROVE  /\ FinSeen(h)' => pico'[Impl(h)].state = "free"
                        /\ EstSeen(h)' => pico'[Impl(h)].state = "estab"
      BY <1>1 DEF FinLink, EstLink
    <2>1. Impl(h) \in PicoSockets /\ ~NoHandleFound(Impl(h))
      BY HandleHeld DEF Linked
    <2>2. FinSeen(h) => pico'[Impl(h)].state = "free"
      BY <2>1 DEF FinLink, PicoMove
    <2> QED
      BY <2>2 DEF FlagMove
  <1>7. ConnectedMeansEstablished'
    <2> SUFFICES ASSUME NEW h \in Handles, InUse(h), sockets'[h].connected
                 PROVE  pico'[Impl(h)].state \in Established
      BY <1>1 DEF ConnectedMeansEstablished, Impl, Established
    <2>1. Impl(h) \in PicoSockets /\ ~NoHandleFound(Impl(h))
      BY HandleHeld DEF Linked
    <2>2. sockets[h].connected => pico[Impl(h)].state \in Established
      BY DEF ConnectedMeansEstablished, Impl, Established
    <2> QED
      BY <2>1, <2>2 DEF FlagMove, PicoMove
  <1> QED
    BY <1>3, <1>4, <1>5, <1>6, <1>7

\* picoTCP may change the data that is queued.
PicoQuiet ==
    \A a \in PicoSockets : /\ pico'[a].state = pico[a].state
                           /\ pico'[a].parent = pico[a].parent

\* A step that leaves states and parents alone is such a move.
LEMMA QuietMove ==
    ASSUME LinkInv, PicoQuiet
    PROVE  PicoMove
  BY DEF LinkInv, PicoQuiet, PicoMove, Waiting, Reached

\* A thread that has no part in it leaves the flags alone.
LEMMA FlagsKept ==
    ASSUME LinkInv, PicoQuiet,
           \A h \in Handles : InUse(h) =>
                /\ FinSeen(h)' => FinSeen(h)
                /\ EstSeen(h)' => EstSeen(h)
                /\ sockets'[h].connected => sockets[h].connected
    PROVE  FlagMove
  <1> SUFFICES ASSUME NEW h \in Handles, InUse(h), EstSeen(h)'
               PROVE  pico'[Impl(h)].state = "estab"
    BY DEF FlagMove
  <1>1. pico[Impl(h)].state = "estab" /\ Impl(h) \in PicoSockets
    BY DEF LinkInv, EstLink, Linked
  <1> QED
    BY <1>1 DEF PicoQuiet

\* A call goes on as before whatever the control thread does to picoTCP.
LEMMA CallKept ==
    ASSUME LinkInv, IInv, PicoMove, rpc' = rpc
    PROVE  CallMove
  <1>1. Holds => rpc.h \in Handles /\ InUse(rpc.h)
    BY DEF IInv, CallInv, SocketsOf, InUse
  <1>2. rpc.pc = "free" => rpc.h \in Handles /\ Impl(rpc.h) \in PicoSockets
    BY <1>1 DEF Holds, LinkInv, Linked
  <1>3. OnSocket' => OnSocket
    BY DEF OnSocket
  <1>4. rpc.pc = "free" => pico'[Impl(rpc.h)].state \in Ended
    BY <1>2, HandleHeld DEF PicoMove, LinkInv, FreeLink
  <1> QED
    BY <1>1, <1>2, <1>3, <1>4 DEF CallMove, LinkInv, CallLink, Holds

-----------------------------------------------------------------------------
(* What picoTCP's functions and events do to the sockets.                  *)

\* What the next lemmas need of the type invariant.
LEMMA PicoTyped ==
    ASSUME IInv
    PROVE  /\ pico \in [PicoSockets -> PicoRecord]
           /\ \A a \in PicoSockets : pico[a].parent \in PicoSockets \cup {NoSock}
  BY DEF IInv, TypeOK, PicoTypeOK, PicoRecord

\* pico_socket_close(), of a socket with or without a handle.
LEMMA CloseMove ==
    ASSUME LinkInv, IInv, NEW a \in PicoSockets, pico' = PicoClose(a)
    PROVE  PicoMove /\ pico'[a].state \in Ended
  <1>1. Waiting /\ Reached
    BY DEF LinkInv
  <1>2. /\ pico'[a].state = IF pico[a].state = "free" THEN "free" ELSE "closing"
        /\ pico'[a].parent = pico[a].parent
    BY PicoTyped DEF PicoClose, PicoRecord
  <1>3. ASSUME NEW b \in PicoSockets, b # a, pico[b].parent = a
        PROVE  /\ pico'[b].parent = NoSock
               /\ pico'[b].state = IF pico[b].state = "estab" THEN "orphan"
                                   ELSE pico[b].state
    BY <1>3, PicoTyped DEF PicoClose, PicoRecord
  <1>4. ASSUME NEW b \in PicoSockets, b # a, pico[b].parent # a
        PROVE  pico'[b] = pico[b]
    BY <1>4 DEF PicoClose
  <1>5. ASSUME NEW b \in PicoSockets, b # a, pico[b].parent = a
        PROVE  NoHandleFound(b) /\ pico[b].state \in {"estab", "closing"}
    BY <1>1, <1>5, NoSockAssumption DEF Waiting
  <1>6. pico[a].parent # NoSock =>
            NoHandleFound(a) /\ pico[a].state \in {"estab", "closing"}
    BY <1>1 DEF Waiting
  <1>7. ASSUME NEW b \in PicoSockets, b # a, pico[b].parent # a
        PROVE  /\ pico[b].parent # NoSock =>
                    pico[b].state \in {"estab", "closing"} /\ NoHandleFound(b)
               /\ /\ pico[b].state \notin {"free", "closing", "orphan"}
                  /\ pico[b].parent = NoSock
                  => ~NoHandleFound(b)
    BY <1>1 DEF Waiting, Reached
  <1> QED
    BY <1>2, <1>3, <1>4, <1>5, <1>6, <1>7 DEF PicoMove, Ended, Established

\* What the proofs need of the events a tick may bring.
LEMMA EventFacts ==
    ASSUME NEW e \in PicoEvents
    PROVE  /\ e.from # "free"
           /\ e.from = "closing" => e.to = "free"
           /\ e.from = "orphan" => e.to \in {"free", "closewait"}
           /\ e.from = "estab" => e.to \in {"estab", "closewait", "free"}
           /\ e.from = "closewait" => e.to = "free"
           /\ "FIN" \in OsEvents(e.mask, e.refused, FALSE) => e.to = "free"
           /\ "CONN_EST" \in OsEvents(e.mask, e.refused, FALSE) =>
                    e.to = "estab"
  BY DEF PicoEvents, AllPicoEvents, PicoEvent, OsEvents

\* An event that is not the peer's close of a connection without a handle.
LEMMA AfterMove ==
    ASSUME LinkInv, IInv, NEW a \in PicoSockets, NEW e \in PicoEvents,
           CanHappen(a, e), pico' = PicoAfter(a, e),
           NoHandleFound(a) => e.to # "closewait"
    PROVE  PicoMove /\ pico'[a].state = e.to
  <1>1. Waiting /\ Reached /\ pico[a].state = e.from
    BY DEF LinkInv, CanHappen
  <1>2. /\ pico'[a].state = e.to
        /\ pico'[a].parent = IF e.to = "free" THEN NoSock ELSE pico[a].parent
        /\ \A b \in PicoSockets \ {a} : pico'[b] = pico[b]
    BY PicoTyped DEF PicoAfter, NoPicoSocket, PicoRecord
  <1>3. ASSUME NEW b \in PicoSockets \ {a}
        PROVE  /\ pico[b].parent # NoSock =>
                    pico[b].state \in {"estab", "closing"} /\ NoHandleFound(b)
               /\ /\ pico[b].state \notin {"free", "closing", "orphan"}
                  /\ pico[b].parent = NoSock
                  => ~NoHandleFound(b)
    BY <1>1 DEF Waiting, Reached
  <1>4. /\ pico'[a].parent # NoSock =>
              pico'[a].state \in {"estab", "closing"} /\ NoHandleFound(a)
        /\ /\ pico'[a].state \notin {"free", "closing", "orphan"}
           /\ pico'[a].parent = NoSock
           => ~NoHandleFound(a)
    BY <1>1, <1>2, EventFacts DEF Waiting, Reached
  <1>5. /\ pico[a].state # "free"
        /\ pico[a].state \in Ended => pico'[a].state \in Ended
        /\ pico[a].state \in Established => pico'[a].state \in Established
    BY <1>1, <1>2, EventFacts DEF Ended, Established
  <1> QED
    BY <1>2, <1>3, <1>4, <1>5 DEF PicoMove

\* A socket at an address without a handle starts as if it had been there.
LEMMA FreshMove ==
    ASSUME LinkInv, IInv, NEW a \in PicoSockets, NoHandleFound(a),
           \A b \in PicoSockets \ {a} : pico'[b] = pico[b],
           \/ pico'[a].state = "closing" /\ pico'[a].parent = NoSock
           \/ pico'[a].state = "estab" /\ pico'[a].parent # NoSock
    PROVE  PicoMove
  <1>1. Waiting /\ Reached
    BY DEF LinkInv
  <1>2. ASSUME NEW b \in PicoSockets \ {a}
        PROVE  /\ pico[b].parent # NoSock =>
                    pico[b].state \in {"estab", "closing"} /\ NoHandleFound(b)
               /\ /\ pico[b].state \notin {"free", "closing", "orphan"}
                  /\ pico[b].parent = NoSock
                  => ~NoHandleFound(b)
    BY <1>1 DEF Waiting, Reached
  <1> QED
    BY <1>2 DEF PicoMove

-----------------------------------------------------------------------------
(* The control thread.                                                     *)

\* A step of the control thread outside the callback.
LEMMA CtlQuiet ==
    ASSUME LinkInv, IInv, UNCHANGED <<pico, sockets, rpc>>,
           ctl' = ctl \/ ctl'.pc # "event"
    PROVE  LinkInv'
  <1>1. SameLinks /\ PicoQuiet
    BY DEF SameLinks, PicoQuiet
  <1>2. FlagMove
    BY <1>1, FlagsKept DEF FinSeen, EstSeen
  <1>3. CallMove
    BY <1>1, QuietMove, CallKept
  <1> QED
    BY <1>1, <1>2, <1>3, QuietMove, MovesKeep

\* The callback has found the entry of a socket, and picoTCP has moved.
LEMMA CallbackKeeps ==
    ASSUME LinkInv, IInv, PicoMove, sockets' = sockets, rpc' = rpc,
           NEW h \in Handles, NEW bits, Callback(h, bits),
           "FIN" \in bits => pico'[Impl(h)].state = "free",
           "CONN_EST" \in bits => pico'[Impl(h)].state = "estab"
    PROVE  LinkInv'
  <1>0. ctl \in CtlRecord
    BY DEF IInv, TypeOK
  <1>1. /\ SameLinks
        /\ ctl'.h = h /\ ctl'.val = sockets[h].eventMask /\ ctl'.bits = bits
    BY <1>0 DEF SameLinks, Callback, CtlRecord
  <1>2. FlagMove
    BY <1>1 DEF FlagMove, FinSeen, EstSeen
  <1> QED
    BY <1>1, <1>2, CallKept, MovesKeep

\* An event of a socket with a handle.
LEMMA EventBeginKeeps ==
    ASSUME LinkInv, IInv, NEW a \in PicoSockets, NEW e \in PicoEvents,
           NEW h \in Handles, EventBegin(a, e, h)
    PROVE  LinkInv'
  <1>1. Impl(h) = a /\ ~NoHandleFound(a)
    BY HandleHeld DEF EventBegin, HandleFound, Impl
  <1>2. PicoMove /\ pico'[a].state = e.to
    BY <1>1, AfterMove DEF EventBegin
  <1> QED
    BY <1>1, <1>2, EventFacts, CallbackKeeps DEF EventBegin

\* An event of a socket without one.
LEMMA EventNoHandleKeeps ==
    ASSUME LinkInv, IInv, NEW a \in PicoSockets, NEW e \in PicoEvents,
           EventNoHandle(a, e)
    PROVE  LinkInv'
  <1>1. PicoMove
    BY CloseMove, AfterMove DEF EventNoHandle
  <1>2. SameLinks
    BY DEF EventNoHandle, SameLinks
  <1>3. FlagMove
    <2>1. ctl'.pc = ctl.pc /\ ctl' = ctl /\ rpc' = rpc /\ sockets' = sockets
          /\ ctl.pc = "tick"
      BY DEF EventNoHandle
    <2> QED
      BY <2>1 DEF FlagMove, FinSeen, EstSeen
  <1>4. CallMove
    BY <1>1, CallKept DEF EventNoHandle
  <1> QED
    BY <1>1, <1>2, <1>3, <1>4, MovesKeep

\* A connection arrives, at an address that no entry holds.
LEMMA EventIncomingKeeps ==
    ASSUME ~ReuseAddresses, LinkInv, IInv, NEW l \in PicoSockets,
           NEW b \in PicoSockets, NEW h \in Handles, EventIncoming(l, b, h)
    PROVE  LinkInv'
  <1>1. NoHandleFound(b)
    BY DEF EventIncoming, Available
  <1>2. /\ \A d \in PicoSockets \ {b} : pico'[d] = pico[d]
        /\ pico'[b].state = "estab" /\ pico'[b].parent = l
    BY PicoTyped DEF EventIncoming, PicoIncoming, NoPicoSocket
  <1>3. PicoMove
    BY <1>1, <1>2, FreshMove, NoSockAssumption
  <1>4. /\ "FIN" \notin OsEvents({"CONN"}, FALSE, TRUE)
        /\ "CONN_EST" \notin OsEvents({"CONN"}, FALSE, TRUE)
    BY DEF OsEvents
  <1> QED
    BY <1>3, <1>4, CallbackKeeps DEF EventIncoming

\* The rest of the callback.
LEMMA EventFinishKeeps ==
    ASSUME LinkInv, IInv, EventFinish
    PROVE  LinkInv'
  <1>0. /\ ctl.h \in Handles
        /\ sockets \in [Handles -> SocketRecord]
    BY DEF IInv, TypeOK, TableTypeOK, CtlInv, EventFinish
  <1>1. /\ ctl.pc = "event" /\ ctl'.pc = "tick" /\ rpc' = rpc /\ pico' = pico
        /\ \A h \in Handles \ {ctl.h} : sockets'[h] = sockets[h]
        /\ sockets'[ctl.h] = WithEvents(ctl.h)
    BY <1>0 DEF EventFinish, IdleCtl
  <1>2. /\ sockets'[ctl.h].status = sockets[ctl.h].status
        /\ sockets'[ctl.h].impl = sockets[ctl.h].impl
        /\ sockets'[ctl.h].eventMask = ctl.val \cup ctl.bits
        /\ sockets'[ctl.h].connected =>
                sockets[ctl.h].connected \/ "CONN_EST" \in ctl.bits
    BY <1>0, <1>1 DEF WithEvents, SocketRecord
  <1>3. SameLinks /\ PicoQuiet
    BY <1>1, <1>2 DEF SameLinks, PicoQuiet
  <1>4. FlagMove
    <2> SUFFICES ASSUME NEW h \in Handles, InUse(h)
                 PROVE  /\ FinSeen(h)' => FinSeen(h)
                        /\ ~EstSeen(h)'
                        /\ sockets'[h].connected =>
                               \/ sockets[h].connected
                               \/ pico'[Impl(h)].state \in Established
      BY DEF FlagMove
    <2>1. FinSeen(h)' => FinSeen(h)
      BY <1>1, <1>2 DEF FinSeen
    <2>2. ~EstSeen(h)'
      BY <1>1 DEF EstSeen
    <2>3. h = ctl.h /\ "CONN_EST" \in ctl.bits =>
                pico'[Impl(h)].state = "estab"
      BY <1>1 DEF LinkInv, EstLink, EstSeen
    <2> QED
      BY <1>1, <1>2, <2>1, <2>2, <2>3 DEF Established
  <1> QED
    BY <1>1, <1>3, <1>4, QuietMove, CallKept, MovesKeep

\* The callback of an entry that has been freed.
LEMMA EventFaultKeeps ==
    ASSUME LinkInv, IInv, EventFault
    PROVE  LinkInv'
  <1>0. /\ ctl.h \in Handles
        /\ sockets \in [Handles -> SocketRecord]
        /\ ~InUse(ctl.h)
    BY NoClientAssumption
    DEF IInv, TypeOK, TableTypeOK, CtlInv, EventFault, OwnerInv
  <1>1. /\ ctl'.pc = "fault" /\ rpc' = rpc /\ pico' = pico
        /\ \A h \in Handles \ {ctl.h} : sockets'[h] = sockets[h]
        /\ sockets'[ctl.h].status = sockets[ctl.h].status
        /\ sockets'[ctl.h].impl = sockets[ctl.h].impl
    BY <1>0 DEF EventFault, IInv, TypeOK, CtlRecord, WithEvents, SocketRecord
  <1>2. SameLinks /\ PicoQuiet
    BY <1>1 DEF SameLinks, PicoQuiet
  <1>3. FlagMove
    BY <1>0, <1>1 DEF FlagMove, FinSeen, EstSeen
  <1> QED
    BY <1>1, <1>2, <1>3, QuietMove, CallKept, MovesKeep

\* Every step of the control thread and of picoTCP.
LEMMA LinkControl ==
    ASSUME ~ReuseAddresses, LinkInv, IInv, TickOrData \/ PicoStep \/ CtlStep
    PROVE  LinkInv'
  <1>0. ctl \in CtlRecord
    BY DEF IInv, TypeOK
  <1>1. CASE TickOrData \/ CtlWait \/ CtlLock \/ TickDone \/ CtlUnlock
    BY <1>0, <1>1, CtlQuiet, IdleFields
    DEF TickOrData, CtlWait, CtlLock, TickDone, CtlUnlock, CtlRecord
  <1>2. CASE NotifyClear
    BY <1>0, <1>2, CtlQuiet DEF NotifyClear, CtlRecord
  <1>3. ASSUME NEW c \in Clients, SkipClient(c) \/ NotifyClient(c)
        PROVE  LinkInv'
    BY <1>0, <1>3, CtlQuiet DEF SkipClient, NotifyClient, CtlRecord
  <1>4. CASE PicoStep
    BY <1>4, EventBeginKeeps, EventNoHandleKeeps, EventIncomingKeeps
    DEF PicoStep
  <1> QED
    BY <1>1, <1>2, <1>3, <1>4, EventFinishKeeps, EventFaultKeeps DEF CtlStep

-----------------------------------------------------------------------------
(* The RPC thread.                                                         *)

\* While it holds the mutex no callback is under way.
LEMMA NoCallback ==
    ASSUME IInv, rpc.pc = "locked"
    PROVE  ctl.pc # "event"
  BY DEF IInv, LockInv

\* Its steps add nothing to the flags.
LEMMA RpcFlags ==
    ASSUME LinkInv, IInv, ctl' = ctl, PicoQuiet \/ rpc.pc = "locked",
           rpc'.pc # "store",
           \A h \in Handles : InUse(h) =>
                /\ "FIN" \in sockets'[h].eventMask => FinSeen(h)
                /\ sockets'[h].connected => sockets[h].connected
    PROVE  FlagMove
  <1>1. \A h \in Handles : InUse(h) =>
            /\ FinSeen(h)' => FinSeen(h)
            /\ EstSeen(h)' => EstSeen(h)
            /\ sockets'[h].connected => sockets[h].connected
    BY DEF FinSeen, EstSeen
  <1>2. CASE PicoQuiet
    BY <1>1, <1>2, FlagsKept
  <1>3. CASE rpc.pc = "locked"
    BY <1>1, <1>3, NoCallback DEF FlagMove, EstSeen
  <1> QED
    BY <1>2, <1>3

\* A step that changes no entry and goes on with nothing of its own.
LEMMA RpcPlain ==
    ASSUME LinkInv, IInv, PicoMove, sockets' = sockets, ctl' = ctl,
           PicoQuiet \/ rpc.pc = "locked",
           rpc'.pc \in {"idle", "clear", "visit", "advance"}
    PROVE  LinkInv'
  <1>1. SameLinks
    BY DEF SameLinks
  <1>2. FlagMove
    BY RpcFlags DEF FinSeen
  <1>3. CallMove
    BY DEF CallMove, OnSocket
  <1> QED
    BY <1>1, <1>2, <1>3, MovesKeep

\* A step that changes entries, but neither their pico sockets nor FIN.
LEMMA RpcEntries ==
    ASSUME LinkInv, IInv, PicoMove, ctl' = ctl,
           PicoQuiet \/ rpc.pc = "locked",
           rpc'.pc \in {"idle", "advance"},
           \A h \in Handles :
                /\ sockets'[h].status = sockets[h].status
                /\ sockets'[h].impl = sockets[h].impl
                /\ InUse(h) =>
                    /\ sockets'[h].connected = sockets[h].connected
                    /\ "FIN" \in sockets'[h].eventMask => FinSeen(h)
    PROVE  LinkInv'
  <1>1. SameLinks
    BY DEF SameLinks
  <1>2. FlagMove
    BY RpcFlags
  <1>3. CallMove
    BY DEF CallMove, OnSocket
  <1> QED
    BY <1>1, <1>2, <1>3, MovesKeep

\* A call starts.
LEMMA LinkClientCall ==
    ASSUME LinkInv, IInv, ClientCall
    PROVE  LinkInv'
  <1>1. /\ rpc'.pc \in {"lock", "free", "visit"}
        /\ UNCHANGED <<pico, ctl, sockets>>
    BY CallStarts DEF ClientCall, CallCreate, CallOnSocket, CallCloseAfterFin,
                      CallGetPendingEvents
  <1>2. SameLinks /\ PicoQuiet
    BY <1>1 DEF SameLinks, PicoQuiet
  <1>3. FlagMove
    BY <1>1, <1>2, RpcFlags DEF FinSeen
  <1>4. ASSUME NEW c \in Clients, CallCreate(c)
        PROVE  CallMove
    BY <1>4 DEF CallCreate, IdleRpc, CallMove, OnSocket
  <1>5. ASSUME NEW c \in Clients, NEW h \in Handles, NEW op \in SocketOps,
               CallOnSocket(c, op, h)
        PROVE  CallMove
    BY <1>5 DEF CallOnSocket, IdleRpc, CallMove, OnSocket, Impl
  <1>6. ASSUME NEW c \in Clients, NEW h \in Handles, CallCloseAfterFin(c, h)
        PROVE  CallMove
    <2>1. /\ "FIN" \in sockets[h].eventMask /\ sockets[h].clientId = c
          /\ rpc'.pc = "free" /\ rpc'.h = h
      BY <1>6 DEF CallCloseAfterFin, Admits, IdleRpc
    <2>2. InUse(h)
      <3>1. CASE rpc.pc = "freeing"
        BY <1>6, <3>1 DEF CallCloseAfterFin
      <3>2. CASE rpc.pc # "freeing"
        BY <2>1, <3>2, NoClientAssumption DEF IInv, OwnerInv, Freeing
      <3> QED
        BY <3>1, <3>2
    <2>3. pico[Impl(h)].state = "free" /\ Impl(h) \in PicoSockets
      BY <2>1, <2>2 DEF LinkInv, Linked, FinLink, FinSeen
    <2> QED
      BY <1>2, <2>1, <2>3 DEF CallMove, OnSocket, Ended, PicoQuiet
  <1>7. ASSUME NEW c \in Clients, NEW max \in 1..NumSockets,
               CallGetPendingEvents(c, max)
        PROVE  CallMove
    BY <1>7 DEF CallGetPendingEvents, IdleRpc, CallMove, OnSocket
  <1>8. CallMove
    BY <1>4, <1>5, <1>6, <1>7 DEF ClientCall
  <1> QED
    BY <1>2, <1>3, <1>8, QuietMove, MovesKeep

\* create or accept puts a pico socket that has no handle into a free entry.
LEMMA ReserveKeeps ==
    ASSUME LinkInv, IInv, NEW a \in PicoSockets, NEW h \in Handles,
           rpc.pc = "locked", rpc' = IdleRpc, ctl' = ctl,
           ~InUse(h), NoHandleFound(a),
           sockets'[h].status = "IN_USE", sockets'[h].impl = a,
           "FIN" \notin sockets'[h].eventMask,
           sockets'[h].connected => pico'[a].state = "estab",
           \A g \in Handles \ {h} :
                /\ sockets'[g].status = sockets[g].status
                /\ sockets'[g].impl = sockets[g].impl
                /\ sockets'[g].connected = sockets[g].connected
                /\ sockets'[g].eventMask \subseteq sockets[g].eventMask,
           \A b \in PicoSockets \ {a} : pico'[b] = pico[b],
           pico'[a].parent = NoSock
    PROVE  LinkInv'
  <1>0. /\ Linked /\ Unshared /\ Waiting /\ FinLink
        /\ ConnectedMeansEstablished /\ Reached
        /\ ctl'.pc # "event" /\ rpc'.pc = "idle"
    BY NoCallback, IdleFields DEF LinkInv
  <1>1. /\ InUse(h)' /\ Impl(h)' = a
        /\ \A g \in Handles \ {h} : /\ InUse(g)' = InUse(g)
                                    /\ Impl(g)' = Impl(g)
                                    /\ Impl(g) # a
    BY DEF InUse, Impl, NoHandleFound
  <1>2. Linked' /\ Unshared'
    BY <1>0, <1>1 DEF Linked, Unshared
  <1>3. /\ ~NoHandleFound(a)'
        /\ \A b \in PicoSockets \ {a} : NoHandleFound(b)' <=> NoHandleFound(b)
    <2>1. Impl(h) = NoSock
      BY <1>0 DEF Linked
    <2> QED
      BY <1>1, <2>1, NoSockAssumption DEF NoHandleFound, Impl
  <1>4. Waiting' /\ Reached'
    BY <1>0, <1>3 DEF Waiting, Reached
  <1>5. CallLink' /\ FreeLink'
    BY <1>0 DEF CallLink, FreeLink, OnSocket
  <1>6. FinLink' /\ EstLink'
    <2>1. \A g \in Handles : ~EstSeen(g)'
      BY <1>0 DEF EstSeen
    <2>2. ~FinSeen(h)'
      BY <1>0 DEF FinSeen
    <2>3. ASSUME NEW g \in Handles \ {h}, InUse(g), FinSeen(g)'
          PROVE  pico'[Impl(g)].state = "free"
      <3>1. FinSeen(g)
        BY <1>0, <2>3 DEF FinSeen
      <3>2. Impl(g) \in PicoSockets \ {a} /\ pico[Impl(g)].state = "free"
        BY <1>0, <1>1, <2>3, <3>1 DEF Linked, FinLink
      <3> QED
        BY <3>2
    <2> QED
      BY <1>1, <2>1, <2>2, <2>3 DEF FinLink, EstLink
  <1>7. ConnectedMeansEstablished'
    <2>1. ASSUME NEW g \in Handles \ {h}, InUse(g), sockets[g].connected
          PROVE  pico'[Impl(g)].state \in Established
      <3>1. Impl(g) \in PicoSockets \ {a} /\ pico[Impl(g)].state \in Established
        BY <1>0, <1>1, <2>1
        DEF Linked, ConnectedMeansEstablished, Impl, Established
      <3> QED
        BY <3>1
    <2> QED
      BY <1>1, <2>1 DEF ConnectedMeansEstablished, Impl, Established
  <1> QED
    BY <1>2, <1>4, <1>5, <1>6, <1>7 DEF LinkInv

\* free_handle takes the pico socket out of the entry.
LEMMA FreeHandleKeeps ==
    ASSUME LinkInv, IInv, FreeHandle
    PROVE  LinkInv'
  <1>0. /\ Linked /\ Unshared /\ Waiting /\ FreeLink /\ FinLink /\ EstLink
        /\ ConnectedMeansEstablished /\ Reached
    BY DEF LinkInv
  <1>a. PICK h \in Handles : h = rpc.h
    BY FreeHandleEffect DEF SocketsOf
  <1>1. sockets \in [Handles -> SocketRecord]
    BY DEF IInv, TypeOK, TableTypeOK
  <1>2. /\ sockets'[h].status = "FREE" /\ sockets'[h].impl = NoSock
        /\ \A g \in Handles \ {h} : sockets'[g] = sockets[g]
        /\ pico' = pico /\ ctl' = ctl
        /\ rpc.pc = "free" /\ rpc'.pc = "freeing"
    BY <1>a, <1>1, FreeHandleEffect DEF FreeHandle, HalfFreedEntry, SocketRecord
  <1>3. /\ ~InUse(h)' /\ Impl(h)' = NoSock
        /\ \A g \in Handles \ {h} : /\ InUse(g)' = InUse(g)
                                        /\ Impl(g)' = Impl(g)
    BY <1>2 DEF InUse, Impl
  <1>4. Linked' /\ Unshared'
    BY <1>0, <1>3 DEF Linked, Unshared
  <1>5. \A a \in PicoSockets :
            /\ NoHandleFound(a) => NoHandleFound(a)'
            /\ a # Impl(h) => (NoHandleFound(a)' <=> NoHandleFound(a))
    BY <1>3, NoSockAssumption DEF NoHandleFound, Impl
  <1>6. Waiting'
    BY <1>0, <1>2, <1>5 DEF Waiting
  <1>7. Reached'
    BY <1>a, <1>0, <1>2, <1>5 DEF Reached, FreeLink, Ended
  <1>8. CallLink' /\ FreeLink'
    BY <1>2 DEF CallLink, FreeLink, OnSocket
  <1>9. FinLink' /\ EstLink'
    <2> SUFFICES ASSUME NEW g \in Handles, InUse(g)'
                 PROVE  /\ FinSeen(g)' => pico'[Impl(g)'].state = "free"
                        /\ EstSeen(g)' => pico'[Impl(g)'].state = "estab"
      BY DEF FinLink, EstLink
    <2>1. g # h /\ InUse(g) /\ Impl(g)' = Impl(g) /\ sockets'[g] = sockets[g]
      BY <1>2, <1>3
    <2>2. (FinSeen(g)' => FinSeen(g)) /\ (EstSeen(g)' => EstSeen(g))
      BY <1>2, <2>1 DEF FinSeen, EstSeen
    <2> QED
      BY <1>0, <1>2, <2>1, <2>2 DEF FinLink, EstLink
  <1>10. ConnectedMeansEstablished'
    BY <1>0, <1>2, <1>3 DEF ConnectedMeansEstablished, InUse
  <1> QED
    BY <1>4, <1>6, <1>7, <1>8, <1>9, <1>10 DEF LinkInv

\* What a call on a socket knows inside its critical section.
LEMMA OnSocketFacts ==
    ASSUME LinkInv, IInv, rpc.pc = "locked", rpc.op # "create"
    PROVE  /\ rpc.h \in Handles /\ InUse(rpc.h)
           /\ rpc.impl \in PicoSockets /\ Impl(rpc.h) = rpc.impl
           /\ ~NoHandleFound(rpc.impl)
           /\ sockets[rpc.h].clientId \in Clients
  <1>1. OnSocket /\ Holds
    BY DEF OnSocket, Holds
  <1> QED
    BY <1>1, HandleHeld
    DEF LinkInv, CallLink, IInv, CallInv, OwnerInv, SocketsOf, InUse

\* close clears CLOSE, and picoTCP has the socket closing when it goes on.
LEMMA CloseKeeps ==
    ASSUME LinkInv, IInv, Close
    PROVE  LinkInv'
  <1>0. /\ sockets \in [Handles -> SocketRecord]
        /\ rpc \in RpcRecord
        /\ rpc.pc = "locked" /\ rpc.op # "create"
    BY DEF IInv, TypeOK, TableTypeOK, Close, Locked
  <1>1. /\ rpc.h \in Handles /\ rpc.impl \in PicoSockets
        /\ Impl(rpc.h) = rpc.impl
    BY <1>0, OnSocketFacts
  <1>2. PicoMove /\ pico'[rpc.impl].state \in Ended
    BY <1>1, CloseMove DEF Close
  <1>3. \A h \in Handles :
            /\ sockets'[h].status = sockets[h].status
            /\ sockets'[h].impl = sockets[h].impl
            /\ sockets'[h].connected = sockets[h].connected
            /\ sockets'[h].eventMask \subseteq sockets[h].eventMask
    BY <1>0 DEF Close, SocketRecord
  <1>4. rpc'.pc = "free" /\ rpc'.h = rpc.h /\ ctl' = ctl
    BY <1>0 DEF Close, Unlock, RpcRecord
  <1>5. SameLinks
    BY <1>3 DEF SameLinks
  <1>6. FlagMove
    BY <1>0, <1>3, <1>4, RpcFlags DEF FinSeen
  <1>7. CallMove
    BY <1>1, <1>2, <1>4 DEF CallMove, OnSocket
  <1> QED
    BY <1>2, <1>5, <1>6, <1>7, MovesKeep

\* connect and listen turn a fresh socket only.
LEMMA ConnectOrListenKeeps ==
    ASSUME LinkInv, IInv, NEW op \in {"connect", "listen"},
           NEW state \in {"synsent", "listen"}, ConnectOrListen(op, state)
    PROVE  LinkInv'
  <1>0. /\ rpc.pc = "locked" /\ rpc.op # "create"
        /\ pico' \in PicoTurn(rpc.impl, state)
        /\ sockets' = sockets /\ ctl' = ctl /\ rpc'.pc = "idle"
    BY IdleFields DEF ConnectOrListen, Locked, Unlock
  <1>1. rpc.impl \in PicoSockets /\ ~NoHandleFound(rpc.impl)
    BY <1>0, OnSocketFacts
  <1>2. CASE pico' = pico
    BY <1>0, <1>2, QuietMove, RpcPlain DEF PicoQuiet
  <1>3. CASE pico' # pico
    <2>1. pico[rpc.impl].state = "fresh"
          /\ pico' = [pico EXCEPT ![rpc.impl].state = state]
      BY <1>0, <1>3 DEF PicoTurn
    <2>2. /\ pico'[rpc.impl].state = state
          /\ pico'[rpc.impl].parent = pico[rpc.impl].parent
          /\ \A b \in PicoSockets \ {rpc.impl} : pico'[b] = pico[b]
      BY <1>1, <2>1, PicoTyped DEF PicoRecord
    <2>3. Waiting /\ Reached
      BY DEF LinkInv
    <2>4. pico[rpc.impl].parent = NoSock
      BY <1>1, <2>1, <2>3 DEF Waiting
    <2>5. ASSUME NEW b \in PicoSockets \ {rpc.impl}
          PROVE  /\ pico[b].parent # NoSock =>
                      pico[b].state \in {"estab", "closing"} /\ NoHandleFound(b)
                 /\ /\ pico[b].state \notin {"free", "closing", "orphan"}
                    /\ pico[b].parent = NoSock
                    => ~NoHandleFound(b)
      BY <2>3 DEF Waiting, Reached
    <2>6. PicoMove
      BY <1>1, <2>1, <2>2, <2>4, <2>5 DEF PicoMove, Ended, Established
    <2> QED
      BY <1>0, <2>6, RpcPlain
  <1> QED
    BY <1>2, <1>3

\* create puts its new socket into the table, or closes it.
LEMMA CreateKeeps ==
    ASSUME ~ReuseAddresses, LinkInv, IInv, NEW a \in PicoSockets,
           NEW h \in Handles, NEW type, Create(a, h, type)
    PROVE  LinkInv'
  <1>0. /\ sockets \in [Handles -> SocketRecord]
        /\ rpc.pc = "locked" /\ rpc' = IdleRpc /\ ctl' = ctl
        /\ NoHandleFound(a)
        /\ sockets[h].status = "FREE"
    BY DEF IInv, TypeOK, TableTypeOK, Create, Locked, Unlock, Available,
           Reservable
  <1>1. ~InUse(h) /\ sockets[h].eventMask = {}
    <2>1. ~Freeing(h) /\ ctl.pc # "fault"
      BY <1>0 DEF Freeing, IInv, LockInv
    <2> QED
      BY <1>0, <2>1 DEF IInv, CleanInv, InUse
  <1>2. /\ sockets'[h].status = "IN_USE" /\ sockets'[h].impl = a
        /\ sockets'[h].eventMask = {} /\ sockets'[h].connected = FALSE
        /\ \A g \in Handles \ {h} : sockets'[g] = sockets[g]
    BY <1>0, <1>1 DEF Create, ReservedEntry, SocketRecord
  <1>3. /\ \A b \in PicoSockets \ {a} : pico'[b] = pico[b]
        /\ pico'[a].parent = NoSock
    BY PicoTyped DEF Create, PicoOpen, NoPicoSocket
  <1> QED
    BY <1>0, <1>1, <1>2, <1>3, ReserveKeeps

\* create without a free handle.
LEMMA CreateRefusedKeeps ==
    ASSUME ~ReuseAddresses, LinkInv, IInv, NEW a \in PicoSockets, NEW type,
           CreateRefused(a, type)
    PROVE  LinkInv'
  <1>1. /\ rpc.pc = "locked" /\ rpc'.pc = "idle" /\ ctl' = ctl
        /\ sockets' = sockets
        /\ NoHandleFound(a)
    BY IdleFields DEF CreateRefused, Locked, Unlock, Available
  <1>2. /\ \A b \in PicoSockets \ {a} : pico'[b] = pico[b]
        /\ pico'[a].state = "closing" /\ pico'[a].parent = NoSock
    BY PicoTyped DEF CreateRefused, PicoOpen, NoPicoSocket
  <1> QED
    BY <1>1, <1>2, FreshMove, RpcPlain

\* The listening socket's entry keeps its links.
LEMMA AcceptedFromLinks ==
    ASSUME IInv, NEW h \in Handles
    PROVE  /\ AcceptedFrom(h).status = sockets[h].status
           /\ AcceptedFrom(h).impl = sockets[h].impl
           /\ AcceptedFrom(h).connected = sockets[h].connected
           /\ AcceptedFrom(h).eventMask \subseteq sockets[h].eventMask
  BY DEF AcceptedFrom, IInv, TypeOK, TableTypeOK, SocketRecord

\* accept without a connection.
LEMMA AcceptNoneKeeps ==
    ASSUME LinkInv, IInv, AcceptNone
    PROVE  LinkInv'
  <1>0. /\ sockets \in [Handles -> SocketRecord]
        /\ rpc.pc = "locked" /\ rpc.op # "create"
        /\ rpc'.pc = "idle" /\ ctl' = ctl /\ pico' = pico
        /\ sockets' = [sockets EXCEPT ![rpc.h] = AcceptedFrom(rpc.h)]
    BY IdleFields DEF IInv, TypeOK, TableTypeOK, AcceptNone, Locked, Unlock
  <1>1. rpc.h \in Handles
    BY <1>0, OnSocketFacts
  <1>2. PicoMove
    BY <1>0, QuietMove DEF PicoQuiet
  <1>3. ASSUME NEW h \in Handles
        PROVE  /\ sockets'[h].status = sockets[h].status
               /\ sockets'[h].impl = sockets[h].impl
               /\ sockets'[h].connected = sockets[h].connected
               /\ "FIN" \in sockets'[h].eventMask => FinSeen(h)
    BY <1>0, <1>1, AcceptedFromLinks DEF FinSeen
  <1> QED
    BY <1>0, <1>2, <1>3, RpcEntries

\* accept of a connection puts it into the table, or closes it.
LEMMA AcceptKeeps ==
    ASSUME LinkInv, IInv, NEW b \in PicoSockets, NEW h \in Handles,
           Accept(b, h)
    PROVE  LinkInv'
  <1>0. /\ sockets \in [Handles -> SocketRecord]
        /\ rpc.pc = "locked" /\ rpc.op # "create"
        /\ rpc' = IdleRpc /\ ctl' = ctl
        /\ pico[b].state = "estab" /\ pico[b].parent = rpc.impl
        /\ sockets[h].status = "FREE"
    BY DEF IInv, TypeOK, TableTypeOK, Accept, Locked, Unlock, Acceptable,
           Reservable
  <1>1. /\ rpc.h \in Handles /\ InUse(rpc.h) /\ rpc.impl \in PicoSockets
        /\ ~InUse(h)
    BY <1>0, OnSocketFacts DEF InUse
  <1>2. sockets[h].eventMask = {}
    <2>1. ~Freeing(h) /\ ctl.pc # "fault"
      BY <1>0 DEF Freeing, IInv, LockInv
    <2> QED
      BY <1>1, <2>1 DEF IInv, CleanInv
  <1>3. NoHandleFound(b)
    BY <1>0, <1>1, NoSockAssumption DEF LinkInv, Waiting
  <1>4. /\ sockets'[h].status = "IN_USE" /\ sockets'[h].impl = b
        /\ sockets'[h].eventMask = {}
    BY <1>0, <1>1, <1>2 DEF Accept, ReservedEntry, SocketRecord
  <1>5. ASSUME NEW g \in Handles \ {h}
        PROVE  /\ sockets'[g].status = sockets[g].status
               /\ sockets'[g].impl = sockets[g].impl
               /\ sockets'[g].connected = sockets[g].connected
               /\ sockets'[g].eventMask \subseteq sockets[g].eventMask
    <2>1. sockets'[g] = IF g = rpc.h THEN AcceptedFrom(g) ELSE sockets[g]
      BY <1>0, <1>1 DEF Accept
    <2> QED
      BY <2>1, AcceptedFromLinks
  <1>6. /\ \A d \in PicoSockets \ {b} : pico'[d] = pico[d]
        /\ pico'[b].parent = NoSock /\ pico'[b].state = "estab"
    BY <1>0, PicoTyped DEF Accept, PicoAccept, PicoRecord
  <1> QED
    BY <1>0, <1>1, <1>3, <1>4, <1>5, <1>6, ReserveKeeps

\* accept of a connection without a free handle.
LEMMA AcceptRefusedKeeps ==
    ASSUME LinkInv, IInv, NEW b \in PicoSockets, AcceptRefused(b)
    PROVE  LinkInv'
  <1>0. /\ sockets \in [Handles -> SocketRecord]
        /\ rpc.pc = "locked" /\ rpc.op # "create"
        /\ rpc'.pc = "idle" /\ ctl' = ctl
        /\ pico[b].state = "estab" /\ pico[b].parent = rpc.impl
        /\ sockets' = [sockets EXCEPT ![rpc.h] = AcceptedFrom(rpc.h)]
    BY IdleFields
    DEF IInv, TypeOK, TableTypeOK, AcceptRefused, Locked, Unlock, Acceptable
  <1>1. rpc.h \in Handles /\ rpc.impl \in PicoSockets
    BY <1>0, OnSocketFacts
  <1>2. NoHandleFound(b)
    BY <1>0, <1>1, NoSockAssumption DEF LinkInv, Waiting
  <1>3. /\ \A d \in PicoSockets \ {b} : pico'[d] = pico[d]
        /\ pico'[b].parent = NoSock /\ pico'[b].state = "closing"
    BY PicoTyped DEF AcceptRefused, PicoAccept, PicoRecord
  <1>4. PicoMove
    BY <1>2, <1>3, FreshMove
  <1>5. ASSUME NEW h \in Handles
        PROVE  /\ sockets'[h].status = sockets[h].status
               /\ sockets'[h].impl = sockets[h].impl
               /\ sockets'[h].connected = sockets[h].connected
               /\ "FIN" \in sockets'[h].eventMask => FinSeen(h)
    BY <1>0, <1>1, AcceptedFromLinks DEF FinSeen
  <1> QED
    BY <1>0, <1>4, <1>5, RpcEntries

\* read and recvfrom.
LEMMA TakeMove ==
    ASSUME IInv, NEW a \in PicoSockets, NEW n, pico' = PicoTake(a, n)
    PROVE  PicoQuiet
  BY PicoTyped DEF PicoTake, PicoQuiet, PicoRecord

\* Whatever they return, only queued data changes.
LEMMA ReadKeeps ==
    ASSUME LinkInv, IInv,
           \/ \E op \in {"read", "recvfrom"} : ReadFails(op) \/ ReadEmpty(op)
           \/ \E len \in 1..MaxRx + 1 : ReadSome(len)
           \/ RecvFromSome
    PROVE  LinkInv'
  <1>0. rpc \in RpcRecord
    BY DEF IInv, TypeOK
  <1>1. /\ rpc.pc = "locked" /\ rpc.op # "create"
        /\ sockets' = sockets /\ ctl' = ctl
    BY DEF ReadFails, ReadEmpty, ReadSome, RecvFromSome, Locked, Unlock
  <1>2. \A notify : ThenClear(notify).pc = "clear"
    BY <1>0 DEF ThenClear, RpcRecord
  <1>3. rpc'.pc \in {"idle", "clear"}
    BY <1>2, IdleFields
    DEF ReadFails, ReadEmpty, ReadSome, RecvFromSome, Unlock
  <1>4. pico' = pico \/ \E n : pico' = PicoTake(rpc.impl, n)
    BY DEF ReadFails, ReadEmpty, ReadSome, RecvFromSome
  <1>5. PicoQuiet
    BY <1>1, <1>4, OnSocketFacts, TakeMove DEF PicoQuiet
  <1> QED
    BY <1>1, <1>3, <1>5, QuietMove, RpcPlain

\* The first and the last steps of a call.
LEMMA RpcLockKeeps ==
    ASSUME LinkInv, IInv, RpcLock
    PROVE  LinkInv'
  <1>0. rpc \in RpcRecord
    BY DEF IInv, TypeOK
  <1>1. /\ UNCHANGED <<pico, sockets, ctl>>
        /\ rpc.pc = "lock" /\ rpc'.pc = "locked"
        /\ rpc'.op = rpc.op /\ rpc'.h = rpc.h /\ rpc'.impl = rpc.impl
    BY <1>0 DEF RpcLock, RpcRecord
  <1>2. SameLinks /\ PicoQuiet
    BY <1>1 DEF SameLinks, PicoQuiet
  <1>3. FlagMove
    BY <1>1, <1>2, RpcFlags DEF FinSeen
  <1>4. CallMove
    <2>1. OnSocket' => OnSocket
      BY <1>1 DEF OnSocket
    <2>2. OnSocket => rpc.h \in Handles /\ Impl(rpc.h) = rpc.impl
      BY DEF IInv, CallInv, Holds, SocketsOf, LinkInv, CallLink
    <2> QED
      BY <1>1, <2>1, <2>2 DEF CallMove
  <1> QED
    BY <1>2, <1>3, <1>4, QuietMove, MovesKeep

\* The event mask is loaded: FIN, if it is there, with it.
LEMMA ClearLoadKeeps ==
    ASSUME LinkInv, IInv, ClearLoad
    PROVE  LinkInv'
  <1>0. rpc \in RpcRecord
    BY DEF IInv, TypeOK
  <1>1. /\ UNCHANGED <<pico, sockets, ctl>>
        /\ rpc'.pc = "store" /\ rpc'.h = rpc.h
        /\ rpc'.val = sockets[rpc.h].eventMask
    BY <1>0 DEF ClearLoad, RpcRecord
  <1>2. SameLinks /\ PicoQuiet
    BY <1>1 DEF SameLinks, PicoQuiet
  <1>3. \A h \in Handles : /\ FinSeen(h)' => FinSeen(h)
                           /\ EstSeen(h)' => EstSeen(h)
                           /\ sockets'[h].connected => sockets[h].connected
    BY <1>1 DEF FinSeen, EstSeen
  <1>4. FlagMove
    BY <1>2, <1>3, FlagsKept
  <1>5. CallMove
    BY <1>1 DEF CallMove, OnSocket
  <1> QED
    BY <1>2, <1>4, <1>5, QuietMove, MovesKeep

\* The event mask is stored: FIN only if it was loaded.
LEMMA ClearStoreKeeps ==
    ASSUME LinkInv, IInv, ClearStore
    PROVE  LinkInv'
  <1>0. sockets \in [Handles -> SocketRecord]
    BY DEF IInv, TypeOK, TableTypeOK
  <1>1. /\ pico' = pico /\ ctl' = ctl
        /\ rpc.pc = "store" /\ rpc'.pc = "idle"
        /\ sockets' = [sockets EXCEPT ![rpc.h].eventMask = rpc.val \ {"READ"}]
    BY IdleFields DEF ClearStore
  <1>2. ASSUME NEW h \in Handles
        PROVE  /\ sockets'[h].status = sockets[h].status
               /\ sockets'[h].impl = sockets[h].impl
               /\ sockets'[h].connected = sockets[h].connected
               /\ "FIN" \in sockets'[h].eventMask => FinSeen(h)
    BY <1>0, <1>1 DEF SocketRecord, FinSeen
  <1>3. PicoQuiet
    BY <1>1 DEF PicoQuiet
  <1> QED
    BY <1>1, <1>2, <1>3, QuietMove, RpcEntries

\* The second half of free_handle.
LEMMA FreeHandleRestKeeps ==
    ASSUME LinkInv, IInv, FreeHandleRest
    PROVE  LinkInv'
  <1>0. sockets \in [Handles -> SocketRecord]
    BY DEF IInv, TypeOK, TableTypeOK
  <1>1. /\ sockets' = [sockets EXCEPT ![rpc.h] = FreedEntry(rpc.h)]
        /\ ~InUse(rpc.h) /\ sockets[rpc.h].status = "FREE"
        /\ pico' = pico /\ ctl' = ctl /\ rpc'.pc = "idle"
    BY FreeHandleRestEffect, IdleFields DEF FreeHandleRest, InUse
  <1>2. ASSUME NEW h \in Handles
        PROVE  /\ sockets'[h].status = sockets[h].status
               /\ sockets'[h].impl = sockets[h].impl
               /\ InUse(h) =>
                    /\ sockets'[h].connected = sockets[h].connected
                    /\ "FIN" \in sockets'[h].eventMask => FinSeen(h)
    BY <1>0, <1>1 DEF FreedEntry, SocketRecord, FinSeen
  <1>3. PicoQuiet
    BY <1>1 DEF PicoQuiet
  <1> QED
    BY <1>1, <1>2, <1>3, QuietMove, RpcEntries

\* getPendingEvents.
LEMMA VisitKeeps ==
    ASSUME LinkInv, IInv, VisitQuiet \/ VisitPending \/ AfterPending
    PROVE  LinkInv'
  <1>0. /\ sockets \in [Handles -> SocketRecord]
        /\ rpc \in RpcRecord
    BY DEF IInv, TypeOK, TableTypeOK
  <1>1. pico' = pico /\ ctl' = ctl
    BY DEF VisitQuiet, VisitPending, AfterPending
  <1>2. PicoQuiet
    BY <1>1 DEF PicoQuiet
  <1>3. CASE VisitPending
    <2>1. rpc'.pc = "advance"
      BY <1>0, <1>3 DEF VisitPending, RpcRecord
    <2>2. ASSUME NEW h \in Handles
          PROVE  /\ sockets'[h].status = sockets[h].status
                 /\ sockets'[h].impl = sockets[h].impl
                 /\ sockets'[h].connected = sockets[h].connected
                 /\ "FIN" \in sockets'[h].eventMask => FinSeen(h)
      BY <1>0, <1>3 DEF VisitPending, SocketRecord, FinSeen
    <2> QED
      BY <1>1, <1>2, <2>1, <2>2, QuietMove, RpcEntries
  <1>4. CASE VisitQuiet \/ AfterPending
    <2>1. rpc'.pc \in {"idle", "visit"} /\ sockets' = sockets
      BY <1>0, <1>4, IdleFields DEF VisitQuiet, AfterPending, Advance, RpcRecord
    <2> QED
      BY <1>1, <1>2, <2>1, QuietMove, RpcPlain
  <1> QED
    BY <1>3, <1>4

\* Every step of the RPC thread.
LEMMA LinkRpcStep ==
    ASSUME ~ReuseAddresses, LinkInv, IInv, RpcStep
    PROVE  LinkInv'
  <1>1. ASSUME CreateFails \/ \E op : PlainCall(op)
        PROVE  LinkInv'
    <2>1. /\ UNCHANGED <<pico, sockets, ctl>>
          /\ rpc.pc = "locked" /\ rpc'.pc = "idle"
      BY <1>1, IdleFields DEF CreateFails, PlainCall, Locked, Unlock
    <2>2. PicoMove
      BY <2>1, QuietMove DEF PicoQuiet
    <2> QED
      BY <2>1, <2>2, RpcPlain
  <1>2. CASE RpcCritical
    <2>1. ASSUME NEW a \in PicoSockets, NEW type,
                 CreateRefused(a, type) \/ \E h \in Handles : Create(a, h, type)
          PROVE  LinkInv'
      BY <2>1, CreateKeeps, CreateRefusedKeeps
    <2>2. CASE Connect \/ Listen
      BY <2>2, ConnectOrListenKeeps DEF Connect, Listen
    <2>3. ASSUME NEW b \in PicoSockets,
                 AcceptRefused(b) \/ \E h \in Handles : Accept(b, h)
          PROVE  LinkInv'
      BY <2>3, AcceptKeeps, AcceptRefusedKeeps
    <2> QED
      BY <1>1, <1>2, <2>1, <2>2, <2>3, CloseKeeps, AcceptNoneKeeps, ReadKeeps
      DEF RpcCritical, Bind, Write, SendTo
  <1> QED
    BY <1>2, RpcLockKeeps, ClearLoadKeeps, ClearStoreKeeps, FreeHandleKeeps,
       FreeHandleRestKeeps, VisitKeeps
    DEF RpcStep

-----------------------------------------------------------------------------
(* The theorems.                                                           *)

\* At start no entry is in use and no pico socket is open.
LEMMA LinkInit == Init => LinkInv
  <1> SUFFICES ASSUME Init
               PROVE  LinkInv
    OBVIOUS
  <1>1. /\ \A h \in Handles : ~InUse(h) /\ Impl(h) = NoSock
        /\ \A a \in PicoSockets : /\ pico[a].state = "free"
                                  /\ pico[a].parent = NoSock
        /\ rpc.pc = "idle"
    BY IdleFields
    DEF Init, TableInit, ZeroSocket, PicoInit, NoPicoSocket, InUse, Impl
  <1>2. Linked /\ Unshared /\ Waiting
    BY <1>1 DEF Linked, Unshared, Waiting
  <1>3. CallLink /\ FreeLink /\ FinLink /\ EstLink
    BY <1>1 DEF CallLink, FreeLink, FinLink, EstLink, OnSocket
  <1>4. ConnectedMeansEstablished /\ Reached
    BY <1>1 DEF ConnectedMeansEstablished, Reached
  <1> QED
    BY <1>2, <1>3, <1>4 DEF LinkInv

\* Every step keeps the link.
LEMMA LinkStep ==
    ASSUME ~ReuseAddresses, LinkInv, IInv, [Next]_vars
    PROVE  LinkInv'
  <1>1. CASE UNCHANGED vars
    BY <1>1
    DEF vars, LinkInv, Linked, Unshared, Waiting, CallLink, FreeLink, FinLink,
        EstLink, FinSeen, EstSeen, OnSocket, ConnectedMeansEstablished,
        Reached, InUse, Impl, NoHandleFound
  <1> QED
    BY <1>1, LinkClientCall, LinkRpcStep, LinkControl DEF Next

\* The table and picoTCP agree about every socket, whatever the two threads
\* and the network do in between (entry and pico socket belong together until
\* free_handle; FIN only after picoTCP has freed the socket).
THEOREM LinkHolds ==
    ASSUME ~ReuseAddresses
    PROVE  Spec => []LinkInv
  <1>1. LinkInv /\ IInv /\ [Next]_vars => LinkInv'
    BY LinkStep
  <1> QED
    BY <1>1, LinkInit, Invariant, PTL DEF Spec

\* read and write pass CHECK_SOCKET_CONNECTED only on a connection that was
\* established, or has been since.
THEOREM ConnectedMeansEstablishedHolds ==
    ASSUME ~ReuseAddresses
    PROVE  Spec => []ConnectedMeansEstablished
  <1>1. LinkInv => ConnectedMeansEstablished
    BY DEF LinkInv
  <1> QED
    BY <1>1, LinkHolds, PTL

\* The comment that there is no handle for a connection that was not accepted
\* fails in the code when malloc() returns an address that a table entry still
\* holds.  Where it does not, the comment is right.
THEOREM UnacceptedHasNoHandleWithoutReuse ==
    ASSUME ~ReuseAddresses
    PROVE  Spec => []UnacceptedHasNoHandle
  <1>1. LinkInv => UnacceptedHasNoHandle
    BY DEF LinkInv, Waiting, UnacceptedHasNoHandle
  <1> QED
    BY <1>1, LinkHolds, PTL
=============================================================================
