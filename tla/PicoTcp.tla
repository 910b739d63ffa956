------------------------------ MODULE PicoTcp ------------------------------
(***************************************************************************)
(* picoTCP as the adaptation layer uses it.  The library is a git          *)
(* submodule, so everything here is EXTERNAL: it is derived from the calls *)
(* made in src/network_stack_pico.c and from what the comments there say   *)
(* of the library.                                                         *)
(*                                                                         *)
(* A pico socket is identified by its ADDRESS, because a pointer is all    *)
(* the adaptation layer keeps.  The heap may hand an address out again     *)
(* once the socket that lived there has been freed.                        *)
(*                                                                         *)
(* States of an address:                                                   *)
(*   free     no socket lives here                                         *)
(*   dgram    a UDP socket                                                 *)
(*   fresh    a TCP socket on which connect / listen was not called yet    *)
(*   listen, synsent, estab   as in TCP                                    *)
(*   orphan      established, but its listening socket was closed before   *)
(*               it was accepted                                           *)
(*   closewait   the peer has closed, the local side has not               *)
(*   closing     the local side has closed, the socket is being shut down  *)
(***************************************************************************)
EXTENDS Integers, FiniteSets

CONSTANTS
    PicoSockets,   \* the addresses the heap hands out for pico sockets
    NoSock,        \* the NULL pointer
    NetEvents,     \* the names of the protocol events that occur in a run
    MaxRx          \* bound: data units queued in one pico socket

ASSUME NoSockAssumption == NoSock \notin PicoSockets
ASSUME MaxRxAssumption == MaxRx \in Nat \ {0}

VARIABLE pico      \* what lives at each address

PicoStates == {"free", "dgram", "fresh", "listen", "synsent", "estab",
               "orphan", "closewait", "closing"}

PicoRecord == [state  : PicoStates,
               parent : PicoSockets \cup {NoSock},
               rx     : 0..MaxRx]

PicoTypeOK == pico \in [PicoSockets -> PicoRecord]

NoPicoSocket == [state |-> "free", parent |-> NoSock, rx |-> 0]

PicoInit == pico = [a \in PicoSockets |-> NoPicoSocket]

Alive(a) == pico[a].state # "free"

-----------------------------------------------------------------------------
(* Calls of the socket API.  Each returns the next value of "pico".        *)

\* pico_socket_open() at address a; type as in the OS socket API.
PicoOpen(a, type) ==
    [pico EXCEPT ![a] = [NoPicoSocket EXCEPT
        !.state = IF type = "STREAM" THEN "fresh" ELSE "dgram"]]

\* pico_socket_close(): starts the shutdown.  It is taken to fail only on a
\* socket that picoTCP has freed, on which it then changes nothing.  The
\* connections that wait at a listening socket lose it, and stay open.
PicoClose(a) ==
    [b \in PicoSockets |->
        IF b = a
        THEN [pico[a] EXCEPT !.state = IF @ = "free" THEN @ ELSE "closing"]
        ELSE IF pico[b].parent = a
        THEN [pico[b] EXCEPT !.parent = NoSock,
                             !.state  = IF @ = "estab" THEN "orphan" ELSE @]
        ELSE pico[b]]

\* pico_socket_connect() and pico_socket_listen() may fail for any reason
\* (no route, port in use, memory); only a fresh socket can succeed.
PicoTurn(a, state) ==
    {pico} \cup (IF pico[a].state = "fresh"
                 THEN {[pico EXCEPT ![a].state = state]} ELSE {})

\* The connections pico_socket_accept(l) can return: established, and not
\* accepted yet.  Without one it returns NULL with PICO_ERR_EAGAIN.
Acceptable(l) ==
    {b \in PicoSockets : /\ pico[l].state = "listen"
                         /\ pico[b].state = "estab"
                         /\ pico[b].parent = l}

PicoAccept(b) == [pico EXCEPT ![b].parent = NoSock]

\* pico_socket_read() / pico_socket_recvfrom() remove n data units.
PicoTake(a, n) == [pico EXCEPT ![a].rx = @ - n]

-----------------------------------------------------------------------------
(* What the network and the timers do to one socket during a tick, and the *)
(* event mask with which the wakeup callback is then called.  refused says *)
(* that pico_err is PICO_ERR_ECONNREFUSED during the callback.             *)

PicoEvent(name, from, to, mask, refused) ==
    [name |-> name, from |-> from, to |-> to, mask |-> mask,
     refused |-> refused]

AllPicoEvents ==
    { PicoEvent("established", "synsent",   "estab",     {"CONN", "WR"}, FALSE),
      PicoEvent("refused",     "synsent",   "free",      {"ERR"},        TRUE),
      PicoEvent("data",        "estab",     "estab",     {"RD"},         FALSE),
      PicoEvent("datagram",    "dgram",     "dgram",     {"RD"},         FALSE),
      PicoEvent("writable",    "estab",     "estab",     {"WR"},         FALSE),
      PicoEvent("error",       "estab",     "estab",     {"ERR"},        FALSE),
      PicoEvent("peerclose",   "estab",     "closewait", {"CLOSE"},      FALSE),
      PicoEvent("peerclose",   "orphan",    "closewait", {"CLOSE"},      FALSE),
      PicoEvent("reset",       "estab",     "free",      {"FIN"},        FALSE),
      PicoEvent("reset",       "orphan",    "free",      {"FIN"},        FALSE),
      PicoEvent("resetwait",   "closewait", "free",      {"FIN"},        FALSE),
      PicoEvent("shutdown",    "closing",   "free",      {"FIN"},        FALSE) }

PicoEvents == {e \in AllPicoEvents : e.name \in NetEvents}

\* The event e happens to the socket at address a.  Data that arrives is
\* queued; a full queue drops it (no event).
CanHappen(a, e) ==
    /\ pico[a].state = e.from
    /\ "RD" \in e.mask => pico[a].rx < MaxRx

PicoAfter(a, e) ==
    IF e.to = "free"
    THEN [pico EXCEPT ![a] = NoPicoSocket]
    ELSE [pico EXCEPT ![a].state = e.to,
                      ![a].rx = IF "RD" \in e.mask THEN @ + 1 ELSE @]

\* A peer completes the handshake with the listening socket l: the new
\* connection lives at b, and the callback is called for l.  (The comment in
\* the callback speaks of a SYN.  pico_socket_accept() can return a connection
\* only when its handshake is over, and the callback is taken to come then.)
PicoIncoming(l, b) ==
    [pico EXCEPT ![b] = [NoPicoSocket EXCEPT !.state = "estab", !.parent = l]]
=============================================================================
