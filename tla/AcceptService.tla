--------------------------- MODULE AcceptService ---------------------------
(***************************************************************************)
(* What the socket API promises about connections, without threads, locks, *)
(* events or TCP states.  A handle holds one connection from the moment it *)
(* is given out until it is released.  A connection that arrives at a      *)
(* handle waits there, and nowhere else; it is accepted at most once, by   *)
(* the owner of the handle at which it waits, and the handle that is given *)
(* out for it belongs to that owner.  It may end, and closing the handle   *)
(* it waits at drops it; a handle is released only when nothing waits.     *)
(***************************************************************************)
CONSTANTS Clients, Handles, Connections, Nobody, NoConnection

VARIABLES
    owner,      \* the client each handle belongs to
    held,       \* the connection it holds
    waiting     \* the connections that wait at it

vars == <<owner, held, waiting>>

Init ==
    /\ owner = [h \in Handles |-> Nobody]
    /\ held = [h \in Handles |-> NoConnection]
    /\ waiting = [h \in Handles |-> {}]

\* Nobody holds b, and it waits nowhere.
New(b) == \A h \in Handles : held[h] # b /\ b \notin waiting[h]

Open(c, h, b) ==
    /\ owner[h] = Nobody
    /\ New(b)
    /\ owner' = [owner EXCEPT ![h] = c]
    /\ held' = [held EXCEPT ![h] = b]
    /\ UNCHANGED waiting

Arrive(h, b) ==
    /\ owner[h] # Nobody
    /\ New(b)
    /\ waiting' = [waiting EXCEPT ![h] = @ \cup {b}]
    /\ UNCHANGED <<owner, held>>

Leave(h, b) ==
    /\ b \in waiting[h]
    /\ waiting' = [waiting EXCEPT ![h] = @ \ {b}]
    /\ UNCHANGED <<owner, held>>

Accept(g, h, b) ==
    /\ b \in waiting[g]
    /\ owner[h] = Nobody
    /\ owner' = [owner EXCEPT ![h] = owner[g]]
    /\ held' = [held EXCEPT ![h] = b]
    /\ waiting' = [waiting EXCEPT ![g] = @ \ {b}]

Drop(h) ==
    /\ waiting' = [waiting EXCEPT ![h] = {}]
    /\ UNCHANGED <<owner, held>>

Release(h) ==
    /\ owner[h] # Nobody
    /\ waiting[h] = {}
    /\ owner' = [owner EXCEPT ![h] = Nobody]
    /\ held' = [held EXCEPT ![h] = NoConnection]
    /\ UNCHANGED waiting

Next ==
    \E h \in Handles :
        \/ Drop(h) \/ Release(h)
        \/ \E b \in Connections :
            \/ Arrive(h, b) \/ Leave(h, b)
            \/ \E c \in Clients : Open(c, h, b)
            \/ \E g \in Handles : Accept(g, h, b)

Spec == Init /\ [][Next]_vars
=============================================================================
