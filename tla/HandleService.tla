--------------------------- MODULE HandleService ---------------------------
(***************************************************************************)
(* What the socket table promises its clients, without threads, locks or   *)
(* picoTCP: a handle belongs to nobody or to exactly one client, a client  *)
(* is given a handle that belongs to nobody and only while it is below its *)
(* quota, and a handle returns to nobody when its own client gives it up.  *)
(* A handle never passes from one client to another directly.              *)
(***************************************************************************)
EXTENDS Integers, FiniteSets

CONSTANTS Clients, Handles, Quota, Nobody

VARIABLE owner

OwnedBy(c) == {h \in Handles : owner[h] = c}

Init == owner = [h \in Handles |-> Nobody]

Acquire(c, h) ==
    /\ owner[h] = Nobody
    /\ Cardinality(OwnedBy(c)) < Quota[c]
    /\ owner' = [owner EXCEPT ![h] = c]

Release(c, h) ==
    /\ owner[h] = c
    /\ owner' = [owner EXCEPT ![h] = Nobody]

Next == \E c \in Clients, h \in Handles : Acquire(c, h) \/ Release(c, h)

Spec == Init /\ [][Next]_owner
=============================================================================
