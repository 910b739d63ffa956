--------------------------- MODULE MCSocketLayer ---------------------------
(***************************************************************************)
(* Small instances of the socket layer.                                    *)
(***************************************************************************)
EXTENDS SocketProps, TLC

CONSTANTS c1, c2

QuotaOne == [c \in Clients |-> 1]
QuotaTwo == [c \in Clients |-> 2]

\* The quotas of two clients differ, so that the table, and not a quota, may
\* be what runs out.
QuotaMixed == (c1 :> 1) @@ (c2 :> 2)

AddressSymmetry == Permutations(PicoSockets)
=============================================================================
