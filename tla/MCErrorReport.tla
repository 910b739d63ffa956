--------------------------- MODULE MCErrorReport ---------------------------
(***************************************************************************)
(* Small instances of the error reporting.                                 *)
(***************************************************************************)
EXTENDS ErrorReport, TLC

\* One error of each kind: none, one that ends the socket, one with a
\* translation, one without.
FewErrors == {"NOERR", "ECONNREFUSED", "EAGAIN", "EPERM"}

Symmetry == Permutations(Sockets)
=============================================================================
