---------------------------- MODULE MCLifecycle ----------------------------
(***************************************************************************)
(* Small instances of the component's life cycle.                          *)
(***************************************************************************)
EXTENDS LifecycleProps, TLC

\* Up to three clients with badges in and around the range.
AllBadgeLists == UNION {[1..n -> 100..103] : n \in 0..3}
=============================================================================
