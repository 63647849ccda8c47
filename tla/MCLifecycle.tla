----------------------------- MODULE MCLifecycle -----------------------------
(***************************************************************************)
(* A small instance of Lifecycle for TLC: one other node that listens,     *)
(* known by its address and by a name, and connections from either side.   *)
(***************************************************************************)
EXTENDS Lifecycle

CONSTANTS host, localhost

MCResolve == [n \in Name |-> host]
=============================================================================
