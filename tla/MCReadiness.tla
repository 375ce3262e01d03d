---------------------------- MODULE MCReadiness ----------------------------
(* The policy asks for everything it can; one camera is enough, since its  *)
(* thread waits for no other.  Two changes: a camera goes down and comes   *)
(* back, a store fails and works again, or both change once.  One use of   *)
(* a store by somebody else is enough: its status is set by the first that *)
(* fails, and the gate can only find it still so or set again.             *)
EXTENDS Readiness

MCRequired == Optional
MCWatched == {"cameras", "audit-health", "persistence-health"}
MCBounds == {[cameras |-> 2, stores |-> 0, uses |-> 0],
             [cameras |-> 0, stores |-> 2, uses |-> 1],
             [cameras |-> 1, stores |-> 1, uses |-> 0]}
=============================================================================
