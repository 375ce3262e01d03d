---------------------- MODULE MCSessionController ----------------------
(* Two HTTP threads and two session ids: two callers are what it takes  *)
(* for finishes to overlap, two sessions for one to be mistaken for     *)
(* another.                                                             *)
EXTENDS SessionController, TLC

Symmetry == Permutations(Callers) \cup Permutations(Sessions)

\* The safety properties say nothing of the states after two finishes of one
\* session overlapped, and overlapped never becomes FALSE again.
Serial == ~overlapped
=============================================================================
