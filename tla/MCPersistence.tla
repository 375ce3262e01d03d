-------------------------- MODULE MCPersistence --------------------------
(* One action and one violation per session are enough to tell apart a    *)
(* fact final.json repeats from one it does not, and a fact that can be   *)
(* reviewed from one that cannot.                                         *)
EXTENDS Persistence, TLC

Symmetry == Permutations(Sessions) \cup Permutations(Reviewers)
              \cup Permutations(Passes) \cup Permutations(Decisions)
=============================================================================
