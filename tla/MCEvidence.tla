----------------------------- MODULE MCEvidence -----------------------------
EXTENDS Evidence, TLC

\* Violations are alike, and so are the two decisions.
Symmetry == Permutations(Violations) \cup Permutations(Decisions)
=============================================================================
