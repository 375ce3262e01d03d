----------------------------- MODULE MCActions -----------------------------
(* Two cameras that may disagree on one tool and two hands.  Its class is  *)
(* one both recognizers of zones are told of, or it is inspected only, as  *)
(* everything is where zone changes are left off.                          *)
EXTENDS Actions, TLC

MCConfigurations ==
  {[zone |-> Objects, inspect |-> Objects], [zone |-> {}, inspect |-> Objects]}
Symmetry == Permutations(Cameras) \cup Permutations(Wrists)
=============================================================================
