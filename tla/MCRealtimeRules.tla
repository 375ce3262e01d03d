------------------------- MODULE MCRealtimeRules -------------------------
(* A root step with a deadline, a second step with every kind of bound    *)
(* and a business rule, and beside it an optional third step by the same  *)
(* action, so that one event can suit two steps.                          *)
EXTENDS RealtimeRules

Plain == [action |-> "PICK", zone |-> None, predecessors |-> {},
          required |-> TRUE, minConfidence |-> 1, minDuration |-> None,
          maxDuration |-> None, minDelay |-> None, maxDelay |-> None,
          rule |-> None]

MCSteps ==
  <<[Plain EXCEPT !.maxDelay = 1],
    [Plain EXCEPT !.action = "PLACE", !.predecessors = {1}, !.zone = "bin",
                  !.rule = "bin", !.minDelay = 1, !.maxDelay = 2,
                  !.minDuration = 1],
    [Plain EXCEPT !.action = "PLACE", !.predecessors = {1},
                  !.required = FALSE, !.minConfidence = 0, !.maxDuration = 1]>>

Kind(action, zone, confidence) ==
  [action |-> action, zone |-> zone, confidence |-> confidence]
\* What decides a verdict, in all combinations that differ.
MCKinds == {Kind("PICK", "bin", 1), Kind("PICK", "bin", 0),
            Kind("PLACE", "bin", 1), Kind("PLACE", "table", 1),
            Kind("PLACE", "table", 0)}
=============================================================================
