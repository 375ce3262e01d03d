SPECIFICATION Spec
CONSTANTS
  Sessions = {s1}
  Reviewers = {r1}
  Passes = {p1, p2}
  None = None
  Actions = {a}
  Violations = {v}
  Incident = incident
  Recovery = recovery
  Decisions = {d1, d2}
  ForeignKeys = TRUE
  TornWrites = TRUE
  MaxFaults = 1
SYMMETRY Symmetry
INVARIANTS
  ReadyIsTruthful
PROPERTY NothingUndone
