SPECIFICATION FairSpec
CONSTANTS
  Sessions = {s1}
  Reviewers = {r1}
  Passes = {p1}
  None = None
  Actions = {a}
  Violations = {v}
  Incident = incident
  Recovery = recovery
  Decisions = {d1}
  ForeignKeys = TRUE
  TornWrites = FALSE
  MaxFaults = 2
PROPERTY Repairable
