SPECIFICATION Spec
CONSTANTS
  Steps <- MCSteps
  None = None
  Actions = {"PICK", "PLACE"}
  Zones = {"bin", "table"}
  Confidences = {0, 1}
  Kinds <- MCKinds
  Incidents = {q}
  Horizon = 4
  MaxEvents = 2
CHECK_DEADLOCK FALSE
INVARIANTS TypeOK SoundResult DeltasComplete
PROPERTY VerdictsKept
