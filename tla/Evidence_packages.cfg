SPECIFICATION Spec
SYMMETRY Symmetry
CHECK_DEADLOCK FALSE
CONSTANTS
  Violations = {v1, v2}
  Decisions = {d1, d2}
  None = None
  QueueSize = 1
  MaxPending = 1
  PreRoll = 1
  PostRoll = 1
  Margin = 0
  MaxArtifacts = 1
  Gap = 2
  Horizon = 3
  MaxFaults = 1
INVARIANTS NothingLost WindowKept ReviewSticks
PROPERTIES UnreviewedKept PackageKept
