SPECIFICATION Spec
CONSTANTS
  Callers = {c1, c2}
  Sessions = {s1, s2}
  None = None
  QueueSize = 1
SYMMETRY Symmetry
CONSTRAINT Serial
INVARIANTS
  LiveIsCurrent
  FiledUnderOwner
  NothingAfterFinal
  HubOutlivesRuntimes
PROPERTY TakesTurns
