SPECIFICATION Spec
CONSTANTS
  Callers = {c1, c2}
  Sessions = {s1, s2, s3}
  None = None
  QueueSize = 1
SYMMETRY Symmetry
INVARIANT OneLiveSession
