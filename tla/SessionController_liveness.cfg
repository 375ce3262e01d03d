SPECIFICATION FairSpec
CONSTANTS
  Callers = {c1, c2}
  Sessions = {s1}
  None = None
  QueueSize = 1
PROPERTY FinishReturns
