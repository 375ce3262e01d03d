SPECIFICATION FairSpec
CONSTANTS
  Keys = {k1, k2}
  Null = Null
  Tickets = {t1, t2}
  Calls = {a1, a2}
  Pushes = {p1}
  Archive = {s1, s2}
  Views = {v1, v2}
  Cap = 1
  Bounds <- MCBounds
CHECK_DEADLOCK FALSE
INVARIANTS ConsoleTypeOK RowsDistinct LatestPosition
PROPERTIES CatchesUp StreamReturns
