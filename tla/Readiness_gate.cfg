SPECIFICATION FairSpec
CONSTANTS
  Cameras = {c1}
  WarmupEnabled = TRUE
  AllowDegraded = FALSE
  MaxCalls = 1
  Required <- MCRequired
  Watched <- MCWatched
  Bounds <- MCBounds
CHECK_DEADLOCK FALSE
INVARIANTS Admission RefusalJustified StoppedStays
PROPERTIES Recovers StopReturns
