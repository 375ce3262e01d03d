SPECIFICATION Spec
CONSTANTS
  front = front
  side = side
  Cameras <- MCCameras
  Reference = front
  None = None
  Sources = {"arrival", "pts", "reference"}
  Tolerance = 1
  BufferSize = 2
  StoreSize = 2
  QueueSize = 2
  Horizon = 3
  MaxMedia = 2
  MaxRaises = 1
CHECK_DEADLOCK FALSE
INVARIANTS NeverStale NoneUncounted
PROPERTIES CamerasAdvance AnalysedInOrder
