SPECIFICATION Spec
CONSTANTS
  Cameras = {c1, c2}
  Objects = {tool}
  Wrists = {left, right}
  Zones = {bench, bin}
  WorkZones = {bench}
  None = None
  Configurations <- MCConfigurations
  Confidences = {1, 2, 3}
  MinConfidence = 2
  HoldFrames = 2
  FreeFrames = 2
  MinPath = 1
  DwellFrames = 2
SYMMETRY Symmetry
INVARIANTS Debounced ToolInHand
PROPERTIES OperatedOnce ActionsAlternate
