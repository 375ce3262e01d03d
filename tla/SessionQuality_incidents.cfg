SPECIFICATION Spec
CONSTANTS
  front = front
  side = side
  Cameras <- MCCameras
  None = None
  Sources <- MCSources
  Configurations <- MCConfigurations
  CameraGrace = 2
  SourceGrace = 1
  MaxStaleness = 1
  Interval = 1
  MissPercent = 30
  MaxErrors = 0
  MaxAge = 4
  MaxIncidents = 2
  MaxCount = 2
  MaxFaults = 1
SYMMETRY Symmetry
CHECK_DEADLOCK FALSE
INVARIANT OutageReported
PROPERTIES
  OneIncidentPerOutage
  PastForgiven
