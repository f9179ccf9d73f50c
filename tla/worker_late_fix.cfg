\* Finding: a fix that arrives late moves the live track back in time.
SPECIFICATION SmoothSpec
CONSTANTS
  Base = 2
  Digits = 1
  Nodes = {n1}
  Times <- ThreeSeconds
  Fixes <- TwoPlaces
  Movement = 2
  Heartbeat = 3
  None = None
  BatchLimit = 1
  ClockFractions <- WholeClock
  MaxRows = 3
  Horizon = 0
PROPERTIES
  TrackNeverGoesBack
