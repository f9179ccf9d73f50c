\* One node, four fixes: the filter, wake-ups, failures of the store, crashes.
SPECIFICATION Spec
CONSTANTS
  Base = 2
  Digits = 1
  Nodes = {n1}
  Times <- TwoSeconds
  Fixes <- FourPlaces
  Movement = 40
  Heartbeat = 1
  None = None
  BatchLimit = 1
  ClockFractions <- WholeClock
  MaxRows = 4
  Horizon = 0
INVARIANTS
  SuppressionCovered
  FilterKnowsTheMap
  NoLostWake
  RetriesSampleOnce
PROPERTIES
  MovementConfirmed
  KeepsPromise
