\* Finding: fractions of a second break the per-node order.
SPECIFICATION Spec
CONSTANTS
  Base = 2
  Digits = 1
  Nodes = {n1}
  Times <- HalfSeconds
  Fixes <- HalfSecondFixes
  Movement = 2
  Heartbeat = 2
  None = None
  BatchLimit = 1
  ClockFractions <- HalfClock
  MaxRows = 2
  Horizon = 0
INVARIANTS
  InOrder
