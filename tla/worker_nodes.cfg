\* Two nodes share a batch while CalTopo fails and ingest goes on.
SPECIFICATION Spec
CONSTANTS
  Base = 2
  Digits = 1
  Nodes = {n1, n2}
  Times <- TwoSeconds
  Fixes <- StillFixes
  Movement = 2
  Heartbeat = 2
  None = None
  BatchLimit = 2
  ClockFractions <- WholeClock
  MaxRows = 3
  Horizon = 2
SYMMETRY NodeSymmetry
INVARIANTS
  IInv
  BatchFresh
