\* Every archived fix is delivered in the end, in order and no sooner than its backoff.
SPECIFICATION FairSpec
CONSTANTS
  Base = 2
  Digits = 1
  Nodes = {n1}
  Times <- TwoSeconds
  Fixes <- StillFixes
  Movement = 2
  Heartbeat = 2
  None = None
  BatchLimit = 1
  ClockFractions <- WholeClock
  MaxRows = 2
  Horizon = 2
PROPERTIES
  OnlyLateFixesGoBack
  BackoffHonoured
  EventuallyDelivered
