\* Node infos, positions with and without a time and a callsign: failures and crashes.
SPECIFICATION Spec
CONSTANTS
  Base = 2
  Digits = 1
  n1 = n1
  alpha = alpha
  bravo = bravo
  Nodes = {n1}
  Locs = {0, 1}
  Names = {alpha, bravo}
  Blank = Blank
  Fallback = Fallback
  NoUser = NoUser
  NoTime = NoTime
  Users <- NamedUsers
  Options <- OnOrOff
  Reports <- SomeReports
  ClockFractions <- WholeClock
  MaxMessages = 3
  Horizon = 1
INVARIANTS
  TypeOK
  EachPacketOnce
  EachFixKept
  ArchivedAtOnce
  OnePositionPerTimedReport
  CallsignsRight
PROPERTIES
  MapNeverGoesBack
  FeedsTheOutbox
