\* Finding: after a change of the group the old track is updated.
SPECIFICATION Spec
CONSTANTS
  Nodes = {n1}
  Groups = {g1, g2}
  TrackIds = {t1, t2, t3, t4}
  NoTrack = NoTrack
  LateRequests = FALSE
INVARIANTS
  OwnGroup
