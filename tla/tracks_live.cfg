\* Creating, losing and restoring live tracks; a deleted one comes back.
SPECIFICATION FairSpec
CONSTANTS
  Nodes = {n1}
  Groups = {g1}
  TrackIds = {t1, t2, t3}
  NoTrack = NoTrack
  LateRequests = FALSE
INVARIANTS
  TypeOK
  OneTrackPerDevice
PROPERTIES
  TrackRestored
