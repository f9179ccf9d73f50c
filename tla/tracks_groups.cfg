\* The group changes between restarts, and requests are carried out late.
SPECIFICATION Spec
CONSTANTS
  Nodes = {n1, n2}
  Groups = {g1, g2}
  TrackIds = {t1, t2, t3}
  NoTrack = NoTrack
  LateRequests = TRUE
SYMMETRY NodeAndIdSymmetry
INVARIANTS
  NoMixUp
  MappingsDistinct
  MappedBeforeUse
