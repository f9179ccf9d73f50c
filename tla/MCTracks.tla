------------------------------ MODULE MCTracks ------------------------------
(***************************************************************************)
(* Instances of Tracks for TLC.                                            *)
(***************************************************************************)
EXTENDS Tracks, TLC

\* Feature ids are only compared.
IdSymmetry == Permutations(TrackIds)

NodeAndIdSymmetry == Permutations(TrackIds) \cup Permutations(Nodes)
=============================================================================
