----------------------------- MODULE TracksProofs -----------------------------
(***************************************************************************)
(* Proofs about Tracks, for any nodes, groups and feature ids.             *)
(***************************************************************************)
EXTENDS Tracks, TLAPS

-----------------------------------------------------------------------------
(* Types.                                                                  *)

\* The adapter, its table and CalTopo's copy of the map keep their types.
THEOREM TypeCorrect == Spec => []TypeOK
<1>1. Init => TypeOK
  BY DEF Init, TypeOK, Stages
<1>2. TypeOK /\ [Next]_vars => TypeOK'
  <2> SUFFICES ASSUME TypeOK, [Next]_vars PROVE TypeOK'
    OBVIOUS
  <2> USE DEF TypeOK, Stages, Devices, LiveTracks, Device, database, caltopo, client, call
  <2>1. ASSUME NEW n \in Nodes, Publish(n) PROVE TypeOK'
    BY <2>1 DEF Publish
  <2>2. CASE OpenMap \/ LookUp
    BY <2>2 DEF OpenMap, LookUp
  <2>3. CASE ListTracks
    <3>1. track' \in live \cup {track}
      BY <2>3 DEF ListTracks
    <3>2. pc' = "save" => track' \in live
      BY <2>3 DEF ListTracks
    <3>3. track' \in LiveTracks \cup {NoTrack} /\ (pc' = "save" => track' # NoTrack)
      BY <3>1, <3>2, TracksAssumption
    <3> QED
      BY <2>3, <3>3 DEF ListTracks
  <2>4. CASE AddApplied
    <3>1. PICK id \in TrackIds :
            /\ track' = [device |-> Device(node), id |-> id]
            /\ live' = live \cup {track'}
            /\ issued' = issued \cup {id}
      BY <2>4 DEF AddApplied, Created
    <3>2. track' \in LiveTracks /\ track' # NoTrack
      BY <3>1, TracksAssumption
    <3> QED
      BY <2>4, <3>1, <3>2 DEF AddApplied
  <2>5. CASE AddAcknowledged
    BY <2>5 DEF AddAcknowledged
  <2>6. CASE SaveTrack
    BY <2>6 DEF SaveTrack
  <2>7. CASE UpdateNotFound
    BY <2>7 DEF UpdateNotFound
  <2>8. CASE UpdateApplied
    BY <2>8 DEF UpdateApplied, Feature
  <2>0. Device(node) \in Devices
    OBVIOUS
  <2>9. CASE UpdateAcknowledged \/ CallFails
    <3>1. inFlight' \subseteq Devices
      BY <2>0, <2>9 DEF UpdateAcknowledged, CallFails
    <3> QED
      BY <2>9, <3>1 DEF UpdateAcknowledged, CallFails
  <2>10. CASE AddAppliedLate
    <3>1. PICK d \in inFlight, id \in TrackIds :
            /\ live' = live \cup {[device |-> d, id |-> id]}
            /\ issued' = issued \cup {id}
      BY <2>10 DEF AddAppliedLate, Created
    <3>2. [device |-> d, id |-> id] \in LiveTracks
      BY <3>1
    <3> QED
      BY <2>10, <3>1, <3>2 DEF AddAppliedLate
  <2>11. CASE DeleteTrack \/ ClientSyncs
    BY <2>11 DEF DeleteTrack, ClientSyncs
  <2>12. CASE Restart
    <3>1. inFlight' \subseteq Devices
      BY <2>0, <2>12 DEF Restart
    <3>2. known' \subseteq LiveTracks
      BY <2>12 DEF Restart
    <3> QED
      BY <2>12, <3>1, <3>2 DEF Restart
  <2>13. CASE UNCHANGED vars
    BY <2>13 DEF vars
  <2> QED
    BY <2>1, <2>2, <2>3, <2>4, <2>5, <2>6, <2>7, <2>8, <2>9, <2>10, <2>11, <2>12, <2>13
    DEF Next
<1> QED
  BY <1>1, <1>2, PTL DEF Spec

-----------------------------------------------------------------------------
(* Features and mappings.                                                  *)

\* A feature the map or the client's copy of it shows.
Shown == live \cup known

\* An id names one feature for good, and the mapped ones are among the ids.
IdsNameFeatures ==
  /\ \A f \in Shown : f.id \in issued
  /\ \A f, g \in Shown : f.id = g.id => f = g
  /\ \A n \in Nodes : tracks[n] # NoTrack => tracks[n].id \in issued

OwnFeature ==
  \A n \in Nodes, f \in Shown :
    tracks[n] # NoTrack /\ tracks[n].id = f.id => f.device.node = n

\* The track at hand, before it is mapped.
TrackAtHand ==
  pc \in {"added", "save"} =>
    /\ track.device = Device(node)
    /\ track.id \in issued
    /\ \A f \in Shown : f.id = track.id => f = track
    /\ \A n \in Nodes \ {node} : tracks[n] = NoTrack \/ tracks[n].id # track.id

IInv ==
  /\ TypeOK
  /\ IdsNameFeatures
  /\ OwnFeature
  /\ TrackAtHand
  /\ MappedBeforeUse
  /\ NoMixUp

LEMMA IInvInit == Init => IInv
<1> SUFFICES ASSUME Init PROVE IInv
  OBVIOUS
<1>1. TypeOK
  BY DEF Init, TypeOK, Stages
<1> QED
  BY <1>1
  DEF Init, IInv, IdsNameFeatures, OwnFeature, TrackAtHand, MappedBeforeUse, NoMixUp, Shown

LEMMA IInvStep == IInv /\ TypeOK' /\ [Next]_vars => IInv'
<1> SUFFICES ASSUME IInv, TypeOK', [Next]_vars PROVE IInv'
  OBVIOUS
<1>0. TypeOK
  BY DEF IInv
<1> USE DEF IInv, IdsNameFeatures, OwnFeature, TrackAtHand, MappedBeforeUse, NoMixUp, Shown,
            Device, database, caltopo, client, call
<1>1. ASSUME NEW n \in Nodes, Publish(n) PROVE IInv'
  BY <1>1 DEF Publish
<1>2. CASE OpenMap \/ LookUp
  BY <1>2 DEF OpenMap, LookUp
<1>3. CASE ListTracks
  <2>1. CASE pc' = "add"
    BY <1>3, <2>1 DEF ListTracks
  <2>2. CASE pc' = "save"
    <3>1. track' \in live /\ track'.device = Device(node) /\ known' = live
      BY <1>3, <2>2 DEF ListTracks
    <3>2. UNCHANGED <<tracks, live, issued, node, group, target>>
      BY <1>3 DEF ListTracks
    <3>3. \A n \in Nodes \ {node} : tracks[n] = NoTrack \/ tracks[n].id # track'.id
      BY <3>1
    <3> QED
      BY <2>2, <3>1, <3>2, <3>3
  <2> QED
    BY <1>3, <2>1, <2>2 DEF ListTracks
<1>4. CASE AddApplied
  <2>1. PICK id \in TrackIds :
          /\ track' = [device |-> Device(node), id |-> id]
          /\ id \notin issued
          /\ live' = live \cup {track'}
          /\ issued' = issued \cup {id}
    BY <1>4 DEF AddApplied, Created
  <2>2. UNCHANGED <<tracks, known, node, group, target>> /\ pc' = "added"
    BY <1>4 DEF AddApplied
  <2>3. track'.id = id /\ track'.device = Device(node)
    BY <2>1
  <2> QED
    BY <2>1, <2>2, <2>3
<1>5. CASE AddAcknowledged
  BY <1>5 DEF AddAcknowledged
<1>6. CASE SaveTrack
  <2>1. /\ tracks' = [tracks EXCEPT ![node] = [device |-> Device(node), id |-> track.id]]
        /\ pc = "save" /\ pc' = "update"
        /\ UNCHANGED <<live, issued, known, node, track, group, target>>
    BY <1>6 DEF SaveTrack
  <2>2. node \in Nodes /\ tracks' \in [Nodes -> LiveTracks \cup {NoTrack}]
    BY <1>0 DEF TypeOK
  <2>3. tracks'[node].id = track.id /\ tracks'[node] # NoTrack
    <3>1. tracks'[node] = [device |-> Device(node), id |-> track.id]
      BY <1>0, <2>1, <2>2 DEF TypeOK
    <3>2. tracks'[node] \in LiveTracks
      BY <1>0, <2>1, <3>1 DEF TypeOK, LiveTracks, Devices
    <3> QED
      BY <3>1, <3>2, TracksAssumption DEF LiveTracks, Devices
  <2>4. \A n \in Nodes \ {node} : tracks'[n] = tracks[n]
    BY <1>0, <2>1 DEF TypeOK
  <2> QED
    BY <2>1, <2>2, <2>3, <2>4
<1>7. CASE UpdateNotFound
  BY <1>7 DEF UpdateNotFound
<1>8. CASE UpdateApplied
  <2>1. PICK f \in known : f.id = track.id /\ target' = f.device
    BY <1>8 DEF UpdateApplied, Feature
  <2>2. pc = "update" /\ node \in Nodes
    BY <1>0, <1>8 DEF UpdateApplied, TypeOK
  <2>3. target'.node = node
    BY <2>1, <2>2
  <2> QED
    BY <1>8, <2>3 DEF UpdateApplied
<1>9. CASE UpdateAcknowledged \/ CallFails
  BY <1>9 DEF UpdateAcknowledged, CallFails
<1>10. CASE AddAppliedLate
  <2>1. PICK d \in inFlight, id \in TrackIds :
          /\ id \notin issued
          /\ live' = live \cup {[device |-> d, id |-> id]}
          /\ issued' = issued \cup {id}
    BY <1>10 DEF AddAppliedLate, Created
  <2>2. UNCHANGED <<tracks, known, pc, node, track, group, target>>
    BY <1>10 DEF AddAppliedLate
  <2> QED
    BY <2>1, <2>2
<1>11. CASE DeleteTrack \/ ClientSyncs
  BY <1>11 DEF DeleteTrack, ClientSyncs
<1>12. CASE Restart
  BY <1>12 DEF Restart
<1>13. CASE UNCHANGED vars
  BY <1>13 DEF vars
<1> QED
  BY <1>1, <1>2, <1>3, <1>4, <1>5, <1>6, <1>7, <1>8, <1>9, <1>10, <1>11, <1>12, <1>13
  DEF Next

LEMMA Invariance == Spec => []IInv
  BY IInvInit, IInvStep, TypeCorrect, PTL DEF Spec

(***************************************************************************)
(* A position of one node is never reported for another.                   *)
(***************************************************************************)
THEOREM NeverMixedUp == Spec => []NoMixUp
<1>1. IInv => NoMixUp
  BY DEF IInv
<1> QED
  BY <1>1, Invariance, PTL

(***************************************************************************)
(* A position is only sent to the track the database maps its source to.   *)
(***************************************************************************)
THEOREM MappedFirst == Spec => []MappedBeforeUse
<1>1. IInv => MappedBeforeUse
  BY DEF IInv
<1> QED
  BY <1>1, Invariance, PTL

(***************************************************************************)
(* A source is mapped to a track of its own, and SaveTrack never violates  *)
(* a UNIQUE column with the track it saves.                                *)
(***************************************************************************)
THEOREM MappingsStayDistinct == Spec => []MappingsDistinct
<1>1. IInv => MappingsDistinct
  BY DEF IInv, OwnFeature, TrackAtHand, MappingsDistinct, Shown
<1> QED
  BY <1>1, Invariance, PTL

-----------------------------------------------------------------------------
(* One live track per device.                                              *)

\* With nothing carried out late, a track is added where there is none.
AddedWhereMissing ==
  /\ inFlight = {}
  /\ pc = "add" => \A f \in live : f.device # Device(node)
  /\ OneTrackPerDevice

(***************************************************************************)
(* No device ever has two live tracks, if CalTopo carries out no request   *)
(* whose caller has given up.                                              *)
(***************************************************************************)
THEOREM OneTrack == ~ LateRequests => (Spec => []OneTrackPerDevice)
<1> SUFFICES ASSUME ~ LateRequests PROVE Spec => []OneTrackPerDevice
  OBVIOUS
<1>1. Init => AddedWhereMissing
  BY DEF Init, AddedWhereMissing, OneTrackPerDevice
<1>2. AddedWhereMissing /\ [Next]_vars => AddedWhereMissing'
  <2> SUFFICES ASSUME AddedWhereMissing, [Next]_vars PROVE AddedWhereMissing'
    OBVIOUS
  <2> USE DEF AddedWhereMissing, OneTrackPerDevice, Device, database, caltopo, client, call
  <2>1. ASSUME NEW n \in Nodes, Publish(n) PROVE AddedWhereMissing'
    BY <2>1 DEF Publish
  <2>2. CASE OpenMap \/ LookUp \/ ListTracks
    BY <2>2 DEF OpenMap, LookUp, ListTracks
  <2>3. CASE AddApplied
    <3>1. PICK id \in TrackIds : live' = live \cup {[device |-> Device(node), id |-> id]}
      BY <2>3 DEF AddApplied, Created
    <3> QED
      BY <2>3, <3>1 DEF AddApplied
  <2>4. CASE AddAcknowledged \/ SaveTrack \/ UpdateNotFound \/ UpdateApplied
    BY <2>4 DEF AddAcknowledged, SaveTrack, UpdateNotFound, UpdateApplied
  <2>5. CASE UpdateAcknowledged \/ CallFails \/ ClientSyncs
    BY <2>5 DEF UpdateAcknowledged, CallFails, ClientSyncs
  <2>6. CASE AddAppliedLate
    BY <2>6 DEF AddAppliedLate
  <2>7. CASE DeleteTrack
    BY <2>7 DEF DeleteTrack
  <2>8. CASE Restart
    BY <2>8 DEF Restart
  <2>9. CASE UNCHANGED vars
    BY <2>9 DEF vars
  <2> QED
    BY <2>1, <2>2, <2>3, <2>4, <2>5, <2>6, <2>7, <2>8, <2>9 DEF Next
<1>3. AddedWhereMissing => OneTrackPerDevice
  BY DEF AddedWhereMissing
<1> QED
  BY <1>1, <1>2, <1>3, PTL DEF Spec

-----------------------------------------------------------------------------
(* The way of a call of Publish.                                           *)

\* A mapping is for a device of its own source.
OwnDevice == \A n \in Nodes : tracks[n] # NoTrack => tracks[n].device.node = n

\* What the UNIQUE columns of caltopo_tracks ask of the row SaveTrack writes.
SaveAccepted ==
  pc = "save" => \A n \in Nodes \ {node} : tracks[n] # NoTrack =>
    tracks[n].device # Device(node) /\ tracks[n].id # track.id

(***************************************************************************)
(* SaveTrack is never refused for a UNIQUE column, the device or the id:   *)
(* whatever was deleted and adopted, and whichever groups the bridge has   *)
(* had, the mapping can be saved, so that a position goes out again.       *)
(***************************************************************************)
THEOREM SaveNeverRefused == Spec => []SaveAccepted
<1>1. Init => OwnDevice
  BY DEF Init, OwnDevice
<1>2. TypeOK /\ OwnDevice /\ [Next]_vars => OwnDevice'
  <2> SUFFICES ASSUME TypeOK, OwnDevice, [Next]_vars PROVE OwnDevice'
    OBVIOUS
  <2>1. CASE SaveTrack
    <3>1. /\ tracks' = [tracks EXCEPT ![node] = [device |-> Device(node), id |-> track.id]]
          /\ tracks \in [Nodes -> LiveTracks \cup {NoTrack}]
      BY <2>1 DEF SaveTrack, TypeOK
    <3> QED
      BY <3>1 DEF OwnDevice, Device
  <2>2. CASE ~ SaveTrack
    <3>1. tracks' = tracks
      BY <2>2
      DEF Next, vars, Publish, OpenMap, LookUp, ListTracks, AddApplied, AddAcknowledged,
          UpdateNotFound, UpdateApplied, UpdateAcknowledged, CallFails, AddAppliedLate,
          DeleteTrack, ClientSyncs, Restart, database
    <3> QED
      BY <3>1 DEF OwnDevice
  <2> QED
    BY <2>1, <2>2
<1>3. IInv /\ OwnDevice => SaveAccepted
  BY DEF IInv, TrackAtHand, OwnDevice, SaveAccepted, Device
<1> QED
  BY <1>1, <1>2, <1>3, Invariance, TypeCorrect, PTL DEF Spec

\* How far a call of Publish is from its end: the stages it has before it, and
\* those of another round while the track may still turn out not to be there.
Left ==
  LET stage == CASE pc = "open"    -> 8
                 [] pc = "lookup"  -> 7
                 [] pc = "list"    -> 6
                 [] pc = "add"     -> 5
                 [] pc = "added"   -> 4
                 [] pc = "save"    -> 3
                 [] pc = "update"  -> 2
                 [] pc = "updated" -> 1
                 [] OTHER          -> 0
  IN  IF pc = "idle" \/ retried THEN stage ELSE stage + 5

CallStep ==
  \/ OpenMap \/ LookUp \/ ListTracks
  \/ AddApplied \/ AddAcknowledged \/ SaveTrack
  \/ UpdateNotFound \/ UpdateApplied \/ UpdateAcknowledged
  \/ CallFails

\* What goes on at CalTopo and in the client meanwhile.
Elsewhere == AddAppliedLate \/ DeleteTrack \/ ClientSyncs

(***************************************************************************)
(* Publish does not go round in circles: as often as the mapped track is   *)
(* deleted from the map under its hands, a call comes to its end after at  *)
(* most 13 steps, and what others do does not put it back.                 *)
(***************************************************************************)
THEOREM CallComesToItsEnd ==
  Spec => [][/\ Left \in 0 .. 13
             /\ CallStep => Left' < Left
             /\ Elsewhere => Left' = Left]_vars
<1>1. TypeOK => Left \in 0 .. 13
  BY DEF TypeOK, Stages, Left
<1>2. TypeOK /\ CallStep => Left' < Left
  <2> SUFFICES ASSUME TypeOK, CallStep PROVE Left' < Left
    OBVIOUS
  <2> USE DEF Left, call
  <2>0. retried \in BOOLEAN /\ pc \in Stages
    BY DEF TypeOK
  <2>1. CASE OpenMap \/ LookUp
    BY <2>0, <2>1 DEF OpenMap, LookUp
  <2>2. CASE ListTracks
    BY <2>0, <2>2 DEF ListTracks
  <2>3. CASE AddApplied \/ AddAcknowledged \/ SaveTrack
    BY <2>0, <2>3 DEF AddApplied, AddAcknowledged, SaveTrack
  <2>4. CASE UpdateNotFound
    BY <2>0, <2>4 DEF UpdateNotFound
  <2>5. CASE UpdateApplied \/ UpdateAcknowledged
    BY <2>0, <2>5 DEF UpdateApplied, UpdateAcknowledged
  <2>6. CASE CallFails
    BY <2>0, <2>6 DEF CallFails, Stages
  <2> QED
    BY <2>1, <2>2, <2>3, <2>4, <2>5, <2>6 DEF CallStep
<1>3. Elsewhere => Left' = Left
  BY DEF Elsewhere, AddAppliedLate, DeleteTrack, ClientSyncs, Left, call
<1> QED
  BY <1>1, <1>2, <1>3, TypeCorrect, PTL DEF Spec
=============================================================================
