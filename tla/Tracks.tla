------------------------------- MODULE Tracks -------------------------------
(***************************************************************************)
(* The CalTopo adapter (Adapter.Publish and what it calls) with the table  *)
(* caltopo_tracks, the CalTopo map and the gotopo client's copy of it.     *)
(*                                                                         *)
(* The worker calls Publish for one position at a time.  A step ends at a  *)
(* statement on the database and at the two ends of a request; the request *)
(* may fail at either end, map users delete live tracks meanwhile, and the *)
(* process may stop and come back with another CALTOPO_GROUP.              *)
(***************************************************************************)
EXTENDS Integers, FiniteSets

CONSTANTS
  Nodes,         \* mesh nodes
  Groups,        \* the values CALTOPO_GROUP may be given
  TrackIds,      \* bound: the feature ids CalTopo hands out
  NoTrack,       \* no row in caltopo_tracks
  LateRequests   \* whether CalTopo may carry out a request whose caller has
                 \* given up, at any later time

ASSUME TracksAssumption ==
  /\ NoTrack \notin [device : [group : Groups, node : Nodes], id : TrackIds]
  /\ LateRequests \in BOOLEAN

\* "FLEET:<group>-<node>"
Devices == [group : Groups, node : Nodes]

\* A live track as a feature of the map; a row of caltopo_tracks refers to one.
LiveTracks == [device : Devices, id : TrackIds]

VARIABLES
  tracks,   \* caltopo_tracks: for each source the device and track id, or none
  live,     \* CalTopo: the live tracks on the map
  issued,   \* CalTopo: the ids ever given to a live track
  inFlight, \* CalTopo: devices of AddLiveTrack requests nobody waits for
  known,    \* the client's copy of the map's live tracks
  opened,   \* whether the client has opened the map
  group,    \* CALTOPO_GROUP
  pc,       \* where Publish is (see Stages)
  node,     \* the source of the position being published
  track,    \* the live track Publish works with
  retried,  \* whether the mapped track was not found before
  target    \* the device CalTopo last reported a position for

vars == <<tracks, live, issued, inFlight, known, opened, group,
          pc, node, track, retried, target>>

database == <<tracks>>
caltopo  == <<live, issued, inFlight>>
client   == <<known, opened>>
call     == <<node, track, retried>>

(***************************************************************************)
(* "idle"    no call                                                       *)
(* "open"    ensureOpen is about to open the map                           *)
(* "lookup"  Publish is about to read the mapping                          *)
(* "list"    reconcileOrCreate is about to list the live tracks            *)
(* "add"     AddLiveTrack was called; CalTopo has not created the track    *)
(* "added"   CalTopo has, the answer is on its way                         *)
(* "save"    createAndSaveTrack is about to save the mapping               *)
(* "update"  UpdateLiveTrack was called                                    *)
(* "updated" CalTopo has taken the position, the answer is on its way      *)
(***************************************************************************)
Stages == {"idle", "open", "lookup", "list", "add", "added", "save",
           "update", "updated"}

TypeOK ==
  /\ tracks \in [Nodes -> LiveTracks \cup {NoTrack}]
  /\ live \subseteq LiveTracks
  /\ issued \subseteq TrackIds
  /\ inFlight \subseteq Devices
  /\ known \subseteq LiveTracks
  /\ opened \in BOOLEAN
  /\ group \in Groups
  /\ pc \in Stages
  /\ node \in Nodes
  /\ track \in LiveTracks \cup {NoTrack}
  /\ pc \in {"added", "save", "update", "updated"} => track # NoTrack
  /\ retried \in BOOLEAN
  /\ target \in Devices \cup {NoTrack}

\* The device id of a source under the present configuration.
Device(n) == [group |-> group, node |-> n]

Init ==
  /\ tracks = [n \in Nodes |-> NoTrack]
  /\ live = {} /\ issued = {} /\ inFlight = {}
  /\ known = {} /\ opened = FALSE
  /\ group \in Groups
  /\ pc = "idle" /\ track = NoTrack /\ retried = FALSE
  /\ node \in Nodes  \* without meaning before the first call
  /\ target = NoTrack

-----------------------------------------------------------------------------
(* Adapter.Publish.                                                        *)

Publish(n) ==
  /\ pc = "idle"
  /\ node' = n
  /\ track' = NoTrack
  /\ retried' = FALSE
  /\ pc' = IF opened THEN "lookup" ELSE "open"
  /\ UNCHANGED <<database, caltopo, client, group, target>>

\* ensureOpen: OpenMap reads the whole map.
OpenMap ==
  /\ pc = "open"
  /\ opened' = TRUE
  /\ known' = live
  /\ pc' = "lookup"
  /\ UNCHANGED <<database, caltopo, call, group, target>>

\* Faulty variant: a missing mapping goes unnoticed.
LookUp_Unchecked ==
  /\ pc = "lookup"
  /\ track' = tracks[node]
  /\ pc' = "update"
  /\ UNCHANGED <<database, caltopo, client, node, retried, group, target>>

LookUp ==
  /\ pc = "lookup"
  /\ track' = tracks[node]
  /\ pc' = IF tracks[node] = NoTrack THEN "list" ELSE "update"
  /\ UNCHANGED <<database, caltopo, client, node, retried, group, target>>

\* reconcileOrCreate: a live track that is there already is adopted.  Faulty
\* variants: the tracks are not listed; any track of the group is adopted.
ListTracks_Skipped ==
  /\ pc = "list"
  /\ pc' = "add"
  /\ UNCHANGED <<database, caltopo, client, call, group, target>>

ListTracks_AnyDevice ==
  /\ pc = "list"
  /\ known' = live
  /\ LET own == {f \in live : f.device.group = group}
     IN  \/ own = {} /\ pc' = "add" /\ UNCHANGED track
         \/ track' \in own /\ pc' = "save"
  /\ UNCHANGED <<database, caltopo, opened, node, retried, group, target>>

ListTracks ==
  /\ pc = "list"
  /\ known' = live
  /\ LET own == {f \in live : f.device = Device(node)}
     IN  \/ own = {} /\ pc' = "add" /\ UNCHANGED track
         \/ track' \in own /\ pc' = "save"
  /\ UNCHANGED <<database, caltopo, opened, node, retried, group, target>>

\* CalTopo creates a live track for a device.
Created(f) ==
  /\ f.id \notin issued
  /\ live' = live \cup {f}
  /\ issued' = issued \cup {f.id}

AddApplied ==
  /\ pc = "add"
  /\ \E id \in TrackIds :
       /\ track' = [device |-> Device(node), id |-> id]
       /\ Created(track')
  /\ pc' = "added"
  /\ UNCHANGED <<database, inFlight, client, node, retried, group, target>>

\* The answer carries the feature; the client adds it to its copy.
\* Faulty variant: the new track is used without being saved.
AddAcknowledged_Unsaved ==
  /\ pc = "added"
  /\ known' = known \cup {track}
  /\ pc' = "update"
  /\ UNCHANGED <<database, caltopo, opened, call, group, target>>

AddAcknowledged ==
  /\ pc = "added"
  /\ known' = known \cup {track}
  /\ pc' = "save"
  /\ UNCHANGED <<database, caltopo, opened, call, group, target>>

\* SaveTrack: the row of the source is written or overwritten; the UNIQUE
\* columns must not hold the values in another row.
SaveTrack ==
  /\ pc = "save"
  /\ \A n \in Nodes \ {node} : tracks[n] # NoTrack =>
       tracks[n].device # Device(node) /\ tracks[n].id # track.id
  /\ tracks' = [tracks EXCEPT ![node] = [device |-> Device(node), id |-> track.id]]
  /\ pc' = "update"
  /\ UNCHANGED <<caltopo, client, call, group, target>>

\* The feature the client has under the id of the mapped track.
Feature == {f \in known : f.id = track.id}

\* UpdateLiveTrack returns ErrNotFound.  The first time, Publish looks for the
\* track by its device or creates it anew.  Faulty variant: it gives up.
UpdateNotFound_GivesUp ==
  /\ pc = "update"
  /\ Feature = {}
  /\ pc' = "idle"
  /\ UNCHANGED <<database, caltopo, client, call, group, target>>

UpdateNotFound ==
  /\ pc = "update"
  /\ Feature = {}
  /\ pc' = IF retried THEN "idle" ELSE "list"
  /\ retried' = TRUE
  /\ UNCHANGED <<database, caltopo, client, node, track, group, target>>

\* UpdateLiveTrack reports the position for the device of the feature.
UpdateApplied ==
  /\ pc = "update"
  /\ \E f \in Feature : target' = f.device
  /\ pc' = "updated"
  /\ UNCHANGED <<database, caltopo, client, call, group>>

UpdateAcknowledged ==
  /\ pc = "updated"
  /\ pc' = "idle"
  /\ UNCHANGED <<database, caltopo, client, call, group, target>>

\* Any call of Publish may return an error: the store fails, a request is
\* refused, or the answer is lost or comes after the deadline.
CallFails ==
  /\ pc # "idle"
  /\ pc' = "idle"
  /\ inFlight' = IF LateRequests /\ pc = "add"
                 THEN inFlight \cup {Device(node)} ELSE inFlight
  /\ UNCHANGED <<database, live, issued, client, call, group, target>>

-----------------------------------------------------------------------------
(* CalTopo and its other users.                                            *)

\* A request whose caller has given up is carried out after all.
AddAppliedLate ==
  /\ \E d \in inFlight, id \in TrackIds :
       /\ Created([device |-> d, id |-> id])
       /\ inFlight' = inFlight \ {d}
  /\ UNCHANGED <<database, client, pc, call, group, target>>

\* A user of the map deletes a live track.  Enough ids are kept to create
\* every track again: the bound on deletions.
DeleteTrack ==
  /\ Cardinality(TrackIds \ issued) >= Cardinality(Nodes)
  /\ \E f \in live : live' = live \ {f}
  /\ UNCHANGED <<database, issued, inFlight, client, pc, call, group, target>>

\* The client may catch up with the map at any time.
ClientSyncs ==
  /\ opened
  /\ known # live
  /\ known' = live
  /\ UNCHANGED <<database, caltopo, opened, pc, call, group, target>>

\* The process stops and is started again, with the group it is then given.
Restart ==
  /\ pc' = "idle"
  /\ known' = {}
  /\ opened' = FALSE
  /\ group' \in Groups
  /\ track' = NoTrack
  /\ inFlight' = IF LateRequests /\ pc = "add"
                 THEN inFlight \cup {Device(node)} ELSE inFlight
  /\ UNCHANGED <<database, live, issued, node, retried, target>>

-----------------------------------------------------------------------------
Next ==
  \/ \E n \in Nodes : Publish(n)
  \/ OpenMap
  \/ LookUp
  \/ ListTracks
  \/ AddApplied
  \/ AddAcknowledged
  \/ SaveTrack
  \/ UpdateNotFound
  \/ UpdateApplied
  \/ UpdateAcknowledged
  \/ CallFails
  \/ AddAppliedLate
  \/ DeleteTrack
  \/ ClientSyncs
  \/ Restart

Spec == Init /\ [][Next]_vars

(***************************************************************************)
(* Fairness: positions keep coming (a heartbeat at least), the client does *)
(* not stay behind the map for ever, no call outlives its deadline, and    *)
(* one that is made over and over again succeeds once.                     *)
(***************************************************************************)
Fairness ==
  /\ \A n \in Nodes : SF_vars(Publish(n))
  /\ SF_vars(ClientSyncs)
  /\ WF_vars(CallFails)
  /\ SF_vars(OpenMap)
  /\ SF_vars(LookUp)
  /\ SF_vars(ListTracks)
  /\ SF_vars(AddApplied)
  /\ SF_vars(AddAcknowledged)
  /\ SF_vars(SaveTrack)
  /\ SF_vars(UpdateNotFound)

FairSpec == Spec /\ Fairness

-----------------------------------------------------------------------------
(* Properties.                                                             *)

(***************************************************************************)
(* "Each Meshtastic source node maps to one FLEET:<group>-<node> live      *)
(* track" (README): however creating, saving and updating fail, and        *)
(* whatever a restart forgets, a device never has two tracks on the map -- *)
(* as long as CalTopo does not carry out a creation whose caller has given *)
(* up (LateRequests).                                                      *)
(***************************************************************************)
OneTrackPerDevice ==
  \A f, g \in live : f.device = g.device => f = g

(***************************************************************************)
(* A position of one node is never reported for another, not even after    *)
(* tracks were deleted and adopted and the group was changed.              *)
(***************************************************************************)
NoMixUp == pc = "updated" => target.node = node

(***************************************************************************)
(* A source is mapped to a track of its own, and the track createAndSave   *)
(* is about to save is mapped to no other source, so the UNIQUE columns of *)
(* caltopo_tracks never make SaveTrack fail for good.                      *)
(***************************************************************************)
MappingsDistinct ==
  /\ \A n \in Nodes, f \in live \cup known :
       tracks[n] # NoTrack /\ tracks[n].id = f.id => f.device.node = n
  /\ pc = "save" => \A n \in Nodes \ {node} :
       tracks[n] = NoTrack \/ tracks[n].id # track.id

(***************************************************************************)
(* The live track a position goes to is FLEET:<group>-<node> for the group *)
(* the bridge is configured with.  It is not after the group was changed:  *)
(* see tracks_group_change.                                                *)
(***************************************************************************)
OwnGroup == pc = "updated" => target = Device(node)

(***************************************************************************)
(* A mapping is durable before it is used: a position is only sent to the  *)
(* track the database maps its source to, so a crash after the first       *)
(* update never leaves a track behind that the bridge does not know.       *)
(***************************************************************************)
MappedBeforeUse ==
  pc \in {"update", "updated"} =>
    /\ tracks[node] # NoTrack
    /\ tracks[node].id = track.id

(***************************************************************************)
(* A live track that was deleted from the map comes back.                  *)
(***************************************************************************)
TrackRestored ==
  \A n \in Nodes : []<>(\E f \in live : f.device.node = n)
=============================================================================
