-------------------------------- MODULE Ingest --------------------------------
(***************************************************************************)
(* The intake of radio messages: the loop of Source.consume that hands one *)
(* FromRadio message after the other to Service.Handle and tries again     *)
(* until it succeeds, and what Handle does with a message: decode it,      *)
(* remember node names, give a position its callsign, archive.             *)
(*                                                                         *)
(* There is one such goroutine.  Its steps end where the store can fail    *)
(* and where the process can stop: at each transaction, and in the pause   *)
(* before the next attempt.                                                *)
(***************************************************************************)
EXTENDS Timestamps, Sequences

CONSTANTS
  Nodes,           \* mesh nodes
  Locs,            \* places a position report may give
  Names,           \* the names and callsigns in use
  Blank,           \* the empty name
  Fallback,        \* the node id written as a callsign, model.NodeID
  NoUser,          \* a node info without a user, or one that cannot be decoded
  NoTime,          \* a time that is not set
  Users,           \* the users that nodes announce
  Reports,         \* the position reports that nodes broadcast
  Options,         \* the configurations the process is started with
  ClockFractions,  \* the fractions of a second time.Now() returns
  MaxMessages,     \* bound: the messages the radio passes on
  Horizon          \* bound: the last second of the wall clock

AllUsers == [short : Names \cup {Blank}, long : Names \cup {Blank}]

\* A report is what one packet of a node says; id is its mesh packet id.  A
\* callsign comes with a TAK packet, a time of its own with POSITION_APP.
AllReports == [node : Nodes, id : Nat, port : {"app", "tak"}, loc : Locs,
               time : Instants \cup {NoTime},
               callsign : Names \cup {Fallback}]

ASSUME IngestAssumption ==
  /\ Blank \notin Names /\ Fallback \notin Names \cup {Blank}
  /\ Users \subseteq AllUsers
  /\ NoUser \notin Users
  /\ NoTime \notin Instants
  /\ Reports \subseteq AllReports
  /\ \A r \in Reports : IF r.port = "app" THEN r.callsign = Fallback ELSE r.time = NoTime
  /\ \A r, s \in Reports : r.node = s.node /\ r.id = s.id => r = s
  /\ Options \subseteq [positionApp : BOOLEAN, enqueue : BOOLEAN]
  /\ ClockFractions \subseteq Fractions /\ 0 \in ClockFractions
  /\ MaxMessages \in Nat /\ Horizon \in Nat

VARIABLES
  now,         \* the wall clock
  received,    \* history: the messages consume has taken up, the last one
               \* being the one at hand
  lost,        \* history: the messages at hand when the process stopped
  pc,          \* where the intake is (see Stages)
  options,     \* the configuration of the process: DECODE_POSITION_APP and
               \* CALTOPO_ENABLED
  receivedAt,  \* the time this attempt at the message began
  callsign,    \* the callsign of the position at hand
  meshNodes,   \* mesh_nodes: the user stored for each node, or none
  packets,     \* mesh_packets: for each row the message it came from, whether
               \* it was parsed as a position, and (history) whether CalTopo
               \* was enabled
  positions,   \* tak_positions
  deliveries   \* caltopo_deliveries: for each row the position it is about

vars == <<now, received, lost, pc, options, receivedAt, callsign,
          meshNodes, packets, positions, deliveries>>

radio    == <<received, lost>>
database == <<meshNodes, packets, positions, deliveries>>

Clock == [sec : 0 .. Horizon, frac : ClockFractions]

\* The whole second in which the radio received a packet, or no rx_time.
Stamps == [sec : 0 .. Horizon, frac : {0}] \cup {NoTime}

(***************************************************************************)
(* "status"   radio metadata, role or end of configuration: only logged    *)
(* "node"     a NodeInfo of the radio's own node list                      *)
(* "nodeinfo" a NODEINFO_APP packet                                        *)
(* "report"   a packet that decodes to a position                          *)
(* "other"    any other packet: encrypted, malformed, without a fix, ...   *)
(***************************************************************************)
Messages ==
  [kind : {"status", "other"}]
    \cup [kind : {"node", "nodeinfo"}, node : Nodes, user : Users \cup {NoUser}]
    \cup [kind : {"report"}, report : Reports, rx : Stamps]

\* "down", or before: reading, Handle, UpsertNode, NodeCallsign, Archive,
\* WakeDeliveries; or sleeping before the next attempt.
Stages == {"down", "read", "handle", "remember", "name", "archive", "wake", "paused"}

Positions ==
  [report : Reports, time : Instants, callsign : Names \cup {Fallback}, packet : Nat]

TypeOK ==
  /\ now \in Clock
  /\ received \in Seq(Messages)
  /\ lost \subseteq DOMAIN received
  /\ pc \in Stages
  /\ receivedAt \in Clock
  /\ callsign \in Names \cup {Fallback}
  /\ meshNodes \in [Nodes -> Users \cup {NoUser}]
  /\ options \in Options
  /\ packets \in Seq([message : DOMAIN received, position : BOOLEAN, enqueue : BOOLEAN])
  /\ positions \in Seq(Positions)
  /\ \A p \in DOMAIN positions : positions[p].packet \in DOMAIN packets
  /\ deliveries \in Seq(DOMAIN positions)

Init ==
  /\ now = [sec |-> 0, frac |-> 0]
  /\ received = <<>> /\ lost = {}
  /\ pc = "read"
  /\ options \in Options
  /\ receivedAt = now
  /\ callsign = Fallback
  /\ meshNodes = [n \in Nodes |-> NoUser]
  /\ packets = <<>> /\ positions = <<>> /\ deliveries = <<>>

Message == received[Len(received)]

\* The locals of Handle end with it.
Forget == receivedAt' = [sec |-> 0, frac |-> 0] /\ callsign' = Fallback

-----------------------------------------------------------------------------
(* Source.consume.                                                         *)

\* The radio stamps a packet with the second it was received in, if it has a
\* clock, and passes it on; the same report may come several times.
Receive(m) ==
  /\ pc = "read"
  /\ Len(received) < MaxMessages
  /\ m.kind = "report" => m.rx \in {NoTime, [sec |-> now.sec, frac |-> 0]}
  /\ received' = Append(received, m)
  /\ pc' = "handle"
  /\ UNCHANGED <<now, lost, options, receivedAt, callsign, database>>

\* Handle returned an error; consume pauses intake.
StoreFails ==
  /\ pc \in {"remember", "name", "archive"}
  /\ pc' = "paused"
  /\ Forget
  /\ UNCHANGED <<now, radio, options, database>>

\* Handle is called again with the same message.
\* Faulty variant: the message is dropped.
RetryHandle_Drops ==
  /\ pc = "paused"
  /\ pc' = "read"
  /\ UNCHANGED <<now, radio, options, receivedAt, callsign, database>>

RetryHandle ==
  /\ pc = "paused"
  /\ pc' = "handle"
  /\ UNCHANGED <<now, radio, options, receivedAt, callsign, database>>

-----------------------------------------------------------------------------
(* Service.Handle and tak.DecodeWithOptions.                               *)

Continue(stage) ==
  /\ pc' = stage
  /\ UNCHANGED <<now, radio, options, database>>

HandleStatus ==
  /\ pc = "handle"
  /\ Message.kind = "status"
  /\ Continue("read")
  /\ UNCHANGED <<receivedAt, callsign>>

HandleNode ==
  /\ pc = "handle"
  /\ Message.kind = "node"
  /\ Continue(IF Message.user = NoUser THEN "read" ELSE "remember")
  /\ UNCHANGED <<receivedAt, callsign>>

HandleNodeInfo ==
  /\ pc = "handle"
  /\ Message.kind = "nodeinfo"
  /\ Continue(IF Message.user = NoUser THEN "archive" ELSE "remember")
  /\ UNCHANGED <<receivedAt, callsign>>

HandleOther ==
  /\ pc = "handle"
  /\ \/ Message.kind = "other"
     \/ Message.kind = "report" /\ Message.report.port = "app" /\ ~ options.positionApp
  /\ Continue("archive")
  /\ UNCHANGED <<receivedAt, callsign>>

\* A message decodes to a position under the options of the process.
IsPosition(m) ==
  m.kind = "report" /\ (m.report.port = "app" => options.positionApp)

\* Each attempt decodes the packet again, with a time of its own.
HandlePosition ==
  /\ pc = "handle"
  /\ IsPosition(Message)
  /\ receivedAt' = now
  /\ callsign' = Message.report.callsign
  /\ Continue(IF callsign' = Fallback THEN "name" ELSE "archive")

\* The short name of a user, else the long name.
Called(user) == IF user.short # Blank THEN user.short ELSE user.long

HasName(n) == meshNodes[n] # NoUser /\ Called(meshNodes[n]) # Blank

\* NodeCallsign.  Faulty variant: a node without a name gives an empty one.
NameSource_Blank ==
  /\ pc = "name"
  /\ LET n == Message.report.node
     IN  callsign' = IF meshNodes[n] # NoUser THEN Called(meshNodes[n]) ELSE callsign
  /\ Continue("archive")
  /\ UNCHANGED receivedAt

NameSource ==
  /\ pc = "name"
  /\ LET n == Message.report.node
     IN  callsign' = IF HasName(n) THEN Called(meshNodes[n]) ELSE callsign
  /\ Continue("archive")
  /\ UNCHANGED receivedAt

\* UpsertNode: the row of the node, and the callsign of its positions that
\* still have none.  Faulty variant: the positions are left as they are.
RememberNode_NodeOnly ==
  /\ pc = "remember"
  /\ meshNodes' = [meshNodes EXCEPT ![Message.node] = Message.user]
  /\ pc' = IF Message.kind = "node" THEN "read" ELSE "archive"
  /\ UNCHANGED <<now, radio, options, receivedAt, callsign, packets, positions,
                 deliveries>>

RememberNode ==
  /\ pc = "remember"
  /\ meshNodes' = [meshNodes EXCEPT ![Message.node] = Message.user]
  /\ positions' = [p \in DOMAIN positions |->
       IF /\ Called(Message.user) # Blank
          /\ positions[p].report.node = Message.node
          /\ positions[p].callsign = Fallback
       THEN [positions[p] EXCEPT !.callsign = Called(Message.user)]
       ELSE positions[p]]
  /\ pc' = IF Message.kind = "node" THEN "read" ELSE "archive"
  /\ UNCHANGED <<now, radio, options, receivedAt, callsign, packets, deliveries>>

-----------------------------------------------------------------------------
(* Store.Archive.                                                          *)

\* The time of a position: its own, else the radio's, else the time at which
\* Handle began.  Faulty variant: the radio's time comes first.
SourceTime_Radio(m, at) ==
  IF m.rx # NoTime THEN m.rx
  ELSE IF m.report.time # NoTime THEN m.report.time
  ELSE at

SourceTime(m, at) ==
  IF m.report.time # NoTime THEN m.report.time
  ELSE IF m.rx # NoTime THEN m.rx
  ELSE at

\* The row has the dedupe key of a report: node, place and source time.
\* Faulty variant: the place is missing from the key.
SameKey_NoPlace(row, report, time) ==
  row.report.node = report.node /\ row.time = time

SameKey(row, report, time) ==
  /\ row.report.node = report.node
  /\ row.report.loc = report.loc
  /\ row.time = time

Stored(report, time) ==
  \E p \in DOMAIN positions : SameKey(positions[p], report, time)

\* The row of the packet at hand in mesh_packets.
Row ==
  [message |-> Len(received), position |-> IsPosition(Message),
   enqueue |-> options.enqueue]

\* Each of these is one transaction, from the row of the packet on.
ArchivePacket ==
  /\ pc = "archive"
  /\ IsPosition(Message) => Stored(Message.report, SourceTime(Message, receivedAt))
  /\ packets' = Append(packets, Row)
  /\ pc' = "read"
  /\ Forget
  /\ UNCHANGED <<now, radio, options, meshNodes, positions, deliveries>>

\* The outbox entry of the new position, in the same transaction.
\* Faulty variant: in a transaction of its own, which may fail.
Enqueue_Apart ==
  \/ deliveries' = IF options.enqueue THEN Append(deliveries, Len(positions')) ELSE deliveries
  \/ UNCHANGED deliveries

Enqueue ==
  deliveries' = IF options.enqueue THEN Append(deliveries, Len(positions')) ELSE deliveries

\* Only a bridge with CalTopo enabled has a worker to wake.
\* Faulty variant: the ticker is left to find the delivery.
AfterArchive_Silent == "read"

AfterArchive == IF options.enqueue THEN "wake" ELSE "read"

ArchivePosition ==
  /\ pc = "archive"
  /\ IsPosition(Message)
  /\ ~ Stored(Message.report, SourceTime(Message, receivedAt))
  /\ packets' = Append(packets, Row)
  /\ positions' = Append(positions,
       [report |-> Message.report, time |-> SourceTime(Message, receivedAt),
        callsign |-> callsign, packet |-> Len(packets')])
  /\ Enqueue
  /\ pc' = AfterArchive
  /\ Forget
  /\ UNCHANGED <<now, radio, options, meshNodes>>

\* The worker is told; see WakeDeliveries in Worker.
WakeDeliveries ==
  /\ pc = "wake"
  /\ Continue("read")
  /\ UNCHANGED <<receivedAt, callsign>>

-----------------------------------------------------------------------------
\* The process stops at any step; the message at hand, if its transaction has
\* not committed, is gone: the radio does not send it again.
Crash ==
  /\ pc # "down"
  /\ lost' = IF pc \in {"read", "wake"} THEN lost ELSE lost \cup {Len(received)}
  /\ pc' = "down"
  /\ Forget
  /\ UNCHANGED <<now, received, options, database>>

\* The process is started again, perhaps with other options.
Restart ==
  /\ pc = "down"
  /\ pc' = "read"
  /\ options' \in Options
  /\ UNCHANGED <<now, radio, receivedAt, callsign, database>>

ClockTicks ==
  /\ \E t \in Clock : Before(now, t) /\ now' = t
  /\ UNCHANGED <<radio, pc, options, receivedAt, callsign, database>>

Next ==
  \/ \E m \in Messages : Receive(m)
  \/ StoreFails
  \/ RetryHandle
  \/ HandleStatus
  \/ HandleNode
  \/ HandleNodeInfo
  \/ HandleOther
  \/ HandlePosition
  \/ NameSource
  \/ RememberNode
  \/ ArchivePacket
  \/ ArchivePosition
  \/ WakeDeliveries
  \/ Crash
  \/ Restart
  \/ ClockTicks

Spec == Init /\ [][Next]_vars

-----------------------------------------------------------------------------
(* The positions API of the map page.                                      *)

\* Store.Positions: the row of a node that no other row comes after, by the
\* text of the source time and then by id.
\* Faulty variant: the row archived last.
Newest_ById(n) ==
  {p \in DOMAIN positions :
     /\ positions[p].report.node = n
     /\ \A q \in DOMAIN positions : positions[q].report.node = n => q <= p}

Newest(n) ==
  {p \in DOMAIN positions :
     /\ positions[p].report.node = n
     /\ ~ \E q \in DOMAIN positions :
            /\ positions[q].report.node = n
            /\ \/ TextBefore(positions[p].time, positions[q].time)
               \/ positions[q].time = positions[p].time /\ p < q}

-----------------------------------------------------------------------------
(* Properties.                                                             *)

\* A message Handle has finished with.
Handled(i) ==
  /\ i \in DOMAIN received \ lost
  /\ i = Len(received) => pc \in {"read", "wake", "down"}

(***************************************************************************)
(* "Pausing intake without dropping packet" (serial.go): whatever failed   *)
(* in between, each packet handled has one row in mesh_packets, in the     *)
(* order of arrival, and none of those lost in a crash has one.            *)
(***************************************************************************)
EachPacketOnce ==
  /\ \A j \in 1 .. (Len(packets) - 1) : packets[j].message < packets[j + 1].message
  /\ {packets[j].message : j \in DOMAIN packets} =
       {i \in DOMAIN received :
          Handled(i) /\ received[i].kind \in {"nodeinfo", "report", "other"}}

(***************************************************************************)
(* Deduplication never takes one fix for another: each position handled is *)
(* in tak_positions with its node, place and time (that of the radio or of *)
(* its own), whatever the options of the process have been since.          *)
(***************************************************************************)
EachFixKept ==
  \A j \in DOMAIN packets :
    LET m == received[packets[j].message]
    IN  packets[j].position =>
          \E p \in DOMAIN positions :
            /\ positions[p].report.node = m.report.node
            /\ positions[p].report.loc = m.report.loc
            /\ positions[p].time = SourceTime(m, positions[p].time)

HasDelivery(p) == \E d \in DOMAIN deliveries : deliveries[d] = p

(***************************************************************************)
(* "Packet archival occurs in the same transaction that creates a          *)
(* normalized position and its outbox entry" (README): each position comes *)
(* with the row of its packet, and has a delivery exactly if CalTopo was   *)
(* enabled then.  A copy that comes when it is enabled adds none.          *)
(***************************************************************************)
ArchivedAtOnce ==
  \A p \in DOMAIN positions :
    LET row == packets[positions[p].packet]
    IN  /\ row.position
        /\ received[row.message].report = positions[p].report
        /\ HasDelivery(p) <=> row.enqueue

(***************************************************************************)
(* "Repeated firmware copies of the same position ... only produce one     *)
(* normalized position" (README).  They do not when the packet carries no  *)
(* time of its own: see ingest_copies.                                     *)
(***************************************************************************)
OnePositionPerReport ==
  \A p, q \in DOMAIN positions :
    positions[p].report = positions[q].report => p = q

(***************************************************************************)
(* They do for a packet with a time of its own, when and how often it may  *)
(* arrive, whatever time the radio stamps, and however often an attempt to *)
(* archive it was cut short.                                               *)
(***************************************************************************)
OnePositionPerTimedReport ==
  \A p, q \in DOMAIN positions :
    positions[p].report = positions[q].report /\ positions[p].report.time # NoTime
      => p = q

(***************************************************************************)
(* The callsign of a position is the one its packet gave; if it gave none, *)
(* the node id is only shown as long as the node has no name, whether the  *)
(* name came before the position, after it, or in a message that was lost. *)
(***************************************************************************)
CallsignsRight ==
  \A p \in DOMAIN positions :
    LET report == positions[p].report
    IN  IF report.callsign # Fallback
        THEN positions[p].callsign = report.callsign
        ELSE HasName(report.node) => positions[p].callsign # Fallback

(***************************************************************************)
(* The map page, unlike the live track, never goes back to an older fix,   *)
(* in whatever order the fixes of a node arrive.                           *)
(***************************************************************************)
MapNeverGoesBack ==
  [][\A n \in Nodes :
       \A p \in Newest(n) :
         \E q \in Newest(n)' : NotAfter(positions[p].time, positions'[q].time)]_vars

(***************************************************************************)
(* "A Leaflet map of each node's latest position" (README).  It is, as     *)
(* long as the texts of the times sort as the times do: of a whole second  *)
(* and a fraction of it, the page would show the older.                    *)
(***************************************************************************)
LatestShown ==
  \A n \in Nodes : \A p \in Newest(n) :
    \A q \in DOMAIN positions :
      positions[q].report.node = n => NotAfter(positions[q].time, positions[p].time)

-----------------------------------------------------------------------------
(* The contract with the delivery worker.                                  *)

\* The fix of a position, as the worker gets to see it.
Fix(p) ==
  [node |-> positions[p].report.node, loc |-> positions[p].report.loc,
   time |-> positions[p].time]

Feed ==
  INSTANCE OutboxFeed WITH
    queue  <- [d \in DOMAIN deliveries |-> Fix(deliveries[d])],
    waking <- (pc = "wake")

(***************************************************************************)
(* Intake keeps to what it has agreed on with the worker: each fix is      *)
(* enqueued once, no copy and no retry enqueues it again, and a wake-up    *)
(* follows before the next one.                                            *)
(***************************************************************************)
FeedsTheOutbox == Feed!FeedSpec
=============================================================================
