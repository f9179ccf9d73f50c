----------------------------- MODULE IngestProofs -----------------------------
(***************************************************************************)
(* Proofs about Ingest, for any nodes, reports, users and messages.        *)
(***************************************************************************)
EXTENDS Ingest, TimestampProofs, SequenceTheorems

-----------------------------------------------------------------------------
(* Facts about the operators.                                              *)

\* What a message carries.
LEMMA MessageFields ==
  ASSUME NEW m \in Messages
  PROVE  /\ m.kind = "report" => m.report \in Reports /\ m.rx \in Stamps
         /\ m.kind \in {"node", "nodeinfo"} => m.node \in Nodes /\ m.user \in Users \cup {NoUser}
         /\ m.kind \in {"status", "other", "node", "nodeinfo", "report"}
  BY DEF Messages

LEMMA ReportFields ==
  ASSUME NEW r \in Reports
  PROVE  /\ r.node \in Nodes
         /\ r.time \in Instants \cup {NoTime}
         /\ r.callsign \in Names \cup {Fallback}
  BY IngestAssumption DEF AllReports

LEMMA ClockInstants == Clock \subseteq Instants /\ Stamps \subseteq Clock \cup {NoTime}
  BY IngestAssumption DEF Clock, Stamps, Instants

\* The name of a user is one of the names, or blank.
LEMMA CalledType ==
  ASSUME NEW user \in Users
  PROVE  Called(user) \in Names \cup {Blank}
  BY IngestAssumption DEF AllUsers, Called

LEMMA SourceTimeType ==
  ASSUME NEW m \in Messages, m.kind = "report", NEW time \in Clock
  PROVE  SourceTime(m, time) \in Instants
  BY MessageFields, ReportFields, ClockInstants DEF SourceTime

-----------------------------------------------------------------------------
(* Types, and the message at hand.                                         *)

\* Handle works on a message that was not lost, and each stage on one of the
\* kinds it is for.
HandInv ==
  /\ pc \in {"handle", "remember", "name", "archive", "paused"} =>
       Len(received) > 0 /\ Len(received) \notin lost
  /\ pc = "remember" => Message.kind \in {"node", "nodeinfo"} /\ Message.user \in Users
  /\ pc = "name" => IsPosition(Message)
  /\ pc = "archive" => Message.kind \in {"nodeinfo", "report", "other"}

Rows == [message : DOMAIN received, position : BOOLEAN, enqueue : BOOLEAN]

LEMMA TypeInit == Init => TypeOK /\ HandInv
<1> SUFFICES ASSUME Init PROVE TypeOK /\ HandInv
  OBVIOUS
<1>1. now \in Clock
  BY IngestAssumption DEF Init, Clock
<1>2. /\ <<>> \in Seq(Messages) /\ <<>> \in Seq(Rows) /\ <<>> \in Seq(Positions)
      /\ <<>> \in Seq({}) /\ Len(<<>>) = 0 /\ DOMAIN <<>> = {}
  BY EmptySeq
<1>3. TypeOK
  BY <1>1, <1>2 DEF Init, TypeOK, Stages, Rows
<1> QED
  BY <1>3 DEF Init, HandInv

\* A message at hand is one of the messages.
LEMMA MessageType ==
  ASSUME TypeOK, Len(received) > 0
  PROVE  Message \in Messages /\ Len(received) \in DOMAIN received
<1>1. received \in Seq(Messages) /\ Len(received) \in 1 .. Len(received)
  BY DEF TypeOK
<1> QED
  BY <1>1, ElementOfSeq DEF Message

\* Each row is about one of the messages.
LEMMA RowTypes ==
  ASSUME TypeOK
  PROVE  \A j \in DOMAIN packets :
           packets[j].message \in DOMAIN received /\ packets[j].position \in BOOLEAN
<1>1. packets \in Seq(Rows)
  BY DEF TypeOK, Rows
<1>2. \A j \in DOMAIN packets : packets[j] \in Rows
  BY <1>1, ElementOfSeq
<1> QED
  BY <1>2 DEF Rows

\* The row of the packet at hand is added to the packets.
LEMMA PacketAdded ==
  ASSUME TypeOK, HandInv, pc = "archive", UNCHANGED received, packets' = Append(packets, Row)
  PROVE  /\ Row \in Rows
         /\ packets' \in Seq(Rows) /\ Rows' = Rows
         /\ Len(packets') = Len(packets) + 1 /\ Len(packets) \in Nat
         /\ packets'[Len(packets) + 1] = Row
         /\ \A j \in 1 .. Len(packets) : packets'[j] = packets[j]
         /\ DOMAIN packets = 1 .. Len(packets) /\ DOMAIN packets' = 1 .. Len(packets')
<1>1. Len(received) \in DOMAIN received
  BY MessageType DEF HandInv
<1>2. options.enqueue \in BOOLEAN
  BY IngestAssumption DEF TypeOK
<1>3. Row \in Rows
  BY <1>1, <1>2 DEF Row, Rows, IsPosition
<1>4. packets \in Seq(Rows)
  BY DEF TypeOK, Rows
<1> QED
  BY <1>3, <1>4, AppendProperties DEF Rows

\* The new position is added to the positions.
LEMMA PositionAdded ==
  ASSUME TypeOK, HandInv, ArchivePosition
  PROVE  /\ positions' \in Seq(Positions)
         /\ Len(positions') = Len(positions) + 1 /\ Len(positions) \in Nat
         /\ positions'[Len(positions) + 1] =
              [report |-> Message.report, time |-> SourceTime(Message, receivedAt),
               callsign |-> callsign, packet |-> Len(packets')]
         /\ \A p \in 1 .. Len(positions) : positions'[p] = positions[p]
         /\ DOMAIN positions = 1 .. Len(positions) /\ DOMAIN positions' = 1 .. Len(positions')
<1> DEFINE position ==
             [report |-> Message.report, time |-> SourceTime(Message, receivedAt),
              callsign |-> callsign, packet |-> Len(packets')]
<1>1. Message \in Messages /\ Message.kind = "report"
  BY MessageType DEF HandInv, ArchivePosition, IsPosition
<1>2. Message.report \in Reports /\ SourceTime(Message, receivedAt) \in Instants
  BY <1>1, MessageFields, SourceTimeType DEF TypeOK
<1>3. Len(packets') \in Nat
  BY PacketAdded DEF ArchivePosition, radio
<1>4. position \in Positions
  BY <1>2, <1>3 DEF Positions, TypeOK
<1>5. positions \in Seq(Positions) /\ positions' = Append(positions, position)
  BY DEF TypeOK, ArchivePosition
<1> HIDE DEF position
<1>6. /\ positions' \in Seq(Positions)
      /\ Len(positions') = Len(positions) + 1 /\ Len(positions) \in Nat
      /\ positions'[Len(positions) + 1] = position
      /\ \A p \in 1 .. Len(positions) : positions'[p] = positions[p]
      /\ DOMAIN positions = 1 .. Len(positions) /\ DOMAIN positions' = 1 .. Len(positions')
  BY <1>4, <1>5, AppendProperties
<1> QED
  BY <1>6 DEF position

\* The delivery of the new position is added to the deliveries, if there is one.
LEMMA DeliveryAdded ==
  ASSUME TypeOK, HandInv, ArchivePosition
  PROVE  /\ deliveries' \in Seq(DOMAIN positions')
         /\ DOMAIN deliveries = 1 .. Len(deliveries) /\ Len(deliveries) \in Nat
         /\ DOMAIN deliveries' = 1 .. Len(deliveries')
         /\ \A d \in 1 .. Len(deliveries) :
              deliveries'[d] = deliveries[d] /\ deliveries[d] \in 1 .. Len(positions)
         /\ options.enqueue => /\ Len(deliveries') = Len(deliveries) + 1
                               /\ deliveries'[Len(deliveries) + 1] = Len(positions) + 1
         /\ ~ options.enqueue => deliveries' = deliveries
<1>1. PICK new : new = Len(positions) + 1
  OBVIOUS
<1>2. /\ Len(positions') = new /\ Len(positions) \in Nat
      /\ DOMAIN positions = 1 .. Len(positions) /\ DOMAIN positions' = 1 .. new
  BY <1>1, PositionAdded
<1>3. deliveries \in Seq(1 .. Len(positions)) /\ 1 .. Len(positions) \subseteq 1 .. new
  BY <1>1, <1>2 DEF TypeOK
<1>4. deliveries \in Seq(1 .. new) /\ new \in 1 .. new
  BY <1>1, <1>2, <1>3, SeqMonotonic
<1>5. /\ DOMAIN deliveries = 1 .. Len(deliveries) /\ Len(deliveries) \in Nat
      /\ \A d \in 1 .. Len(deliveries) : deliveries[d] \in 1 .. Len(positions)
  BY <1>3, ElementOfSeq
<1>6. deliveries' = IF options.enqueue THEN Append(deliveries, new) ELSE deliveries
  BY <1>2 DEF ArchivePosition, Enqueue
<1>7. CASE options.enqueue
  <2>1. /\ deliveries' \in Seq(1 .. new) /\ Len(deliveries') = Len(deliveries) + 1
        /\ deliveries'[Len(deliveries) + 1] = new
        /\ \A d \in 1 .. Len(deliveries) : deliveries'[d] = deliveries[d]
    BY <1>4, <1>6, <1>7, AppendProperties
  <2> QED
    BY <1>1, <1>2, <1>5, <1>7, <2>1
<1>8. CASE ~ options.enqueue
  BY <1>2, <1>4, <1>5, <1>6, <1>8
<1> QED
  BY <1>7, <1>8

\* What RememberNode does to the positions.
LEMMA PositionsRenamed ==
  ASSUME TypeOK, HandInv, RememberNode
  PROVE  /\ positions' \in Seq(Positions) /\ Len(positions') = Len(positions)
         /\ DOMAIN positions' = DOMAIN positions
         /\ \A p \in DOMAIN positions :
              /\ positions'[p].report = positions[p].report
              /\ positions'[p].time = positions[p].time
              /\ positions'[p].packet = positions[p].packet
              /\ positions'[p].callsign =
                   IF /\ Called(Message.user) # Blank
                      /\ positions[p].report.node = Message.node
                      /\ positions[p].callsign = Fallback
                   THEN Called(Message.user) ELSE positions[p].callsign
<1>1. Called(Message.user) \in Names \cup {Blank}
  BY CalledType DEF HandInv, RememberNode
<1>2. /\ positions \in Seq(Positions) /\ DOMAIN positions = 1 .. Len(positions)
      /\ Len(positions) \in Nat
      /\ \A p \in 1 .. Len(positions) : positions[p] \in Positions
  BY ElementOfSeq DEF TypeOK
<1>3. /\ DOMAIN positions' = 1 .. Len(positions)
      /\ \A p \in 1 .. Len(positions) :
           positions'[p] = IF /\ Called(Message.user) # Blank
                              /\ positions[p].report.node = Message.node
                              /\ positions[p].callsign = Fallback
                           THEN [positions[p] EXCEPT !.callsign = Called(Message.user)]
                           ELSE positions[p]
      /\ positions' = [p \in 1 .. Len(positions) |-> positions'[p]]
  BY <1>2 DEF RememberNode
<1>4. \A p \in 1 .. Len(positions) : positions'[p] \in Positions
  BY <1>1, <1>2, <1>3 DEF Positions
<1>5. positions' \in Seq(Positions) /\ Len(positions') = Len(positions)
  BY <1>2, <1>3, <1>4
<1>6. \A p \in DOMAIN positions :
        /\ positions'[p].report = positions[p].report
        /\ positions'[p].time = positions[p].time
        /\ positions'[p].packet = positions[p].packet
        /\ positions'[p].callsign =
             IF /\ Called(Message.user) # Blank
                /\ positions[p].report.node = Message.node
                /\ positions[p].callsign = Fallback
             THEN Called(Message.user) ELSE positions[p].callsign
  BY <1>2, <1>3 DEF Positions
<1> QED
  BY <1>2, <1>3, <1>5, <1>6

LEMMA TypeStep == TypeOK /\ HandInv /\ [Next]_vars => TypeOK' /\ HandInv'
<1> SUFFICES ASSUME TypeOK, HandInv, [Next]_vars PROVE TypeOK' /\ HandInv'
  OBVIOUS
<1>0. [sec |-> 0, frac |-> 0] \in Clock /\ Fallback \in Names \cup {Fallback}
  BY IngestAssumption DEF Clock
<1>1. ASSUME NEW m \in Messages, Receive(m) PROVE TypeOK' /\ HandInv'
  <2>1. /\ received' \in Seq(Messages) /\ Len(received') = Len(received) + 1
        /\ DOMAIN received = 1 .. Len(received) /\ DOMAIN received' = 1 .. Len(received')
        /\ Len(received) \in Nat
    BY <1>1, AppendProperties DEF Receive, TypeOK
  <2>2. Rows \subseteq Rows'
    BY <2>1 DEF Rows
  <2>3. packets \in Seq(Rows')
    BY <2>2, SeqMonotonic DEF TypeOK, Rows
  <2>4. packets' \in Seq(Rows')
    BY <1>1, <2>3 DEF Receive, database
  <2>5. Len(received') > 0 /\ Len(received') \notin lost'
    BY <1>1, <2>1 DEF Receive, TypeOK
  <2> QED
    BY <1>1, <2>1, <2>4, <2>5 DEF Receive, TypeOK, HandInv, Stages, Rows, database
<1>2. CASE StoreFails
  BY <1>0, <1>2 DEF StoreFails, Forget, TypeOK, HandInv, Stages, radio, database
<1>3. CASE RetryHandle
  BY <1>3 DEF RetryHandle, TypeOK, HandInv, Stages, radio, database
<1>4. CASE HandleStatus \/ HandleNode \/ HandleNodeInfo \/ HandleOther
  <2>1. Message \in Messages
    BY <1>4, MessageType DEF HandleStatus, HandleNode, HandleNodeInfo, HandleOther, HandInv
  <2>2. /\ pc' \in {"read", "remember", "archive"}
        /\ pc' = "remember" => Message.kind \in {"node", "nodeinfo"} /\ Message.user # NoUser
        /\ pc' = "archive" => Message.kind \in {"nodeinfo", "report", "other"}
        /\ pc = "handle"
        /\ UNCHANGED <<now, radio, options, database, receivedAt, callsign>>
    BY <1>4 DEF HandleStatus, HandleNode, HandleNodeInfo, HandleOther, Continue
  <2>3. pc' = "remember" => Message.user \in Users
    BY <2>1, <2>2, MessageFields
  <2>4. Message' = Message
    BY <2>2 DEF Message, radio
  <2> QED
    BY <2>2, <2>3, <2>4 DEF TypeOK, HandInv, Stages, radio, database
<1>5. CASE HandlePosition
  <2>1. Message \in Messages
    BY <1>5, MessageType DEF HandlePosition, HandInv
  <2>2. Message.kind = "report" /\ Message.report \in Reports
    BY <1>5, <2>1, MessageFields DEF HandlePosition, IsPosition
  <2>3. callsign' \in Names \cup {Fallback} /\ receivedAt' \in Clock
    BY <1>5, <2>2, ReportFields DEF HandlePosition, TypeOK
  <2>4. Message' = Message /\ UNCHANGED options
    BY <1>5 DEF HandlePosition, Continue, Message, radio
  <2> QED
    BY <1>5, <2>2, <2>3, <2>4
    DEF HandlePosition, Continue, TypeOK, HandInv, Stages, IsPosition, radio, database
<1>6. CASE NameSource
  <2>1. Message \in Messages /\ Message.kind = "report"
    BY <1>6, MessageType DEF NameSource, HandInv, IsPosition
  <2>2. Message.report.node \in Nodes
    BY <2>1, MessageFields, ReportFields
  <2>3. HasName(Message.report.node) => Called(meshNodes[Message.report.node]) \in Names
    BY <2>2, CalledType DEF HasName, TypeOK
  <2>4. callsign' \in Names \cup {Fallback}
    BY <1>6, <2>3 DEF NameSource, TypeOK
  <2>5. Message' = Message
    BY <1>6 DEF NameSource, Continue, Message, radio
  <2> QED
    BY <1>6, <2>1, <2>4, <2>5 DEF NameSource, Continue, TypeOK, HandInv, Stages, radio, database
<1>7. CASE RememberNode
  <2>1. Message \in Messages /\ Message' = Message
    BY <1>7, MessageType DEF RememberNode, HandInv, Message, radio
  <2>2. Message.node \in Nodes /\ Message.user \in Users
    BY <1>7, <2>1, MessageFields DEF RememberNode, HandInv
  <2>3. meshNodes' \in [Nodes -> Users \cup {NoUser}]
    BY <1>7, <2>2 DEF RememberNode, TypeOK
  <2>4. \A p \in DOMAIN positions' : positions'[p].packet \in DOMAIN packets
    BY <1>7, PositionsRenamed DEF TypeOK
  <2>5. TypeOK'
    BY <1>7, <2>3, <2>4, PositionsRenamed DEF RememberNode, TypeOK, Stages, radio
  <2> QED
    BY <1>7, <2>1, <2>5 DEF RememberNode, HandInv, radio
<1>8. CASE ArchivePacket
  <2>1. packets' \in Seq(Rows') /\ DOMAIN packets \subseteq DOMAIN packets'
    BY <1>8, PacketAdded DEF ArchivePacket, radio
  <2> QED
    BY <1>0, <1>8, <2>1 DEF ArchivePacket, Forget, TypeOK, HandInv, Stages, Rows, radio
<1>9. CASE ArchivePosition
  <2>1. /\ packets' \in Seq(Rows') /\ DOMAIN packets \subseteq DOMAIN packets'
        /\ Len(packets') \in DOMAIN packets'
    BY <1>9, PacketAdded DEF ArchivePosition, radio
  <2>2. \A p \in DOMAIN positions' : positions'[p].packet \in DOMAIN packets'
    <3>1. \A p \in 1 .. Len(positions) : positions'[p].packet \in DOMAIN packets'
      BY <1>9, <2>1, PositionAdded DEF TypeOK
    <3>2. positions'[Len(positions) + 1].packet = Len(packets')
      BY <1>9, PositionAdded
    <3>3. \A p \in DOMAIN positions' : p \in 1 .. Len(positions) \/ p = Len(positions) + 1
      BY <1>9, PositionAdded
    <3> QED
      BY <2>1, <3>1, <3>2, <3>3
  <2>3. deliveries' \in Seq(DOMAIN positions')
    BY <1>9, DeliveryAdded
  <2>4. pc' \in {"read", "wake"}
    BY <1>9 DEF ArchivePosition, AfterArchive
  <2> QED
    BY <1>0, <1>9, <2>1, <2>2, <2>3, <2>4, PositionAdded
    DEF ArchivePosition, Forget, TypeOK, HandInv, Stages, Rows, radio
<1>10. CASE WakeDeliveries
  BY <1>10 DEF WakeDeliveries, Continue, TypeOK, HandInv, Stages, radio, database
<1>11. CASE Crash
  <2>1. lost' \subseteq DOMAIN received
    BY <1>11, MessageType DEF Crash, TypeOK, HandInv, Stages
  <2> QED
    BY <1>0, <1>11, <2>1 DEF Crash, Forget, TypeOK, HandInv, Stages, database
<1>12. CASE Restart
  BY <1>12 DEF Restart, TypeOK, HandInv, Stages, radio, database
<1>13. CASE ClockTicks
  BY <1>13 DEF ClockTicks, TypeOK, HandInv, Message, IsPosition, radio, database
<1>14. CASE UNCHANGED vars
  BY <1>14 DEF vars, TypeOK, HandInv, Message, IsPosition
<1> QED
  BY <1>1, <1>2, <1>3, <1>4, <1>5, <1>6, <1>7, <1>8, <1>9, <1>10, <1>11, <1>12, <1>13, <1>14
  DEF Next

LEMMA TypesHold == Spec => [](TypeOK /\ HandInv)
  BY TypeInit, TypeStep, PTL DEF Spec

\* Intake keeps its types: every row of a position names a row of a packet, and
\* every delivery a position.
THEOREM TypeCorrect == Spec => []TypeOK
  BY TypesHold, PTL

-----------------------------------------------------------------------------
(* A position, its packet and its delivery.                                *)

\* Steps that add no position leave what is stored of the others as it was.
StoredAlike ==
  /\ DOMAIN positions' = DOMAIN positions
  /\ \A p \in DOMAIN positions :
       /\ positions'[p].report = positions[p].report
       /\ positions'[p].time = positions[p].time
       /\ positions'[p].packet = positions[p].packet
  /\ deliveries' = deliveries
  /\ DOMAIN packets \subseteq DOMAIN packets'
  /\ \A j \in DOMAIN packets : packets'[j] = packets[j]
  /\ DOMAIN received \subseteq DOMAIN received'
  /\ \A i \in DOMAIN received : received'[i] = received[i]

LEMMA OthersStored ==
  ASSUME TypeOK, HandInv, [Next]_vars, ~ ArchivePosition
  PROVE  StoredAlike
<1>1. ASSUME NEW m \in Messages, Receive(m) PROVE StoredAlike
  <2>1. /\ DOMAIN received = 1 .. Len(received) /\ DOMAIN received' = 1 .. Len(received')
        /\ Len(received') = Len(received) + 1 /\ Len(received) \in Nat
        /\ \A i \in 1 .. Len(received) : received'[i] = received[i]
    BY <1>1, AppendProperties DEF Receive, TypeOK
  <2> QED
    BY <1>1, <2>1 DEF Receive, StoredAlike, database
<1>2. CASE RememberNode
  BY <1>2, PositionsRenamed DEF RememberNode, StoredAlike, radio
<1>3. CASE ArchivePacket
  BY <1>3, PacketAdded DEF ArchivePacket, StoredAlike, radio
<1>4. CASE UNCHANGED <<received, database>>
  BY <1>4 DEF StoredAlike, database
<1>5. CASE StoreFails \/ RetryHandle \/ HandleStatus \/ HandleNode \/ HandleNodeInfo
  BY <1>4, <1>5
  DEF StoreFails, RetryHandle, HandleStatus, HandleNode, HandleNodeInfo, Continue, radio
<1>6. CASE HandleOther \/ HandlePosition \/ NameSource \/ WakeDeliveries
  BY <1>4, <1>6 DEF HandleOther, HandlePosition, NameSource, WakeDeliveries, Continue, radio
<1>7. CASE Crash \/ Restart \/ ClockTicks \/ UNCHANGED vars
  BY <1>4, <1>7 DEF Crash, Restart, ClockTicks, vars, radio, database
<1> QED
  BY <1>1, <1>2, <1>3, <1>5, <1>6, <1>7 DEF Next

\* The row that ArchivePosition writes belongs to the message at hand.
LEMMA NewRow ==
  ASSUME TypeOK, HandInv, ArchivePosition
  PROVE  /\ packets'[Len(packets')] = Row
         /\ Row.message = Len(received) /\ Row.position = TRUE
         /\ Row.enqueue = options.enqueue
         /\ received'[Len(received)] = Message
         /\ Message \in Messages /\ Message.kind = "report" /\ Message.report \in Reports
<1>1. packets'[Len(packets')] = Row
  BY PacketAdded DEF ArchivePosition, radio
<1>2. Message \in Messages /\ Message.kind = "report"
  BY MessageType DEF HandInv, ArchivePosition, IsPosition
<1> QED
  BY <1>1, <1>2, MessageFields DEF ArchivePosition, Row, radio, Message

\* A position is archived in one transaction with the row of its packet and, if
\* CalTopo was enabled then, its delivery.
THEOREM PositionsComeWhole == Spec => []ArchivedAtOnce
<1>1. Init => ArchivedAtOnce
  BY EmptySeq DEF Init, ArchivedAtOnce
<1>2. TypeOK /\ HandInv /\ ArchivedAtOnce /\ [Next]_vars => ArchivedAtOnce'
  <2> SUFFICES ASSUME TypeOK, HandInv, ArchivedAtOnce, [Next]_vars PROVE ArchivedAtOnce'
    OBVIOUS
  <2>0. \A p \in DOMAIN positions :
          /\ positions[p].packet \in DOMAIN packets
          /\ packets[positions[p].packet].message \in DOMAIN received
    BY RowTypes DEF TypeOK
  <2>1. CASE ~ ArchivePosition
    BY <2>0, <2>1, OthersStored DEF StoredAlike, ArchivedAtOnce, HasDelivery
  <2>2. CASE ArchivePosition
    <3>0. PICK new : new = Len(positions) + 1
      OBVIOUS
    <3>1. /\ DOMAIN positions' = 1 .. new /\ Len(positions) \in Nat
          /\ DOMAIN positions = 1 .. Len(positions)
          /\ \A p \in 1 .. Len(positions) : positions'[p] = positions[p]
          /\ positions'[new].report = Message.report
          /\ positions'[new].packet = Len(packets')
      BY <2>2, <3>0, PositionAdded
    <3>2. \A j \in DOMAIN packets : packets'[j] = packets[j]
      BY <2>2, PacketAdded DEF ArchivePosition, radio
    <3>3. /\ received' = received
          /\ \A p \in 1 .. Len(positions) : HasDelivery(p)' <=> HasDelivery(p)
          /\ HasDelivery(new)' <=> options.enqueue
      <4>1. PICK last : last = Len(deliveries) + 1
        OBVIOUS
      <4>2. /\ DOMAIN deliveries = 1 .. Len(deliveries) /\ Len(deliveries) \in Nat
            /\ \A d \in 1 .. Len(deliveries) :
                 deliveries'[d] = deliveries[d] /\ deliveries[d] \in 1 .. Len(positions)
        BY <2>2, DeliveryAdded
      <4>3. new \notin 1 .. Len(positions)
        BY <3>0, <3>1
      <4>4. CASE options.enqueue
        <5>1. DOMAIN deliveries' = DOMAIN deliveries \cup {last} /\ deliveries'[last] = new
          BY <2>2, <3>0, <4>1, <4>2, <4>4, DeliveryAdded
        <5> QED
          BY <2>2, <4>2, <4>3, <4>4, <5>1 DEF ArchivePosition, radio, HasDelivery
      <4>5. CASE ~ options.enqueue
        <5>1. deliveries' = deliveries
          BY <2>2, <4>5, DeliveryAdded
        <5> QED
          BY <2>2, <4>2, <4>3, <4>5, <5>1 DEF ArchivePosition, radio, HasDelivery
      <4> QED
        BY <4>4, <4>5
    <3> DEFINE Whole(p) ==
                 LET row == packets[positions[p].packet]
                 IN  /\ row.position
                     /\ received[row.message].report = positions[p].report
                     /\ HasDelivery(p) <=> row.enqueue
    <3>4. ASSUME NEW p \in 1 .. Len(positions) PROVE Whole(p)'
      <4>1. HasDelivery(p)' <=> HasDelivery(p)
        BY <3>3
      <4>2. positions'[p] = positions[p] /\ p \in DOMAIN positions
        BY <3>1
      <4>3. packets'[positions[p].packet] = packets[positions[p].packet]
        BY <2>0, <3>2, <4>2
      <4>4. Whole(p)
        BY <4>2 DEF ArchivedAtOnce
      <4> QED
        BY <3>3, <4>1, <4>2, <4>3, <4>4
    <3>5. Whole(new)'
      <4>1. HasDelivery(new)' <=> options.enqueue
        BY <3>3
      <4>2. packets'[positions'[new].packet] = Row /\ Row.position /\ Row.enqueue = options.enqueue
        BY <2>2, <3>1, NewRow
      <4>3. received'[Row.message] = Message
        BY <2>2, <3>3, NewRow DEF Message
      <4>4. positions'[new].report = Message.report
        BY <3>1
      <4> QED
        BY <4>1, <4>2, <4>3, <4>4
    <3> QED
      BY <3>0, <3>1, <3>4, <3>5 DEF ArchivedAtOnce
  <2> QED
    BY <2>1, <2>2
<1> QED
  BY <1>1, <1>2, TypesHold, PTL DEF Spec

-----------------------------------------------------------------------------
(* Deduplication.                                                          *)

\* A packet with a time of its own gives it to its position.
TimesOwn ==
  \A p \in DOMAIN positions :
    positions[p].report.time # NoTime => positions[p].time = positions[p].report.time

\* A report that carries a time is one position, however often it comes and
\* however often an attempt to archive it was cut short.
THEOREM TimedReportsOnce == Spec => [](TimesOwn /\ OnePositionPerTimedReport)
<1>1. Init => TimesOwn /\ OnePositionPerTimedReport
  BY EmptySeq DEF Init, TimesOwn, OnePositionPerTimedReport
<1>2. TypeOK /\ HandInv /\ TimesOwn /\ OnePositionPerTimedReport /\ [Next]_vars
        => TimesOwn' /\ OnePositionPerTimedReport'
  <2> SUFFICES ASSUME TypeOK, HandInv, TimesOwn, OnePositionPerTimedReport, [Next]_vars
               PROVE  TimesOwn' /\ OnePositionPerTimedReport'
    OBVIOUS
  <2>1. CASE ~ ArchivePosition
    BY <2>1, OthersStored DEF StoredAlike, TimesOwn, OnePositionPerTimedReport
  <2>2. CASE ArchivePosition
    <3>0. PICK new : new = Len(positions) + 1
      OBVIOUS
    <3>1. /\ DOMAIN positions' = DOMAIN positions \cup {new}
          /\ new \notin DOMAIN positions
          /\ \A p \in DOMAIN positions : positions'[p] = positions[p]
          /\ positions'[new].report = Message.report
          /\ positions'[new].time = SourceTime(Message, receivedAt)
      BY <2>2, <3>0, PositionAdded
    <3>2. TimesOwn'
      BY <3>1 DEF TimesOwn, SourceTime
    <3>3. \A p \in DOMAIN positions :
            positions[p].report = Message.report => Message.report.time = NoTime
      BY <2>2 DEF ArchivePosition, Stored, SameKey, SourceTime, TimesOwn
    <3> QED
      BY <3>1, <3>2, <3>3 DEF OnePositionPerTimedReport
  <2> QED
    BY <2>1, <2>2
<1> QED
  BY <1>1, <1>2, TypesHold, PTL DEF Spec

\* Deduplication never takes one fix for another: each position handled is
\* there with its node, place and time.
THEOREM FixesAreKept == Spec => []EachFixKept
<1>1. Init => EachFixKept
  BY EmptySeq DEF Init, EachFixKept
<1>2. TypeOK /\ HandInv /\ EachFixKept /\ [Next]_vars => EachFixKept'
  <2> SUFFICES ASSUME TypeOK, HandInv, EachFixKept, [Next]_vars,
                      NEW j \in DOMAIN packets', packets'[j].position
               PROVE  \E p \in DOMAIN positions' :
                        /\ positions'[p].report.node = received'[packets'[j].message].report.node
                        /\ positions'[p].report.loc = received'[packets'[j].message].report.loc
                        /\ positions'[p].time =
                             SourceTime(received'[packets'[j].message], positions'[p].time)
    BY DEF EachFixKept, SourceTime
  <2>1. CASE j \in DOMAIN packets
    <3>1. /\ \A p \in DOMAIN positions :
               /\ p \in DOMAIN positions'
               /\ positions'[p].report = positions[p].report
               /\ positions'[p].time = positions[p].time
          /\ packets'[j] = packets[j]
          /\ received'[packets[j].message] = received[packets[j].message]
      <4>1. CASE ArchivePosition
        BY <2>1, <4>1, PositionAdded, PacketAdded DEF ArchivePosition, radio
      <4>2. CASE ~ ArchivePosition
        BY <2>1, <4>2, OthersStored, RowTypes DEF StoredAlike
      <4> QED
        BY <4>1, <4>2
    <3>2. PICK p \in DOMAIN positions :
            /\ positions[p].report.node = received[packets[j].message].report.node
            /\ positions[p].report.loc = received[packets[j].message].report.loc
            /\ positions[p].time = SourceTime(received[packets[j].message], positions[p].time)
      BY <2>1, <3>1 DEF EachFixKept
    <3> QED
      BY <3>1, <3>2
  <2>2. CASE j \notin DOMAIN packets /\ ArchivePosition
    <3>1. j = Len(packets') /\ packets'[j].message = Len(received)
      BY <2>2, PacketAdded, NewRow DEF ArchivePosition, radio
    <3>2. PICK p \in DOMAIN positions' :
            /\ positions'[p].report = Message.report
            /\ positions'[p].time = SourceTime(Message, receivedAt)
      BY <2>2, PositionAdded
    <3> QED
      BY <2>2, <3>1, <3>2, NewRow DEF SourceTime
  <2>3. CASE j \notin DOMAIN packets /\ ArchivePacket
    <3>1. /\ j = Len(packets') /\ packets'[j] = Row /\ Row.message = Len(received)
          /\ Row.position = IsPosition(Message)
          /\ received' = received /\ positions' = positions
      BY <2>3, PacketAdded DEF ArchivePacket, Row, radio
    <3>2. PICK p \in DOMAIN positions :
            SameKey(positions[p], Message.report, SourceTime(Message, receivedAt))
      BY <2>3, <3>1 DEF ArchivePacket, Stored
    <3> QED
      BY <3>1, <3>2 DEF Message, SameKey, SourceTime
  <2>4. CASE ~ ArchivePacket /\ ~ ArchivePosition
    <3>1. packets' = packets
      BY <2>4
      DEF Next, Receive, StoreFails, RetryHandle, HandleStatus, HandleNode, HandleNodeInfo,
          HandleOther, HandlePosition, NameSource, RememberNode, WakeDeliveries, Crash,
          Restart, ClockTicks, Continue, database, vars
    <3> QED
      BY <2>1, <3>1
  <2> QED
    BY <2>1, <2>2, <2>3, <2>4
<1> QED
  BY <1>1, <1>2, TypesHold, PTL DEF Spec

-----------------------------------------------------------------------------
(* Callsigns.                                                              *)

\* c is a right callsign for a report.
Right(report, c) ==
  IF report.callsign # Fallback
  THEN c = report.callsign
  ELSE HasName(report.node) => c # Fallback

\* So is the one that Archive is about to store.
CallsignReady ==
  /\ pc = "name" => callsign = Fallback /\ Message.report.callsign = Fallback
  /\ pc = "archive" /\ IsPosition(Message) => Right(Message.report, callsign)

\* The positions of a node are called by its name as soon as it has one, and a
\* callsign that a packet gave is never replaced.
THEOREM CallsignsStayRight == Spec => [](CallsignReady /\ CallsignsRight)
<1>1. Init => CallsignReady /\ CallsignsRight
  BY EmptySeq DEF Init, CallsignReady, CallsignsRight
<1>2. TypeOK /\ HandInv /\ CallsignReady /\ CallsignsRight /\ [Next]_vars
        => CallsignReady' /\ CallsignsRight'
  <2> SUFFICES ASSUME TypeOK, HandInv, CallsignReady, CallsignsRight, [Next]_vars
               PROVE  CallsignReady' /\ CallsignsRight'
    OBVIOUS
  <2>1. CASE RememberNode
    <3>0. /\ Message \in Messages /\ Message.node \in Nodes
          /\ Called(Message.user) \in Names \cup {Blank}
          /\ Message' = Message /\ ~ IsPosition(Message) /\ UNCHANGED options
      <4>1. Message \in Messages
        BY <2>1, MessageType DEF RememberNode, HandInv
      <4>2. Message.kind \in {"node", "nodeinfo"} /\ Message.user \in Users
        BY <2>1 DEF RememberNode, HandInv
      <4> QED
        BY <2>1, <4>1, <4>2, MessageFields, CalledType
        DEF RememberNode, Message, IsPosition, radio
    <3>1. \A n \in Nodes \ {Message.node} : HasName(n)' <=> HasName(n)
      BY <2>1, <3>0 DEF RememberNode, HasName, TypeOK
    <3>2. ASSUME NEW n, n = Message.node PROVE HasName(n)' => Called(Message.user) # Blank
      BY <2>1, <3>0, <3>2 DEF RememberNode, HasName, TypeOK
    <3>3. \A p \in DOMAIN positions :
            positions[p].report.node \in Nodes
      <4>1. \A p \in DOMAIN positions : positions[p] \in Positions
        BY ElementOfSeq DEF TypeOK
      <4> QED
        BY <4>1, ReportFields DEF Positions
    <3>4. Called(Message.user) # Blank => Called(Message.user) # Fallback
      BY <3>0, IngestAssumption
    <3>5. CallsignsRight'
      <4> SUFFICES ASSUME NEW p \in DOMAIN positions
                   PROVE  Right(positions[p].report, positions[p].callsign)'
        BY <2>1, PositionsRenamed DEF CallsignsRight, Right
      <4>1. /\ positions'[p].report = positions[p].report
            /\ positions'[p].callsign =
                 IF /\ Called(Message.user) # Blank
                    /\ positions[p].report.node = Message.node
                    /\ positions[p].callsign = Fallback
                 THEN Called(Message.user) ELSE positions[p].callsign
        BY <2>1, PositionsRenamed
      <4>2. CASE positions[p].report.callsign # Fallback
        BY <4>1, <4>2 DEF CallsignsRight, Right
      <4>3. CASE /\ positions[p].report.callsign = Fallback
                 /\ positions[p].report.node # Message.node
        BY <3>1, <3>3, <4>1, <4>3 DEF CallsignsRight, Right
      <4>4. CASE /\ positions[p].report.callsign = Fallback
                 /\ positions[p].report.node = Message.node
        BY <3>2, <3>4, <4>1, <4>4 DEF Right
      <4> QED
        BY <4>2, <4>3, <4>4
    <3>6. CallsignReady'
      <4>1. pc' # "name"
        BY <2>1 DEF RememberNode
      <4>2. ~ IsPosition(Message)'
        BY <3>0 DEF IsPosition
      <4> QED
        BY <4>1, <4>2 DEF CallsignReady
    <3> QED
      BY <3>5, <3>6
  <2>2. CASE ArchivePosition
    <3>0. PICK new : new = Len(positions) + 1
      OBVIOUS
    <3>1. /\ DOMAIN positions' = DOMAIN positions \cup {new}
          /\ \A p \in DOMAIN positions : positions'[p] = positions[p]
          /\ positions'[new].report = Message.report
          /\ positions'[new].callsign = callsign
      BY <2>2, <3>0, PositionAdded
    <3>2. Right(Message.report, callsign)
      BY <2>2 DEF ArchivePosition, CallsignReady
    <3>3. meshNodes' = meshNodes /\ pc' \notin {"name", "archive"}
      BY <2>2 DEF ArchivePosition, AfterArchive
    <3> QED
      BY <3>1, <3>2, <3>3 DEF CallsignsRight, CallsignReady, Right, HasName
  <2>3. ASSUME UNCHANGED <<meshNodes, positions>> PROVE CallsignsRight'
    BY <2>3 DEF CallsignsRight, HasName
  <2>4. CASE HandlePosition
    <3>1. /\ callsign' = Message.report.callsign /\ Message' = Message
          /\ pc' = IF callsign' = Fallback THEN "name" ELSE "archive"
          /\ UNCHANGED <<meshNodes, positions>>
      BY <2>4 DEF HandlePosition, Continue, Message, radio, database
    <3> QED
      BY <2>3, <3>1 DEF CallsignReady, Right
  <2>5. CASE NameSource
    <3>1. Message \in Messages /\ Message.kind = "report"
      BY <2>5, MessageType DEF NameSource, HandInv, IsPosition
    <3>2. Message.report.node \in Nodes
      BY <3>1, MessageFields, ReportFields
    <3>3. HasName(Message.report.node) => Called(meshNodes[Message.report.node]) \in Names
      BY <3>2, CalledType DEF HasName, TypeOK
    <3>4. /\ Message.report.callsign = Fallback
          /\ callsign' = IF HasName(Message.report.node)
                         THEN Called(meshNodes[Message.report.node]) ELSE callsign
          /\ Message' = Message /\ pc' = "archive"
          /\ UNCHANGED <<meshNodes, positions>>
      BY <2>5 DEF NameSource, CallsignReady, Continue, Message, radio, database
    <3> QED
      BY <2>3, <3>3, <3>4, IngestAssumption DEF CallsignReady, Right, HasName
  <2>6. CASE HandleStatus \/ HandleNode \/ HandleNodeInfo \/ HandleOther
    <3>1. /\ Message' = Message /\ UNCHANGED <<meshNodes, positions, options>>
          /\ pc' # "name"
          /\ pc' = "archive" => ~ IsPosition(Message)
      BY <2>6 DEF HandleStatus, HandleNode, HandleNodeInfo, HandleOther, Continue, Message,
                  IsPosition, radio, database
    <3> QED
      BY <2>3, <3>1 DEF CallsignReady, IsPosition
  <2>7. CASE ArchivePacket \/ StoreFails \/ RetryHandle \/ WakeDeliveries \/ Crash \/ Restart
    BY <2>3, <2>7
    DEF ArchivePacket, StoreFails, RetryHandle, WakeDeliveries, Crash, Restart, Continue,
        CallsignReady, database
  <2>8. ASSUME NEW m \in Messages, Receive(m) PROVE CallsignReady' /\ CallsignsRight'
    BY <2>3, <2>8 DEF Receive, CallsignReady, database
  <2>9. CASE ClockTicks \/ UNCHANGED vars
    <3>1. UNCHANGED <<pc, callsign, received, options, meshNodes, positions>>
      BY <2>9 DEF ClockTicks, vars, radio, database
    <3> QED
      BY <2>3, <3>1 DEF CallsignReady, Right, HasName, Message, IsPosition
  <2> QED
    BY <2>1, <2>2, <2>4, <2>5, <2>6, <2>7, <2>8, <2>9 DEF Next
<1> QED
  BY <1>1, <1>2, TypesHold, PTL DEF Spec

-----------------------------------------------------------------------------
(* One row for each packet.                                                *)

\* The packets that are to have a row.
ToArchive ==
  {i \in DOMAIN received : Handled(i) /\ received[i].kind \in {"nodeinfo", "report", "other"}}

\* A row was added for the message at hand, or its handling ended otherwise, or
\* neither happened.
LEMMA RowsFollow ==
  ASSUME TypeOK, HandInv, [Next]_vars
  PROVE  \/ /\ pc = "archive" /\ packets' = Append(packets, Row) /\ UNCHANGED received
            /\ ToArchive' = ToArchive \cup {Len(received)} /\ Len(received) \notin ToArchive
         \/ UNCHANGED packets /\ ToArchive' = ToArchive
            /\ \A i \in DOMAIN received : i \in DOMAIN received'
<1> USE DEF ToArchive, Handled
<1>0. /\ DOMAIN received = 1 .. Len(received) /\ Len(received) \in Nat
      /\ lost \subseteq DOMAIN received
  BY DEF TypeOK
<1>1. ASSUME NEW m \in Messages, Receive(m)
      PROVE  UNCHANGED packets /\ ToArchive' = ToArchive
             /\ \A i \in DOMAIN received : i \in DOMAIN received'
  <2>1. /\ DOMAIN received' = 1 .. Len(received) + 1 /\ Len(received') = Len(received) + 1
        /\ \A i \in 1 .. Len(received) : received'[i] = received[i]
    BY <1>1, AppendProperties DEF Receive, TypeOK
  <2>2. ToArchive' = {i \in DOMAIN received \ lost :
                        received[i].kind \in {"nodeinfo", "report", "other"}}
    BY <1>0, <1>1, <2>1 DEF Receive
  <2>3. ToArchive = {i \in DOMAIN received \ lost :
                       received[i].kind \in {"nodeinfo", "report", "other"}}
    BY <1>0, <1>1 DEF Receive
  <2> QED
    BY <1>0, <1>1, <2>1, <2>2, <2>3 DEF Receive, database
<1>2. CASE ArchivePacket \/ ArchivePosition
  <2>1. /\ pc = "archive" /\ pc' \in {"read", "wake"} /\ UNCHANGED radio
        /\ packets' = Append(packets, Row)
    BY <1>2 DEF ArchivePacket, ArchivePosition, AfterArchive
  <2>2. /\ Len(received) \in DOMAIN received \ lost
        /\ received[Len(received)].kind \in {"nodeinfo", "report", "other"}
    BY <1>0, <2>1 DEF HandInv, Message
  <2> QED
    BY <2>1, <2>2 DEF radio
<1>3. CASE HandleStatus
  <2>1. /\ pc = "handle" /\ pc' = "read" /\ UNCHANGED <<received, lost, packets>>
        /\ received[Len(received)].kind = "status"
    BY <1>3 DEF HandleStatus, Continue, Message, radio, database
  <2> QED
    BY <2>1
<1>4. CASE HandleNode
  <2>1. /\ pc = "handle" /\ pc' \in {"read", "remember"} /\ UNCHANGED <<received, lost, packets>>
        /\ received[Len(received)].kind = "node"
    BY <1>4 DEF HandleNode, Continue, Message, radio, database
  <2> QED
    BY <2>1
<1>5. CASE RememberNode
  <2>1. /\ pc = "remember" /\ pc' \in {"read", "archive"} /\ UNCHANGED <<received, lost, packets>>
        /\ pc' = "read" => received[Len(received)].kind = "node"
    BY <1>5 DEF RememberNode, Message, radio
  <2> QED
    BY <2>1
<1>6. CASE \/ HandleNodeInfo \/ HandleOther \/ HandlePosition
           \/ NameSource \/ StoreFails \/ RetryHandle
  <2>1. /\ pc \in {"handle", "remember", "name", "archive", "paused"}
        /\ pc' \in {"handle", "remember", "name", "archive", "paused"}
        /\ UNCHANGED <<received, lost, packets>>
    BY <1>6 DEF HandleNodeInfo, HandleOther, HandlePosition, NameSource, StoreFails, RetryHandle,
                Continue, radio, database
  <2> QED
    BY <2>1
<1>7. CASE WakeDeliveries \/ Restart
  <2>1. /\ pc \in {"wake", "down"} /\ pc' = "read" /\ UNCHANGED <<received, lost, packets>>
    BY <1>7 DEF WakeDeliveries, Restart, Continue, radio, database
  <2> QED
    BY <2>1
<1>8. CASE Crash
  <2>1. /\ pc' = "down" /\ UNCHANGED <<received, packets>>
        /\ lost' = IF pc \in {"read", "wake"} THEN lost ELSE lost \cup {Len(received)}
        /\ pc \in Stages \ {"down"}
    BY <1>8 DEF Crash, database, TypeOK
  <2> QED
    BY <1>0, <2>1 DEF Stages
<1>9. CASE ClockTicks \/ UNCHANGED vars
  <2>1. UNCHANGED <<pc, received, lost, packets>>
    BY <1>9 DEF ClockTicks, vars, radio, database
  <2> QED
    BY <2>1
<1> QED
  BY <1>1, <1>2, <1>3, <1>4, <1>5, <1>6, <1>7, <1>8, <1>9 DEF Next

\* Whatever fails in between, each packet handled has one row, in the order of
\* arrival, and no packet lost in a crash has one.
THEOREM PacketsArchivedOnce == Spec => []EachPacketOnce
<1>1. Init => EachPacketOnce
  BY EmptySeq DEF Init, EachPacketOnce
<1>2. TypeOK /\ HandInv /\ EachPacketOnce /\ [Next]_vars => EachPacketOnce'
  <2> SUFFICES ASSUME TypeOK, HandInv, EachPacketOnce, [Next]_vars PROVE EachPacketOnce'
    OBVIOUS
  <2>0. /\ {packets[j].message : j \in DOMAIN packets} = ToArchive
        /\ \A j \in 1 .. (Len(packets) - 1) : packets[j].message < packets[j + 1].message
    BY DEF EachPacketOnce, ToArchive
  <2>1. CASE UNCHANGED packets /\ ToArchive' = ToArchive
    <3>1. /\ {packets'[j].message : j \in DOMAIN packets'} = ToArchive'
          /\ \A j \in 1 .. (Len(packets') - 1) : packets'[j].message < packets'[j + 1].message
      BY <2>0, <2>1
    <3> QED
      BY <3>1 DEF EachPacketOnce, ToArchive
  <2>2. CASE /\ pc = "archive" /\ packets' = Append(packets, Row) /\ UNCHANGED received
             /\ ToArchive' = ToArchive \cup {Len(received)} /\ Len(received) \notin ToArchive
    <3>0. PICK new : new = Len(packets) + 1
      OBVIOUS
    <3>1. /\ DOMAIN packets = 1 .. Len(packets) /\ Len(packets) \in Nat
          /\ DOMAIN packets' = 1 .. new /\ Len(packets') = new
          /\ \A j \in 1 .. Len(packets) : packets'[j] = packets[j]
          /\ packets'[new].message = Len(received)
      BY <2>2, <3>0, PacketAdded DEF Row
    <3>2. \A j \in DOMAIN packets : packets[j].message < Len(received)
      <4>1. \A j \in DOMAIN packets : packets[j].message \in DOMAIN received
        BY RowTypes
      <4>2. \A j \in DOMAIN packets : packets[j].message # Len(received)
        BY <2>0, <2>2
      <4>3. DOMAIN received = 1 .. Len(received) /\ Len(received) \in Nat
        BY DEF TypeOK
      <4> QED
        BY <4>1, <4>2, <4>3
    <3>3. \A j \in 1 .. (Len(packets') - 1) : packets'[j].message < packets'[j + 1].message
      <4> SUFFICES ASSUME NEW j \in 1 .. (new - 1)
                   PROVE  packets'[j].message < packets'[j + 1].message
        BY <3>1
      <4>1. CASE j = Len(packets)
        BY <3>0, <3>1, <3>2, <4>1
      <4>2. CASE j # Len(packets)
        <5>1. PICK n \in Nat : n = Len(packets) /\ new = n + 1
          BY <3>0, <3>1
        <5>2. j \in 1 .. (n - 1) /\ j + 1 \in 1 .. n
          BY <4>2, <5>1
        <5> QED
          BY <2>0, <3>1, <5>1, <5>2
      <4> QED
        BY <4>1, <4>2
    <3>4. {packets'[j].message : j \in DOMAIN packets'} = ToArchive \cup {Len(received)}
      <4>1. DOMAIN packets' = DOMAIN packets \cup {new} /\ new \notin DOMAIN packets
        BY <3>0, <3>1
      <4> QED
        BY <2>0, <3>1, <4>1
    <3> QED
      BY <2>2, <3>3, <3>4 DEF EachPacketOnce, ToArchive
  <2> QED
    BY <2>1, <2>2, RowsFollow
<1> QED
  BY <1>1, <1>2, TypesHold, PTL DEF Spec

-----------------------------------------------------------------------------
(* Intake implements OutboxFeed.                                           *)

queue == [d \in DOMAIN deliveries |-> Fix(deliveries[d])]

\* Steps that add no position leave the queue as it is.
LEMMA QueueStays ==
  ASSUME TypeOK, HandInv, [Next]_vars, ~ ArchivePosition
  PROVE  queue' = queue
<1>1. \A d \in DOMAIN deliveries : deliveries[d] \in DOMAIN positions
  BY ElementOfSeq DEF TypeOK
<1>2. StoredAlike
  BY OthersStored
<1>3. \A d \in DOMAIN deliveries : Fix(deliveries[d])' = Fix(deliveries[d])
  BY <1>1, <1>2 DEF StoredAlike, Fix
<1> QED
  BY <1>2, <1>3 DEF StoredAlike, queue

\* The new fix comes last in the queue, and is not there yet: it has no twin
\* among the positions.
LEMMA QueueGrows ==
  ASSUME TypeOK, HandInv, ArchivePosition, options.enqueue
  PROVE  /\ Len(queue') = Len(queue) + 1
         /\ SubSeq(queue', 1, Len(queue)) = queue
         /\ \A d \in DOMAIN queue : queue[d] # queue'[Len(queue')]
<1>0. PICK last : last = Len(deliveries) + 1
  OBVIOUS
<1>1. PICK new : new = Len(positions) + 1
  OBVIOUS
<1>2. /\ DOMAIN deliveries = 1 .. Len(deliveries) /\ Len(deliveries) \in Nat
      /\ DOMAIN deliveries' = 1 .. last
      /\ \A d \in 1 .. Len(deliveries) :
           deliveries'[d] = deliveries[d] /\ deliveries[d] \in DOMAIN positions
      /\ deliveries'[last] = new
  BY <1>0, <1>1, DeliveryAdded, PositionAdded
<1>3. /\ \A p \in DOMAIN positions : positions'[p] = positions[p]
      /\ positions'[new].report = Message.report
      /\ positions'[new].time = SourceTime(Message, receivedAt)
  BY <1>1, PositionAdded
<1> DEFINE FixAfter(p) == [node |-> positions'[p].report.node, loc |-> positions'[p].report.loc,
                           time |-> positions'[p].time]
<1>4. \A p \in DOMAIN positions : FixAfter(p) = Fix(p)
  BY <1>3 DEF Fix
<1>5. \A p \in DOMAIN positions : Fix(p) # FixAfter(new)
  BY <1>3 DEF ArchivePosition, Stored, SameKey, Fix
<1>6. /\ queue = [d \in 1 .. Len(deliveries) |-> Fix(deliveries[d])]
      /\ queue' = [d \in 1 .. last |-> FixAfter(deliveries'[d])]
  BY <1>2 DEF queue, Fix
<1> HIDE DEF queue, FixAfter
<1>7. Len(queue) = Len(deliveries) /\ Len(queue') = last
  BY <1>0, <1>2, <1>6
<1>8. \A d \in 1 .. Len(queue) : queue'[d] = queue[d]
  BY <1>0, <1>2, <1>4, <1>6, <1>7
<1>9. SubSeq(queue', 1, Len(queue)) = queue
  <2>1. SubSeq(queue', 1, Len(queue)) = [d \in 1 .. Len(queue) |-> queue'[d]]
    BY <1>0, <1>2, <1>6, <1>7
  <2> QED
    BY <1>2, <1>6, <1>7, <1>8, <2>1
<1>10. \A d \in DOMAIN queue : queue[d] # queue'[Len(queue')]
  BY <1>0, <1>2, <1>5, <1>6, <1>7
<1> QED
  BY <1>0, <1>7, <1>9, <1>10

LEMMA FeedStep ==
  ASSUME TypeOK, HandInv, [Next]_vars
  PROVE  [Feed!FeedNext]_<<queue, pc = "wake">>
<1> USE DEF Feed!FeedNext, Feed!Put, Feed!Woken, queue
<1>1. CASE ArchivePosition /\ options.enqueue
  <2>1. pc = "archive" /\ pc' = "wake"
    BY <1>1 DEF ArchivePosition, AfterArchive
  <2> QED
    BY <1>1, <2>1, QueueGrows
<1>2. CASE ArchivePosition /\ ~ options.enqueue
  <2>1. pc = "archive" /\ pc' = "read" /\ deliveries' = deliveries
    BY <1>2 DEF ArchivePosition, AfterArchive, Enqueue
  <2>2. \A d \in DOMAIN deliveries : Fix(deliveries[d])' = Fix(deliveries[d])
    <3>1. \A d \in DOMAIN deliveries : deliveries[d] \in DOMAIN positions
      BY ElementOfSeq DEF TypeOK
    <3> QED
      BY <1>2, <2>1, <3>1, PositionAdded DEF Fix
  <2> QED
    BY <2>1, <2>2
<1>3. CASE WakeDeliveries \/ Crash
  <2>1. queue' = queue /\ pc' # "wake"
    BY <1>3, QueueStays
    DEF WakeDeliveries, Crash, Continue, ArchivePosition, Next, AfterArchive
  <2> QED
    BY <2>1
<1>4. CASE ~ (ArchivePosition \/ WakeDeliveries \/ Crash)
  <2>1. queue' = queue
    BY <1>4, QueueStays
  <2>2. (pc = "wake") <=> (pc' = "wake")
    BY <1>4
    DEF Next, Receive, StoreFails, RetryHandle, HandleStatus, HandleNode, HandleNodeInfo,
        HandleOther, HandlePosition, NameSource, RememberNode, ArchivePacket, Restart,
        ClockTicks, Continue, vars
  <2> QED
    BY <2>1, <2>2
<1> QED
  BY <1>1, <1>2, <1>3, <1>4

(***************************************************************************)
(* Intake feeds the outbox in the steps the worker admits (IntakeAdmitted  *)
(* of DeliveryProofs): each fix is enqueued once, at the end, and a        *)
(* wake-up or the end of the process comes before the next one.            *)
(***************************************************************************)
THEOREM OutboxIsFed == Spec => FeedsTheOutbox
<1>1. Init => Feed!FeedInit
  BY EmptySeq DEF Init, Feed!FeedInit
<1>2. TypeOK /\ HandInv /\ [Next]_vars => [Feed!FeedNext]_<<queue, pc = "wake">>
  BY FeedStep
<1> QED
  BY <1>1, <1>2, TypesHold, PTL DEF Spec, FeedsTheOutbox, Feed!FeedSpec, queue

-----------------------------------------------------------------------------
(* The positions API.                                                      *)

\* The times a position may have.
SourceTimes == ({r.time : r \in Reports} \ {NoTime}) \cup Clock

\* What the map page rests on: the texts of these times sort as the times do.
TextsSort == SortAsTexts(SourceTimes)

\* Times of whole seconds satisfy it.
LEMMA WholeTimesSort ==
  ASSUME ClockFractions = {0},
         \A r \in Reports : r.time # NoTime => r.time.frac = 0
  PROVE  TextsSort
<1>1. SourceTimes \subseteq Instants
  BY ReportFields, ClockInstants DEF SourceTimes
<1>2. \A t \in SourceTimes : t.frac = 0
  BY DEF SourceTimes, Clock
<1> QED
  BY <1>1, <1>2, WholeSecondsSortAsTexts DEF TextsSort

\* Then the query compares times.
LEMMA TextsAsTimes ==
  ASSUME TextsSort, NEW s \in SourceTimes, NEW t \in SourceTimes
  PROVE  TextBefore(s, t) <=> Before(s, t)
<1>1. SourceTimes \subseteq Instants
  BY ReportFields, ClockInstants DEF SourceTimes
<1> QED
  BY <1>1, TextOrderIsOrder DEF TextsSort

TimesKnown == \A p \in DOMAIN positions : positions[p].time \in SourceTimes

LEMMA TimesStayKnown == Spec => []TimesKnown
<1>1. Init => TimesKnown
  BY EmptySeq DEF Init, TimesKnown
<1>2. TypeOK /\ HandInv /\ TimesKnown /\ [Next]_vars => TimesKnown'
  <2> SUFFICES ASSUME TypeOK, HandInv, TimesKnown, [Next]_vars PROVE TimesKnown'
    OBVIOUS
  <2>1. CASE ~ ArchivePosition
    BY <2>1, OthersStored DEF StoredAlike, TimesKnown, SourceTimes
  <2>2. CASE ArchivePosition
    <3>0. PICK new : new = Len(positions) + 1
      OBVIOUS
    <3>1. /\ DOMAIN positions' = DOMAIN positions \cup {new}
          /\ \A p \in DOMAIN positions : positions'[p] = positions[p]
          /\ positions'[new].time = SourceTime(Message, receivedAt)
      BY <2>2, <3>0, PositionAdded
    <3>2. Message.report \in Reports /\ Message.rx \in Clock \cup {NoTime} /\ receivedAt \in Clock
      BY <2>2, NewRow, MessageFields, ClockInstants DEF TypeOK
    <3>3. SourceTime(Message, receivedAt) \in SourceTimes
      <4>1. /\ SourceTime(Message, receivedAt)
                 \in {Message.report.time, Message.rx, receivedAt}
            /\ SourceTime(Message, receivedAt) # NoTime
        BY <3>2, ClockInstants, IngestAssumption DEF SourceTime
      <4>2. Message.report.time \in {r.time : r \in Reports}
        BY <3>2
      <4> QED
        BY <3>2, <4>1, <4>2 DEF SourceTimes
    <3> QED
      BY <3>1, <3>3 DEF TimesKnown, SourceTimes
  <2> QED
    BY <2>1, <2>2
<1> QED
  BY <1>1, <1>2, TypesHold, PTL DEF Spec

\* The page shows the latest position of each node.
THEOREM LatestIsShown == TextsSort => (Spec => []LatestShown)
<1> SUFFICES ASSUME TextsSort PROVE Spec => []LatestShown
  OBVIOUS
<1>1. TimesKnown => LatestShown
  <2> SUFFICES ASSUME TimesKnown, NEW n \in Nodes, NEW p \in Newest(n),
                      NEW q \in DOMAIN positions, positions[q].report.node = n
               PROVE  NotAfter(positions[q].time, positions[p].time)
    BY DEF LatestShown
  <2>1. p \in DOMAIN positions /\ ~ TextBefore(positions[p].time, positions[q].time)
    BY DEF Newest
  <2> QED
    BY <2>1, TextsAsTimes DEF TimesKnown, NotAfter
<1> QED
  BY <1>1, TimesStayKnown, PTL

(***************************************************************************)
(* When another position arrives, in whatever order, the page does not go  *)
(* back: it goes on showing what it showed, or shows the new position,     *)
(* which then is no older.                                                 *)
(***************************************************************************)
THEOREM MapOnlyGoesForward == TextsSort => (Spec => MapNeverGoesBack)
<1> SUFFICES ASSUME TextsSort PROVE Spec => MapNeverGoesBack
  OBVIOUS
<1>1. TypeOK /\ HandInv /\ TimesKnown /\ TimesKnown' /\ [Next]_vars =>
        \A n \in Nodes : \A p \in Newest(n) :
          \E q \in Newest(n)' : NotAfter(positions[p].time, positions'[q].time)
  <2> SUFFICES ASSUME TypeOK, HandInv, TimesKnown, TimesKnown', [Next]_vars,
                      NEW n \in Nodes, NEW p \in Newest(n)
               PROVE  \E q \in Newest(n)' : NotAfter(positions[p].time, positions'[q].time)
    OBVIOUS
  <2>0. /\ p \in DOMAIN positions /\ positions[p].report.node = n
        /\ \A q \in DOMAIN positions : positions[q].report.node = n =>
             /\ ~ Before(positions[p].time, positions[q].time)
             /\ ~ (positions[q].time = positions[p].time /\ p < q)
    BY TextsAsTimes DEF Newest, TimesKnown
  <2>1. \A t \in SourceTimes : t.sec \in Nat /\ t.frac \in Nat
    BY ReportFields, ClockInstants, InstantType DEF SourceTimes
  <2>2. ASSUME NEW q \in DOMAIN positions', positions'[q].report.node = n,
               NotAfter(positions[p].time, positions'[q].time),
               \A r \in DOMAIN positions' : positions'[r].report.node = n =>
                 /\ ~ Before(positions'[q].time, positions'[r].time)
                 /\ ~ (positions'[r].time = positions'[q].time /\ q < r)
        PROVE  \E s \in Newest(n)' : NotAfter(positions[p].time, positions'[s].time)
    <3>1. \A r \in DOMAIN positions' :
            /\ positions'[r].time \in SourceTimes /\ positions'[q].time \in SourceTimes
            /\ SourceTimes' = SourceTimes
      BY DEF TimesKnown, SourceTimes
    <3>2. \A r \in DOMAIN positions' : positions'[r].report.node = n =>
            ~ TextBefore(positions'[q].time, positions'[r].time)
      BY <2>2, <3>1, TextsAsTimes
    <3>3. q \in Newest(n)'
      BY <2>2, <3>2 DEF Newest
    <3> QED
      BY <2>2, <3>3
  <2>3. NotAfter(positions[p].time, positions[p].time)
    BY <2>0, <2>1 DEF NotAfter, Before, TimesKnown
  <2>4. CASE ~ ArchivePosition
    <3>1. /\ DOMAIN positions' = DOMAIN positions
          /\ \A q \in DOMAIN positions :
               /\ positions'[q].report = positions[q].report
               /\ positions'[q].time = positions[q].time
      BY <2>4, OthersStored DEF StoredAlike
    <3> QED
      BY <2>0, <2>2, <2>3, <3>1
  <2>5. CASE ArchivePosition
    <3>0. PICK new : new = Len(positions) + 1
      OBVIOUS
    <3>1. /\ DOMAIN positions' = DOMAIN positions \cup {new} /\ new \notin DOMAIN positions
          /\ \A q \in DOMAIN positions : q < new /\ positions'[q] = positions[q]
          /\ new \in Nat /\ DOMAIN positions \subseteq Nat
      BY <2>5, <3>0, PositionAdded
    <3>2. \A q \in DOMAIN positions' :
            positions'[q].time \in SourceTimes /\ positions'[q].time.sec \in Nat
              /\ positions'[q].time.frac \in Nat
      BY <2>1 DEF TimesKnown, SourceTimes
    <3>3. CASE positions'[new].report.node = n /\ ~ Before(positions'[new].time, positions[p].time)
      <4>1. \A r \in DOMAIN positions : positions[r].report.node = n =>
              ~ Before(positions'[new].time, positions[r].time)
        BY <2>0, <3>1, <3>2, <3>3 DEF Before
      <4>2. ~ Before(positions'[new].time, positions'[new].time)
        BY <3>1, <3>2 DEF Before
      <4>3. \A r \in DOMAIN positions' : ~ (new < r)
        BY <3>1
      <4> QED
        BY <2>2, <3>1, <3>3, <4>1, <4>2, <4>3 DEF NotAfter
    <3>4. CASE positions'[new].report.node # n
      BY <2>0, <2>2, <2>3, <3>1, <3>4
    <3>5. CASE Before(positions'[new].time, positions[p].time)
      <4>1. /\ ~ Before(positions[p].time, positions'[new].time)
            /\ positions'[new].time # positions[p].time
        BY <2>0, <3>1, <3>2, <3>5 DEF Before
      <4> QED
        BY <2>0, <2>2, <2>3, <3>1, <4>1
    <3> QED
      BY <3>3, <3>4, <3>5
  <2> QED
    BY <2>4, <2>5
<1> QED
  BY <1>1, TypesHold, TimesStayKnown, PTL DEF Spec, MapNeverGoesBack

\* A node with a position is on the page.
EachNodeShown ==
  \A n \in Nodes :
    (\E p \in DOMAIN positions : positions[p].report.node = n) => Newest(n) # {}

\* And no node is on it twice.
ShownOnce == \A n \in Nodes : \A p, q \in Newest(n) : p = q

(***************************************************************************)
(* The NOT EXISTS of Store.Positions loses no node: whatever the fractions *)
(* of its times, one of its rows has no newer one.                         *)
(***************************************************************************)
THEOREM NoNodeIsMissing == Spec => []EachNodeShown
<1>1. TypeOK => EachNodeShown
  <2> SUFFICES ASSUME TypeOK, NEW n \in Nodes, NEW p \in DOMAIN positions,
                      positions[p].report.node = n
               PROVE  Newest(n) # {}
    BY DEF EachNodeShown
  <2>1. PICK S : S = {q \in DOMAIN positions : positions[q].report.node = n}
    OBVIOUS
  <2>2. /\ Len(positions) \in Nat /\ S \in SUBSET (1 .. Len(positions)) /\ p \in S
        /\ \A q \in S : q \in Nat /\ positions[q].time \in Instants
    <3>1. DOMAIN positions = 1 .. Len(positions) /\ Len(positions) \in Nat
      BY DEF TypeOK
    <3>2. \A q \in DOMAIN positions : positions[q] \in Positions
      BY <3>1 DEF TypeOK
    <3> QED
      BY <2>1, <3>1, <3>2 DEF Positions
  <2>3. IsFiniteSet(S)
    <3>1. IsFiniteSet(1 .. Len(positions))
      BY <2>2, FS_Interval
    <3> QED
      BY <2>2, <3>1, FS_Subset, Zenon
  <2>4. PICK R : R = {x \in S \X S :
                        \/ TextBefore(positions[x[2]].time, positions[x[1]].time)
                        \/ positions[x[1]].time = positions[x[2]].time /\ x[2] < x[1]}
    OBVIOUS
  <2>5. /\ \A x \in S : <<x, x>> \notin R
        /\ \A x, y, z \in S : <<x, y>> \in R /\ <<y, z>> \in R => <<x, z>> \in R
    <3>1. \A x, y \in S :
            <<x, y>> \in R <=>
              \/ TextBefore(positions[y].time, positions[x].time)
              \/ positions[x].time = positions[y].time /\ y < x
      BY <2>4
    <3>2. \A x \in S : <<x, x>> \notin R
      BY <2>2, <3>1, TextOrderIsStrict
    <3>3. ASSUME NEW x \in S, NEW y \in S, NEW z \in S, <<x, y>> \in R, <<y, z>> \in R
          PROVE  <<x, z>> \in R
      BY <2>2, <3>1, <3>3, TextOrderIsStrict
    <3> QED
      BY <3>2, <3>3
  <2>6. PICK x \in S : \A y \in S : <<y, x>> \notin R
    BY ONLY <2>2, <2>3, <2>5, FirstElement
  <2>7. x \in Newest(n)
    BY <2>1, <2>4, <2>6 DEF Newest
  <2> QED
    BY <2>7
<1> QED
  BY <1>1, TypesHold, PTL

(***************************************************************************)
(* Where the texts sort as the times do, it is one row: two positions of a *)
(* node with the same time are told apart by their ids.                    *)
(***************************************************************************)
THEOREM OneRowPerNode == TextsSort => (Spec => [](EachNodeShown /\ ShownOnce))
<1> SUFFICES ASSUME TextsSort PROVE Spec => [](EachNodeShown /\ ShownOnce)
  OBVIOUS
<1>1. TypeOK /\ TimesKnown => ShownOnce
  <2> SUFFICES ASSUME TypeOK, TimesKnown, NEW n \in Nodes,
                      NEW p \in Newest(n), NEW q \in Newest(n)
               PROVE  p = q
    BY DEF ShownOnce
  <2>1. /\ p \in DOMAIN positions /\ q \in DOMAIN positions /\ p \in Nat /\ q \in Nat
        /\ ~ TextBefore(positions[p].time, positions[q].time)
        /\ ~ TextBefore(positions[q].time, positions[p].time)
        /\ ~ (positions[q].time = positions[p].time /\ (p < q \/ q < p))
    BY DEF Newest, TypeOK
  <2>2. PICK s, t : s = positions[p].time /\ t = positions[q].time
    OBVIOUS
  <2>3. s \in SourceTimes /\ t \in SourceTimes /\ ~ Before(s, t) /\ ~ Before(t, s)
    BY <2>1, <2>2, TextsAsTimes DEF TimesKnown
  <2>4. s \in Instants /\ t \in Instants
    BY <2>3, ReportFields, ClockInstants DEF SourceTimes
  <2>5. s = t
    BY <2>3, <2>4, InstantType DEF Before, Instants
  <2> QED
    BY <2>1, <2>2, <2>5
<1> QED
  BY <1>1, NoNodeIsMissing, TypesHold, TimesStayKnown, PTL

=============================================================================
