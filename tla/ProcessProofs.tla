----------------------------- MODULE ProcessProofs -----------------------------
(***************************************************************************)
(* Proofs about Process with Config and Migration, for any environments    *)
(* and command lines.                                                      *)
(***************************************************************************)
EXTENDS Process, TLAPS

-----------------------------------------------------------------------------
(* The store while it is opened.                                           *)

LEMMA SchemaLength == Len(Schema) = 10 /\ DOMAIN Schema = 1 .. 10
  BY DEF Schema

LEMMA AddedLength == Len(Added) = 3 /\ DOMAIN Added = 1 .. 3
  BY DEF Added

LEMMA HasPositions == "tak_positions" \in Objects
  BY DEF Objects, Schema

\* What holds at each stage of Open.
StageTruthful ==
  /\ stage = "schema" => \A i \in 1 .. (at - 1) : Schema[i] \in objects
  /\ stage \in {"query", "columns", "version2", "commit", "version3", "open"}
       => objects = Objects /\ 1 \in versions
  /\ stage \in {"columns", "version2"} =>
       txn.versions = versions /\ 2 \notin versions /\ columns \subseteq txn.columns
  /\ stage = "columns" => at \in 1 .. 3 /\ \A i \in 1 .. (at - 1) : Added[i] \in txn.columns
  /\ stage \in {"version2", "commit"} => txn.columns = Columns
  /\ stage = "commit" => txn.versions = versions \cup {2}
  /\ stage = "version3" => 2 \in versions

StoreInv == StoreTypeOK /\ VersionTruthful /\ StageTruthful

LEMMA StoreInvInit == StoreInit => StoreInv
<1> SUFFICES ASSUME StoreInit PROVE StoreInv
  OBVIOUS
<1>1. objects \subseteq Objects
  BY HasPositions DEF StoreInit, Objects, Schema
<1>2. columns \subseteq Columns /\ versions \subseteq 1 .. 3
  BY DEF StoreInit
<1>3. "tak_positions" \in Objects \ {"mesh_nodes"}
  BY HasPositions
<1> QED
  BY <1>1, <1>2, <1>3, SchemaLength
  DEF StoreInit, StoreInv, StoreTypeOK, VersionTruthful, StageTruthful, NoTxn, OpenStages

LEMMA StoreInvStep ==
  ASSUME StoreInv, OpenStep \/ OpenStore \/ CloseStore \/ UNCHANGED store
  PROVE  StoreInv'
<1> USE SchemaLength, AddedLength DEF disk
<1>0. StoreTypeOK /\ VersionTruthful /\ StageTruthful
  BY DEF StoreInv
<1>1. CASE CreateObject
  <2>1. Schema[at] \in Objects /\ at \in 1 .. 10
    BY <1>1 DEF CreateObject, Objects
  <2>2. /\ objects' = objects \cup {Schema[at]} /\ at' = at + 1 /\ stage = "schema"
        /\ columns' = IF Schema[at] = "tak_positions" /\ Schema[at] \notin objects
                      THEN Columns ELSE columns
        /\ UNCHANGED <<versions, txn, stage>>
    BY <1>1 DEF CreateObject
  <2>3. StoreTypeOK'
    BY <1>0, <2>1, <2>2 DEF StoreTypeOK
  <2>4. VersionTruthful'
    BY <1>0, <2>1, <2>2 DEF VersionTruthful, StoreTypeOK
  <2>5. StageTruthful'
    BY <1>0, <2>1, <2>2 DEF StageTruthful, StoreTypeOK
  <2> QED
    BY <2>3, <2>4, <2>5 DEF StoreInv
<1>2. CASE RecordVersion1
  <2>1. Objects \subseteq objects
    BY <1>0, <1>2 DEF RecordVersion1, StageTruthful, Objects
  <2>2. StoreTypeOK'
    BY <1>0, <1>2 DEF RecordVersion1, StoreTypeOK, OpenStages
  <2>3. VersionTruthful' /\ StageTruthful'
    BY <1>0, <1>2, <2>1 DEF RecordVersion1, StoreTypeOK, VersionTruthful, StageTruthful
  <2> QED
    BY <2>2, <2>3 DEF StoreInv
<1>3. CASE QueryVersion2
  <2>1. CASE 2 \in versions
    BY <1>0, <1>3, <2>1
    DEF QueryVersion2, StoreInv, StoreTypeOK, OpenStages, VersionTruthful, StageTruthful
  <2>2. CASE 2 \notin versions
    <3>1. /\ stage = "query" /\ stage' = "columns" /\ at' = 1
          /\ txn' = [columns |-> columns, versions |-> versions]
          /\ UNCHANGED <<objects, columns, versions>>
      BY <1>3, <2>2 DEF QueryVersion2
    <3> QED
      BY <1>0, <2>2, <3>1
      DEF StoreInv, StoreTypeOK, OpenStages, VersionTruthful, StageTruthful
  <2> QED
    BY <2>1, <2>2
<1>4. CASE AddColumn
  <2>1. /\ stage = "columns" /\ at \in 1 .. 3
        /\ txn' = [txn EXCEPT !.columns = @ \cup {Added[at]}]
        /\ at' = at + 1
        /\ stage' = IF at' \in 1 .. 3 THEN "columns" ELSE "version2"
        /\ UNCHANGED <<objects, columns, versions>>
    BY <1>4 DEF AddColumn
  <2>2. /\ txn'.columns = txn.columns \cup {Added[at]}
        /\ txn'.versions = txn.versions
        /\ txn' \in [columns : SUBSET Columns, versions : SUBSET (1 .. 3)]
    BY <1>0, <2>1 DEF StoreTypeOK, Columns
  <2>3. \A i \in 1 .. at : Added[i] \in txn'.columns
    BY <1>0, <2>1, <2>2 DEF StageTruthful
  <2>4. at = 3 => txn'.columns = Columns
    BY <2>2, <2>3 DEF Columns
  <2>5. StoreTypeOK'
    BY <1>0, <2>1, <2>2 DEF StoreTypeOK, OpenStages
  <2> QED
    BY <1>0, <2>1, <2>2, <2>3, <2>4, <2>5 DEF StoreInv, VersionTruthful, StageTruthful
<1>5. CASE RecordVersion2
  <2>1. /\ stage = "version2" /\ stage' = "commit"
        /\ txn' = [txn EXCEPT !.versions = @ \cup {2}]
        /\ UNCHANGED <<objects, columns, versions, at>>
    BY <1>5 DEF RecordVersion2
  <2>2. /\ txn'.columns = txn.columns
        /\ txn'.versions = txn.versions \cup {2}
        /\ txn' \in [columns : SUBSET Columns, versions : SUBSET (1 .. 3)]
    BY <1>0, <2>1 DEF StoreTypeOK
  <2>3. StoreTypeOK'
    BY <1>0, <2>1, <2>2 DEF StoreTypeOK, OpenStages
  <2> QED
    BY <1>0, <2>1, <2>2, <2>3 DEF StoreInv, VersionTruthful, StageTruthful
<1>6. CASE CommitMigration2
  <2>1. StoreTypeOK'
    BY <1>0, <1>6 DEF CommitMigration2, StoreTypeOK, OpenStages, NoTxn
  <2>2. VersionTruthful' /\ StageTruthful'
    BY <1>0, <1>6, HasPositions DEF CommitMigration2, VersionTruthful, StageTruthful
  <2> QED
    BY <2>1, <2>2 DEF StoreInv
<1>7. CASE RecordVersion3
  <2>1. StoreTypeOK'
    BY <1>0, <1>7 DEF RecordVersion3, StoreTypeOK, OpenStages
  <2>2. versions' = 1 .. 3
    <3>1. {1, 2} \subseteq versions /\ versions \subseteq 1 .. 3
      BY <1>0, <1>7 DEF RecordVersion3, StoreTypeOK, StageTruthful
    <3>2. 1 .. 3 = {1, 2, 3}
      OBVIOUS
    <3>3. versions' = versions \cup {3}
      BY <1>7 DEF RecordVersion3
    <3> QED
      BY ONLY <3>1, <3>2, <3>3, Zenon
  <2>3. VersionTruthful'
    BY <1>0, <1>7, <2>2 DEF RecordVersion3, StageTruthful, VersionTruthful
  <2>4. StageTruthful'
    BY <1>0, <1>7, <2>2 DEF RecordVersion3, StageTruthful
  <2> QED
    BY <2>1, <2>3, <2>4 DEF StoreInv
<1>8. CASE OpenStore
  BY <1>0, <1>8 DEF OpenStore, StoreInv, StoreTypeOK, OpenStages, VersionTruthful, StageTruthful
<1>9. CASE CloseStore
  BY <1>0, <1>9
  DEF CloseStore, StoreInv, StoreTypeOK, OpenStages, VersionTruthful, StageTruthful, NoTxn
<1>10. CASE UNCHANGED store
  BY <1>0, <1>10 DEF store, StoreInv, StoreTypeOK, VersionTruthful, StageTruthful
<1> QED
  BY <1>1, <1>2, <1>3, <1>4, <1>5, <1>6, <1>7, <1>8, <1>9, <1>10 DEF OpenStep

\* What an action of the process does to the store.
LEMMA ProcessStore ==
  ASSUME [Next]_vars
  PROVE  OpenStep \/ OpenStore \/ CloseStore \/ UNCHANGED store
<1>1. CASE Parse
  BY <1>1 DEF Parse, Exit
<1>2. CASE Start \/ Crash \/ Signal \/ StatDevice \/ OpenDatabase \/ StartFails
  BY <1>2 DEF Start, Crash, Signal, StatDevice, OpenDatabase, StartFails, Exit
<1>3. CASE StartGoroutines \/ SourceEnds \/ WorkerEnds \/ Serve \/ ServerFails \/ ServerCloses
  BY <1>3 DEF StartGoroutines, SourceEnds, WorkerEnds, Serve, ServerFails, ServerCloses
<1>4. CASE RequestBegins \/ RequestEnds \/ SourceReports \/ ServerReports \/ ReceiveResult
  BY <1>4 DEF RequestBegins, RequestEnds, SourceReports, ServerReports, ReceiveResult
<1>5. CASE Stop \/ ShutdownReturns \/ Join \/ Return
  BY <1>5 DEF Stop, ShutdownReturns, Join, Return, Exit
<1>6. CASE UNCHANGED vars
  BY <1>6 DEF vars
<1> QED
  BY <1>1, <1>2, <1>3, <1>4, <1>5, <1>6 DEF Next

LEMMA StoreInvHolds == Spec => []StoreInv
<1>1. Init => StoreInv
  BY StoreInvInit DEF Init
<1>2. StoreInv /\ [Next]_vars => StoreInv'
  BY ProcessStore, StoreInvStep
<1> QED
  BY <1>1, <1>2, PTL DEF Spec

\* The migrations never record a version whose changes are not there, and the
\* program only works on the complete schema, wherever starts were cut short.
THEOREM VersionsTruthful == Spec => []VersionTruthful
<1>1. StoreInv => VersionTruthful
  BY DEF StoreInv
<1> QED
  BY <1>1, StoreInvHolds, PTL

\* The guard of the statement that Open runs next: at each stage one of the
\* disjuncts of OpenStep has no other.
NextStatementSucceeds ==
  /\ stage = "schema" => at \in DOMAIN Schema \/ at = Len(Schema) + 1
  /\ stage = "columns" => at \in DOMAIN Added
  /\ stage = "version2" => 2 \notin txn.versions
  /\ stage \notin {"closed", "open"} =>
       stage \in {"schema", "query", "columns", "version2", "commit", "version3"}

\* No start is doomed (StartNeverDoomed, with the guards of OpenStep in the
\* place of ENABLED): in particular version 2 is not there when it is inserted.
THEOREM StatementsSucceed == Spec => []NextStatementSucceeds
<1>1. StoreInv => NextStatementSucceeds
  <2> SUFFICES ASSUME StoreTypeOK, StageTruthful PROVE NextStatementSucceeds
    BY DEF StoreInv
  <2>1. stage \in OpenStages /\ at \in 1 .. 11
    BY SchemaLength DEF StoreTypeOK
  <2>2. stage = "schema" => at \in DOMAIN Schema \/ at = Len(Schema) + 1
    BY <2>1, SchemaLength
  <2>3. stage = "columns" => at \in DOMAIN Added
    BY AddedLength DEF StageTruthful
  <2>4. stage = "version2" => 2 \notin txn.versions
    BY DEF StageTruthful
  <2> QED
    BY <2>1, <2>2, <2>3, <2>4 DEF NextStatementSucceeds, OpenStages
<1> QED
  BY <1>1, StoreInvHolds, PTL

\* What is on disk once is there for good, and a complete database is left as
\* it is.
OnlyAdds ==
  /\ objects \subseteq objects' /\ columns \subseteq columns' /\ versions \subseteq versions'
  /\ versions = 1 .. 3 => UNCHANGED disk

(***************************************************************************)
(* However many starts Open takes, and wherever they are cut short, none   *)
(* undoes what an earlier one has committed, not by rolling back either;   *)
(* and opening a database that is up to date does not change it.           *)
(***************************************************************************)
THEOREM MigrationsOnlyAdd == Spec => [][OnlyAdds]_store
<1>1. StoreInv /\ [Next]_vars => OnlyAdds
  <2> SUFFICES ASSUME StoreInv, [Next]_vars PROVE OnlyAdds
    OBVIOUS
  <2> USE DEF OnlyAdds, disk
  <2>0. StoreTypeOK /\ VersionTruthful /\ StageTruthful /\ 2 \in 1 .. 3 /\ 3 \in 1 .. 3
    BY DEF StoreInv
  <2>1. CASE CreateObject
    <3>1. columns' = columns \/ columns' = Columns
      BY <2>1 DEF CreateObject
    <3>2. columns \subseteq columns' /\ objects \subseteq objects' /\ versions' = versions
      BY <2>0, <2>1, <3>1 DEF CreateObject, StoreTypeOK
    <3>3. ASSUME versions = 1 .. 3 PROVE objects' = objects /\ columns' = columns
      <4>1. objects = Objects /\ Schema[at] \in objects
        BY <2>0, <2>1, <3>3 DEF VersionTruthful, CreateObject, Objects
      <4> QED
        BY <2>1, <4>1 DEF CreateObject
    <3> QED
      BY <3>2, <3>3
  <2>2. CASE RecordVersion1
    BY <2>0, <2>2 DEF RecordVersion1
  <2>3. CASE QueryVersion2 \/ AddColumn \/ RecordVersion2
    BY <2>3 DEF QueryVersion2, AddColumn, RecordVersion2
  <2>4. CASE CommitMigration2
    <3>1. columns' = Columns /\ versions' = versions \cup {2} /\ objects' = objects
      BY <2>0, <2>4 DEF CommitMigration2, StageTruthful
    <3>2. columns \subseteq Columns /\ (2 \in versions => columns = Columns)
      BY <2>0 DEF StoreTypeOK, VersionTruthful
    <3> QED
      BY <2>0, <3>1, <3>2
  <2>5. CASE RecordVersion3
    BY <2>0, <2>5 DEF RecordVersion3
  <2>6. CASE OpenStore \/ CloseStore \/ UNCHANGED store
    BY <2>6 DEF OpenStore, CloseStore, store
  <2> QED
    BY <2>1, <2>2, <2>3, <2>4, <2>5, <2>6, ProcessStore DEF OpenStep
<1> QED
  BY <1>1, StoreInvHolds, PTL DEF Spec

-----------------------------------------------------------------------------
(* Types, and what is running at each stage of run.                        *)

\* The process keeps its types: a channel of at most two results, and never a
\* configuration that Validate has refused.
THEOREM TypeCorrect == Spec => []TypeOK
<1>0. <<>> \in Seq(Results) /\ Len(<<>>) = 0
  OBVIOUS
<1>1. Init => TypeOK
  <2> SUFFICES ASSUME Init PROVE TypeOK
    OBVIOUS
  <2>1. StoreTypeOK
    BY StoreInvInit DEF Init, StoreInv
  <2>2. {catching, cancelled, shut, request, told} \subseteq BOOLEAN
    BY DEF Init
  <2>3. channel \in Seq(Results) /\ Len(channel) <= 2
    BY <1>0 DEF Init
  <2> QED
    BY <2>1, <2>2, <2>3 DEF Init, TypeOK, MainStages, Results, RoutineStages
<1>2. StoreInv /\ StoreInv' /\ TypeOK /\ [Next]_vars => TypeOK'
  <2> SUFFICES ASSUME StoreInv', TypeOK, [Next]_vars PROVE TypeOK'
    OBVIOUS
  <2> USE DEF TypeOK, MainStages, Results, RoutineStages, run, goroutines
  <2>0. StoreTypeOK'
    BY DEF StoreInv
  <2>1. ASSUME NEW code \in {"0", "1", "killed"}, Exit(code), told' \in BOOLEAN PROVE TypeOK'
    <3>1. channel' \in Seq(Results) /\ Len(channel') <= 2
      BY <1>0, <2>1 DEF Exit
    <3> QED
      BY <2>0, <2>1, <3>1 DEF Exit
  <2>2. CASE Parse
    <3>1. CASE \E code \in {"0", "1"} : Exit(code) /\ told' \in BOOLEAN
      BY <2>1, <3>1
    <3>2. CASE ~ \E code \in {"0", "1"} : Exit(code) /\ told' \in BOOLEAN
      <4>1. /\ Validate(cfg') /\ main' = "stat"
            /\ UNCHANGED <<store, catching, cancelled, result, goroutines, told, status>>
        BY <2>2, <3>2 DEF Parse
      <4> QED
        BY <2>0, <4>1
    <3> QED
      BY <3>1, <3>2
  <2>3. CASE Start
    BY <2>0, <2>3 DEF Start
  <2>4. CASE Crash \/ StartFails
    BY <2>1, <2>4 DEF Crash, StartFails
  <2>5. CASE Return
    BY <2>1, <2>5 DEF Return
  <2>6. CASE Signal
    <3>1. CASE catching
      BY <2>0, <2>6, <3>1 DEF Signal
    <3>2. CASE ~ catching
      BY <2>1, <2>6, <3>2 DEF Signal
    <3> QED
      BY <3>1, <3>2
  <2>7. CASE StatDevice \/ OpenDatabase
    BY <2>0, <2>7 DEF StatDevice, OpenDatabase
  <2>8. CASE StartGoroutines
    BY <2>0, <2>8 DEF StartGoroutines
  <2>9. CASE SourceEnds \/ WorkerEnds \/ ServerFails \/ ServerCloses
    BY <2>0, <2>9 DEF SourceEnds, WorkerEnds, ServerFails, ServerCloses
  <2>10. CASE Serve \/ RequestBegins \/ RequestEnds
    BY <2>0, <2>10 DEF Serve, RequestBegins, RequestEnds
  <2>11. ASSUME NEW r \in Results, Send(r) PROVE channel' \in Seq(Results) /\ Len(channel') <= 2
    BY <2>11 DEF Send
  <2>12. CASE SourceReports
    <3>1. channel' \in Seq(Results) /\ Len(channel') <= 2
      BY <2>11, <2>12 DEF SourceReports
    <3> QED
      BY <2>0, <2>12, <3>1 DEF SourceReports
  <2>13. CASE ServerReports
    <3>1. channel' \in Seq(Results) /\ Len(channel') <= 2
      BY <2>11, <2>13 DEF ServerReports
    <3> QED
      BY <2>0, <2>13, <3>1 DEF ServerReports
  <2>14. CASE ReceiveResult
    BY <2>0, <2>14 DEF ReceiveResult
  <2>15. CASE Stop \/ ShutdownReturns \/ Join
    BY <2>0, <2>15 DEF Stop, ShutdownReturns, Join
  <2>16. CASE UNCHANGED vars
    BY <2>0, <2>16 DEF vars
  <2> QED
    BY <2>2, <2>3, <2>4, <2>5, <2>6, <2>7, <2>8, <2>9, <2>10, <2>12, <2>13, <2>14, <2>15, <2>16
    DEF Next
<1> QED
  BY <1>1, <1>2, StoreInvHolds, PTL DEF Spec

\* Goroutines run only between the opening of the store and its closing, and
\* run returns only when they have ended.
RunningInv ==
  /\ main \in {"down", "parse", "stat"} => stage = "closed"
  /\ main \in {"receive", "stop", "shutdown", "wait"} => stage = "open"
  /\ main \in {"down", "parse", "stat", "open"} =>
       source = "off" /\ server = "off" /\ worker = "off" /\ channel = <<>>
  /\ main = "return" => source = "ended" /\ worker # "running"

\* The database is closed only when the source and the worker, who write to
\* it, have ended.
THEOREM WritersAreJoined == Spec => [](RunningInv /\ WritersJoined)
<1>1. Init => RunningInv
  BY DEF Init, StoreInit, RunningInv
<1>2. TypeOK /\ RunningInv /\ [Next]_vars => RunningInv'
  <2> SUFFICES ASSUME TypeOK, RunningInv, [Next]_vars PROVE RunningInv'
    OBVIOUS
  <2> USE DEF RunningInv, run, goroutines, store
  <2>0. main \in MainStages
    BY DEF TypeOK
  <2>1. ASSUME NEW code, Exit(code) PROVE RunningInv'
    BY <2>1 DEF Exit, CloseStore
  <2>2. CASE Parse
    <3>1. CASE \E code \in {"0", "1"} : Exit(code)
      BY <2>1, <3>1
    <3>2. CASE ~ \E code \in {"0", "1"} : Exit(code)
      BY <2>2, <3>2 DEF Parse
    <3> QED
      BY <3>1, <3>2
  <2>3. CASE Start
    BY <2>3 DEF Start
  <2>4. CASE Crash \/ StartFails \/ Return
    BY <2>1, <2>4 DEF Crash, StartFails, Return
  <2>5. CASE Signal
    BY <2>1, <2>5 DEF Signal
  <2>6. CASE StatDevice \/ OpenDatabase
    BY <2>6 DEF StatDevice, OpenDatabase
  <2>7. CASE StartGoroutines
    BY <2>7 DEF StartGoroutines
  <2>8. CASE SourceEnds \/ WorkerEnds
    BY <2>8 DEF SourceEnds, WorkerEnds
  <2>9. CASE ServerFails \/ ServerCloses \/ Serve \/ RequestBegins \/ RequestEnds
    BY <2>9 DEF ServerFails, ServerCloses, Serve, RequestBegins, RequestEnds
  <2>10. CASE SourceReports \/ ServerReports
    BY <2>10 DEF SourceReports, ServerReports, Results
  <2>11. CASE ReceiveResult \/ Stop \/ ShutdownReturns \/ Join
    BY <2>11 DEF ReceiveResult, Stop, ShutdownReturns, Join, CloseStore
  <2>12. CASE UNCHANGED vars
    BY <2>12 DEF vars
  <2> QED
    BY <2>2, <2>3, <2>4, <2>5, <2>6, <2>7, <2>8, <2>9, <2>10, <2>11, <2>12 DEF Next
<1>3. TypeOK /\ RunningInv => WritersJoined
  BY DEF TypeOK, MainStages, RunningInv, WritersJoined
<1> QED
  BY <1>1, <1>2, <1>3, TypeCorrect, PTL DEF Spec

-----------------------------------------------------------------------------
(* Why run returns nil.                                                    *)

\* As long as this process was not told to stop, nothing is there that could
\* make run return nil.
ToldInv ==
  /\ main = "down" /\ status = "0" => told
  /\ main \in {"down", "parse", "stat"} => ~ catching /\ ~ cancelled
  /\ cancelled /\ main \in {"open", "receive", "stop"} => told
  /\ shut => main \in {"shutdown", "wait", "return"}
  /\ server = "nil" => shut
  /\ main = "receive" =>
       /\ source \in {"nil", "ended"} => told
       /\ \A i \in 1 .. Len(channel) : channel[i] = "nil" => told
  /\ main \in {"stop", "shutdown", "wait", "return"} /\ result = "nil" => told

\* The bridge never ends with status 0, after which systemd would leave it
\* down, without having been told to.
THEOREM EndsOnlyAsTold == Spec => [](ToldInv /\ EndsOnlyWhenTold)
<1>1. Init => ToldInv
  BY DEF Init, ToldInv
<1>2. TypeOK /\ RunningInv /\ ToldInv /\ [Next]_vars => ToldInv'
  <2> SUFFICES ASSUME TypeOK, RunningInv, ToldInv, [Next]_vars PROVE ToldInv'
    OBVIOUS
  <2> USE DEF run, goroutines
  <2>0. channel \in Seq(Results) /\ source \in {"off", "running", "nil", "ended"}
    BY DEF TypeOK
  <2>1. ASSUME NEW code, Exit(code), code = "0" => told' PROVE ToldInv'
    BY <2>1 DEF Exit, ToldInv
  <2>2. CASE Parse
    <3>1. CASE \E code \in {"0", "1"} : Exit(code) /\ (code = "0" => told')
      BY <2>1, <3>1
    <3>2. CASE ~ \E code \in {"0", "1"} : Exit(code) /\ (code = "0" => told')
      <4>1. /\ main = "parse" /\ main' = "stat"
            /\ UNCHANGED <<catching, cancelled, shut, server>>
        BY <2>2, <3>2 DEF Parse
      <4> QED
        BY <4>1 DEF ToldInv
    <3> QED
      BY <3>1, <3>2
  <2>3. CASE Start
    BY <2>3 DEF Start, ToldInv
  <2>4. CASE Crash \/ StartFails
    BY <2>1, <2>4 DEF Crash, StartFails
  <2>5. CASE Return
    <3>1. Exit(IF result = "nil" THEN "0" ELSE "1") /\ told' = told /\ main = "return"
      BY <2>5 DEF Return
    <3>2. result = "nil" => told
      BY <3>1 DEF ToldInv
    <3> QED
      BY <2>1, <3>1, <3>2
  <2>6. CASE Signal
    <3>1. CASE catching
      <4>1. told' /\ UNCHANGED <<main, source, server, shut, channel, result, status>>
        BY <2>6, <3>1 DEF Signal
      <4>2. main \notin {"down", "parse", "stat"}
        BY <3>1 DEF ToldInv
      <4> QED
        BY <4>1, <4>2 DEF ToldInv
    <3>2. CASE ~ catching
      BY <2>1, <2>6, <3>2 DEF Signal
    <3> QED
      BY <3>1, <3>2
  <2>7. CASE StatDevice \/ OpenDatabase
    BY <2>7 DEF StatDevice, OpenDatabase, ToldInv
  <2>8. CASE StartGoroutines
    BY <2>8 DEF StartGoroutines, ToldInv, RunningInv
  <2>9. CASE SourceEnds
    BY <2>9 DEF SourceEnds, ToldInv, RunningInv
  <2>10. CASE WorkerEnds \/ RequestBegins \/ RequestEnds
    BY <2>10 DEF WorkerEnds, RequestBegins, RequestEnds, ToldInv
  <2>11. CASE Serve \/ ServerFails \/ ServerCloses
    BY <2>11 DEF Serve, ServerFails, ServerCloses, ToldInv
  <2>12. ASSUME NEW r \in Results, Send(r), UNCHANGED main, told' = told,
                main = "receive" /\ r = "nil" => told
         PROVE  main' = "receive" => \A i \in 1 .. Len(channel') : channel'[i] = "nil" => told'
    BY <2>0, <2>12 DEF Send, ToldInv
  <2>13. CASE SourceReports
    BY <2>12, <2>13 DEF SourceReports, ToldInv, Results
  <2>14. CASE ServerReports
    BY <2>12, <2>14 DEF ServerReports, ToldInv, Results
  <2>15. CASE ReceiveResult
    <3>1. result' = channel[1] /\ 1 \in 1 .. Len(channel) /\ main = "receive"
      BY <2>0, <2>15 DEF ReceiveResult
    <3> QED
      BY <2>15, <3>1 DEF ReceiveResult, ToldInv
  <2>16. CASE Stop \/ ShutdownReturns \/ Join
    BY <2>16 DEF Stop, ShutdownReturns, Join, ToldInv
  <2>17. CASE UNCHANGED vars
    BY <2>17 DEF vars, ToldInv
  <2> QED
    BY <2>2, <2>3, <2>4, <2>5, <2>6, <2>7, <2>8, <2>9, <2>10, <2>11, <2>13, <2>14, <2>15, <2>16,
       <2>17 DEF Next
<1>3. ToldInv => EndsOnlyWhenTold
  BY DEF ToldInv, EndsOnlyWhenTold
<1> QED
  BY <1>1, <1>2, <1>3, TypeCorrect, WritersAreJoined, PTL DEF Spec

-----------------------------------------------------------------------------
(* Who waits for whom: the part of StopsInTheEnd that speaks of states.    *)

\* The results that were put into the channel and taken out of it.
Sent  == (IF source = "ended" THEN 1 ELSE 0) + (IF server = "ended" THEN 1 ELSE 0)
Taken == IF main \in {"stop", "shutdown", "wait", "return"} THEN 1 ELSE 0

\* Each of the two reports once, run takes one result, and the context is
\* cancelled and Shutdown called before anybody is waited for.
ChannelInv ==
  /\ Len(channel) + Taken = Sent
  /\ main \in {"receive", "stop", "shutdown", "wait", "return"} =>
       source # "off" /\ server # "off"
  /\ main \in {"shutdown", "wait", "return"} => cancelled /\ shut

(***************************************************************************)
(* Nobody is stuck.  A goroutine with a result finds room in the channel;  *)
(* run waits for a result only while none was sent in vain; and whoever    *)
(* wait.Wait waits for either has ended or has all it needs to end.        *)
(***************************************************************************)
NobodyStuck ==
  /\ source = "nil" \/ server \in Results => Len(channel) < 2
  /\ main = "receive" /\ channel = <<>> => source # "ended" /\ server # "ended"
  /\ main = "wait" =>
       /\ source = "running" => cancelled
       /\ worker = "running" => cancelled
       /\ server \in {"running", "serving"} => shut
  /\ main \in {"receive", "wait"} => source # "off" /\ server # "off"

\* No goroutine of the bridge ever blocks on the channel of results, and run
\* never waits for one that has nothing left to do: the first result wakes it,
\* whoever reports first and whether the other reports before or after it.
THEOREM NobodyGetsStuck == Spec => []NobodyStuck
<1>0. Len(<<>>) = 0
  OBVIOUS
<1>1. Init => ChannelInv
  BY <1>0 DEF Init, ChannelInv, Sent, Taken
<1>2. TypeOK /\ RunningInv /\ ChannelInv /\ [Next]_vars => ChannelInv'
  <2> SUFFICES ASSUME TypeOK, RunningInv, ChannelInv, [Next]_vars PROVE ChannelInv'
    OBVIOUS
  <2> USE DEF ChannelInv, Sent, Taken, run, goroutines
  <2>0. channel \in Seq(Results) /\ Len(channel) \in Nat
    BY DEF TypeOK
  <2>1. ASSUME NEW code, Exit(code) PROVE ChannelInv'
    BY <1>0, <2>1 DEF Exit
  <2>2. CASE Parse
    <3>1. CASE \E code \in {"0", "1"} : Exit(code)
      BY <2>1, <3>1
    <3>2. CASE ~ \E code \in {"0", "1"} : Exit(code)
      BY <2>2, <3>2 DEF Parse
    <3> QED
      BY <3>1, <3>2
  <2>3. CASE Start
    BY <2>3 DEF Start
  <2>4. CASE Crash \/ StartFails \/ Return
    BY <2>1, <2>4 DEF Crash, StartFails, Return
  <2>5. CASE Signal
    BY <2>1, <2>5 DEF Signal
  <2>6. CASE StatDevice \/ OpenDatabase
    BY <2>6 DEF StatDevice, OpenDatabase
  <2>7. CASE StartGoroutines
    BY <2>0, <2>7 DEF StartGoroutines, RunningInv
  <2>8. CASE SourceEnds \/ WorkerEnds \/ Serve \/ ServerFails \/ ServerCloses
    BY <2>8 DEF SourceEnds, WorkerEnds, Serve, ServerFails, ServerCloses
  <2>9. CASE RequestBegins \/ RequestEnds
    BY <2>9 DEF RequestBegins, RequestEnds
  <2>10. ASSUME NEW r \in Results, Send(r) PROVE Len(channel') = Len(channel) + 1
    BY <2>0, <2>10 DEF Send
  <2>11. CASE SourceReports
    BY <2>0, <2>10, <2>11 DEF SourceReports, Results
  <2>12. CASE ServerReports
    BY <2>0, <2>10, <2>12 DEF ServerReports, Results
  <2>13. CASE ReceiveResult
    <3>1. Len(channel') = Len(channel) - 1
      BY <2>0, <2>13 DEF ReceiveResult
    <3> QED
      BY <2>0, <2>13, <3>1 DEF ReceiveResult
  <2>14. CASE Stop \/ ShutdownReturns \/ Join
    BY <2>14 DEF Stop, ShutdownReturns, Join
  <2>15. CASE UNCHANGED vars
    BY <2>15 DEF vars
  <2> QED
    BY <2>2, <2>3, <2>4, <2>5, <2>6, <2>7, <2>8, <2>9, <2>11, <2>12, <2>13, <2>14, <2>15 DEF Next
<1>3. TypeOK /\ ChannelInv => NobodyStuck
  <2> SUFFICES ASSUME TypeOK, ChannelInv PROVE NobodyStuck
    OBVIOUS
  <2>1. Len(channel) \in Nat /\ Len(channel) + Taken = Sent /\ Taken \in {0, 1}
    BY DEF TypeOK, ChannelInv, Taken
  <2>2. source = "nil" \/ server \in Results => Sent < 2
    BY DEF Sent, Results
  <2>3. main = "receive" /\ channel = <<>> => source # "ended" /\ server # "ended"
    BY <1>0, <2>1 DEF Sent, Taken
  <2> QED
    BY <2>1, <2>2, <2>3 DEF ChannelInv, NobodyStuck
<1> QED
  BY <1>1, <1>2, <1>3, TypeCorrect, WritersAreJoined, PTL DEF Spec

\* The stages of run from the start of the goroutines on.
Stages == {"receive", "stop", "shutdown", "wait", "return"}

\* What is left of run and of each goroutine.
Remaining ==
  LET ofRun == CASE main = "receive"  -> 5
                 [] main = "stop"     -> 4
                 [] main = "shutdown" -> 3
                 [] main = "wait"     -> 2
                 [] main = "return"   -> 1
                 [] OTHER             -> 0
      ofSource == CASE source = "running" -> 2 [] source = "nil" -> 1 [] OTHER -> 0
      ofServer == CASE server = "running" -> 3 [] server = "serving" -> 2
                    [] server \in Results -> 1 [] OTHER -> 0
      ofWorker == IF worker = "running" THEN 1 ELSE 0
  IN  ofRun + ofSource + ofServer + ofWorker

\* A step of run or of one of the goroutines, a request and a signal apart.
RunStep ==
  \/ SourceEnds \/ WorkerEnds \/ Serve \/ ServerFails \/ ServerCloses
  \/ SourceReports \/ ServerReports
  \/ ReceiveResult \/ Stop \/ ShutdownReturns \/ Join \/ Return

\* The guard of some RunStep that is scheduled, by its parts.
CanGoOn ==
  \/ source = "running" /\ cancelled
  \/ worker = "running" /\ cancelled
  \/ server = "running" \/ (server = "serving" /\ shut)
  \/ (source = "nil" \/ server \in Results) /\ Len(channel) < 2
  \/ main = "receive" /\ channel # <<>>
  \/ main \in {"stop", "shutdown", "return"}
  \/ main = "wait" /\ source = "ended" /\ server = "ended" /\ worker # "running"

\* Told to stop, or without its web server, the bridge can go on.
NeverStandsStill ==
  main \in Stages /\ (cancelled \/ server = "error") => CanGoOn

\* At no moment of its end does everybody wait for everybody else.
THEOREM EndNeverStandsStill == Spec => []NeverStandsStill
<1>1. TypeOK /\ NobodyStuck => NeverStandsStill
  <2> SUFFICES ASSUME TypeOK, NobodyStuck, main \in Stages, cancelled \/ server = "error"
               PROVE  CanGoOn
    BY DEF NeverStandsStill
  <2>0. /\ source \in {"off", "running", "nil", "ended"}
        /\ server \in RoutineStages /\ worker \in {"off", "running", "ended"}
    BY DEF TypeOK
  <2>1. source = "nil" \/ server \in Results => CanGoOn
    BY DEF NobodyStuck, CanGoOn
  <2>2. CASE main = "receive"
    <3>1. channel # <<>> \/ source \in {"running", "nil"}
      BY <2>0, <2>2 DEF NobodyStuck
    <3> QED
      BY <2>0, <2>1, <2>2, <3>1 DEF CanGoOn, Results
  <2>3. CASE main = "wait"
    BY <2>0, <2>1, <2>3 DEF NobodyStuck, CanGoOn, RoutineStages, Results
  <2>4. CASE main \in {"stop", "shutdown", "return"}
    BY <2>4 DEF CanGoOn
  <2> QED
    BY <2>2, <2>3, <2>4 DEF Stages
<1> QED
  BY <1>1, NobodyGetsStuck, TypeCorrect, PTL

\* From the start of the goroutines on the bridge ends within eleven steps of
\* run and its goroutines, whatever their order and whatever requests, signals
\* and failures come between them: each step brings the end nearer.
THEOREM EndComesNearer ==
  Spec => /\ [](Remaining \in 0 .. 11)
          /\ [][RunStep => Remaining' < Remaining]_vars
          /\ [][RequestBegins \/ RequestEnds \/ (Signal /\ catching)
                  => Remaining' = Remaining]_vars
<1>1. TypeOK => Remaining \in 0 .. 11
  BY DEF TypeOK, Remaining, MainStages, RoutineStages, Results
<1>2. TypeOK /\ RunningInv => [RunStep => Remaining' < Remaining]_vars
  <2> SUFFICES ASSUME TypeOK, RunningInv, RunStep PROVE Remaining' < Remaining
    OBVIOUS
  <2> USE DEF run, goroutines
  <2>1. CASE SourceEnds \/ WorkerEnds
    BY <2>1 DEF SourceEnds, WorkerEnds, Remaining
  <2>2. CASE Serve \/ ServerFails \/ ServerCloses
    BY <2>2 DEF Serve, ServerFails, ServerCloses, Remaining, Results
  <2>3. CASE SourceReports \/ ServerReports
    BY <2>3 DEF SourceReports, ServerReports, Remaining, Results
  <2>4. CASE ReceiveResult \/ Stop \/ ShutdownReturns \/ Join
    BY <2>4 DEF ReceiveResult, Stop, ShutdownReturns, Join, Remaining
  <2>5. CASE Return
    BY <2>5 DEF Return, Exit, Remaining, TypeOK, RoutineStages, Results, RunningInv
  <2> QED
    BY <2>1, <2>2, <2>3, <2>4, <2>5 DEF RunStep
<1>3. [RequestBegins \/ RequestEnds \/ (Signal /\ catching) => Remaining' = Remaining]_vars
  BY DEF RequestBegins, RequestEnds, Signal, run, goroutines, Remaining
<1> QED
  BY <1>1, <1>2, <1>3, TypeCorrect, WritersAreJoined, PTL

-----------------------------------------------------------------------------
(* The configuration.                                                      *)

\* What Validate has accepted is sound, also where a number was left out, was
\* malformed, or is no number.
LEMMA AcceptedSound ==
  ASSUME NEW env \in Environments, NEW line \in CommandLines, NEW c,
         c = Configured(env, line.flags), Readable(env, line), Validate(c), c.caltopo
  PROVE  /\ c.movement \in Int /\ c.movement > 0
         /\ c.heartbeat \in Int /\ c.heartbeat > 0
         /\ c.timeout \in Int /\ c.timeout > 0
         /\ c.group = "valid"
<1>1. {"timeout", "movement", "heartbeat"} \subseteq Settings
  BY DEF Settings, Default
<1>2. CalTopoValid(c)
  BY DEF Validate
<1>3. c.timeout \in Int
  <2>1. c.timeout = IF env["timeout"] # Unset THEN env["timeout"] ELSE Default["timeout"]
    BY <1>1 DEF Configured, Flags
  <2>2. env["timeout"] \in {Unset, Malformed} \cup Int
    BY ProcessAssumption DEF Numeric, Given
  <2>3. env["timeout"] # Malformed
    BY DEF Readable, Converted
  <2> QED
    BY <2>1, <2>2, <2>3 DEF Default
<1>4. ASSUME NEW s \in {"movement", "heartbeat"} PROVE c[s] \in Int
  <2>1. c[s] = IF line.flags[s] # Unset THEN line.flags[s]
               ELSE IF env[s] # Unset THEN env[s] ELSE Default[s]
    BY <1>1 DEF Configured, Flags
  <2>2. env[s] \in Given(s) /\ line.flags[s] \in Given(s)
    BY ProcessAssumption DEF Numeric, Flags
  <2>3. env[s] # Malformed /\ line.flags[s] # Malformed
    BY DEF Readable, Converted, Flags
  <2>4. Default[s] \in Int
    BY DEF Default
  <2>5. s = "movement" => c[s] \notin {NaN, Inf}
    BY <1>2 DEF CalTopoValid, MovementValid
  <2> QED
    BY <2>1, <2>2, <2>3, <2>4, <2>5 DEF Given
<1> QED
  BY <1>2, <1>3, <1>4 DEF CalTopoValid, MovementValid

\* run goes on only with settings that were read and accepted, and starts the
\* worker only with CalTopo enabled.
SettingsInv ==
  /\ main \notin {"down", "parse"} =>
       \E env \in Environments, line \in CommandLines :
         /\ cfg = Configured(env, line.flags)
         /\ Readable(env, line)
         /\ Validate(cfg)
  /\ worker # "off" => cfg.caltopo /\ main \notin {"down", "parse"}

\* The delivery worker only runs with settings its filter is defined for,
\* whatever the environment and the flags were.
THEOREM SettingsAlwaysSound == Spec => []SettingsSound
<1>1. Init => SettingsInv
  BY DEF Init, SettingsInv
<1>2. SettingsInv /\ [Next]_vars => SettingsInv'
  <2> SUFFICES ASSUME SettingsInv, [Next]_vars PROVE SettingsInv'
    OBVIOUS
  <2> USE DEF run, goroutines
  <2>1. ASSUME NEW code, Exit(code) PROVE SettingsInv'
    BY <2>1 DEF Exit, SettingsInv
  <2>2. CASE Parse
    <3>1. CASE \E code \in {"0", "1"} : Exit(code)
      BY <2>1, <3>1
    <3>2. CASE ~ \E code \in {"0", "1"} : Exit(code)
      <4>1. PICK env \in Environments, line \in CommandLines :
              /\ Readable(env, line)
              /\ Validate(Configured(env, line.flags))
              /\ cfg' = Configured(env, line.flags)
              /\ main = "parse"
              /\ UNCHANGED goroutines
        BY <2>2, <3>2 DEF Parse
      <4> QED
        BY <4>1 DEF SettingsInv
    <3> QED
      BY <3>1, <3>2
  <2>3. CASE Start
    BY <2>3 DEF Start, SettingsInv
  <2>4. CASE Crash \/ StartFails \/ Return
    BY <2>1, <2>4 DEF Crash, StartFails, Return
  <2>5. CASE Signal
    BY <2>1, <2>5 DEF Signal, SettingsInv
  <2>6. CASE StatDevice \/ OpenDatabase
    BY <2>6 DEF StatDevice, OpenDatabase, SettingsInv
  <2>7. CASE StartGoroutines
    BY <2>7 DEF StartGoroutines, SettingsInv
  <2>8. CASE SourceEnds \/ WorkerEnds \/ Serve \/ ServerFails \/ ServerCloses
    BY <2>8 DEF SourceEnds, WorkerEnds, Serve, ServerFails, ServerCloses, SettingsInv
  <2>9. CASE RequestBegins \/ RequestEnds \/ SourceReports \/ ServerReports
    BY <2>9 DEF RequestBegins, RequestEnds, SourceReports, ServerReports, SettingsInv
  <2>10. CASE ReceiveResult \/ Stop \/ ShutdownReturns \/ Join
    BY <2>10 DEF ReceiveResult, Stop, ShutdownReturns, Join, SettingsInv
  <2>11. CASE UNCHANGED vars
    BY <2>11 DEF vars, SettingsInv
  <2> QED
    BY <2>2, <2>3, <2>4, <2>5, <2>6, <2>7, <2>8, <2>9, <2>10, <2>11 DEF Next
<1>3. SettingsInv => SettingsSound
  BY AcceptedSound DEF SettingsInv, SettingsSound
<1> QED
  BY <1>1, <1>2, <1>3, PTL DEF Spec
=============================================================================
