------------------------------ MODULE Migration ------------------------------
(***************************************************************************)
(* Store.Open: the schema and its migrations, run on whatever database the *)
(* last start, an interrupted one perhaps, has left.  Each statement of    *)
(* the schema commits by itself; migration 2 is one transaction.           *)
(***************************************************************************)
EXTENDS Integers, Sequences

\* The objects of the schema in the order of their statements; each is made
\* only if it does not exist.
Schema ==
  <<"schema_migrations", "mesh_packets", "mesh_packets_received_at_idx",
    "mesh_packets_source_idx", "mesh_nodes", "tak_positions",
    "tak_positions_source_time_idx", "caltopo_tracks", "caltopo_deliveries",
    "caltopo_deliveries_pending_idx">>

Objects == {Schema[i] : i \in DOMAIN Schema}

\* The columns of tak_positions that migration 2 adds.
Added == <<"source_port", "location_source", "precision_bits">>

Columns == {Added[i] : i \in DOMAIN Added}

VARIABLES
  objects,   \* the tables and indexes there are
  columns,   \* which of Columns tak_positions has
  versions,  \* schema_migrations
  txn,       \* the open transaction: columns and versions as it sees them
  stage,     \* where Open is (see OpenStages)
  at         \* the statement of that stage that comes next

disk  == <<objects, columns, versions>>
store == <<objects, columns, versions, txn, stage, at>>

\* "closed"; the statements of the schema; the query for version 2; the
\* columns, the version and the commit of migration 2; version 3; "open".
OpenStages ==
  {"closed", "schema", "query", "columns", "version2", "commit", "version3", "open"}

NoTxn == [columns |-> {}, versions |-> {}]

StoreTypeOK ==
  /\ objects \subseteq Objects
  /\ columns \subseteq Columns
  /\ versions \subseteq 1 .. 3
  /\ txn \in [columns : SUBSET Columns, versions : SUBSET (1 .. 3)]
  /\ stage \notin {"columns", "version2", "commit"} => txn = NoTxn
  /\ stage \in OpenStages
  /\ at \in 1 .. Len(Schema) + 1

\* What the first start finds: a new file, or one an older release has left,
\* before migration 3 (no mesh_nodes) or before migration 2 (no columns
\* either; in TestOpenMigratesPositionMetadataColumns two tables only).
StoreInit ==
  /\ \/ objects = {} /\ versions = {} /\ columns = {}
     \/ objects = {"schema_migrations", "tak_positions"} /\ versions = {1} /\ columns = {}
     \/ objects = Objects \ {"mesh_nodes"} /\ versions = {1} /\ columns = {}
     \/ objects = Objects \ {"mesh_nodes"} /\ versions = {1, 2} /\ columns = Columns
  /\ txn = NoTxn
  /\ stage = "closed"
  /\ at = 1

OpenStore ==
  /\ stage = "closed"
  /\ stage' = "schema"
  /\ at' = 1
  /\ UNCHANGED <<disk, txn>>

\* CREATE ... IF NOT EXISTS; a new tak_positions has all columns.
CreateObject ==
  /\ stage = "schema"
  /\ at \in DOMAIN Schema
  /\ objects' = objects \cup {Schema[at]}
  /\ columns' = IF Schema[at] = "tak_positions" /\ Schema[at] \notin objects
                THEN Columns ELSE columns
  /\ at' = at + 1
  /\ UNCHANGED <<versions, txn, stage>>

\* INSERT OR IGNORE of version 1
RecordVersion1 ==
  /\ stage = "schema"
  /\ at = Len(Schema) + 1
  /\ versions' = versions \cup {1}
  /\ stage' = "query"
  /\ UNCHANGED <<objects, columns, txn, at>>

\* migrate: whether version 2 is recorded; if not, a transaction begins.
QueryVersion2 ==
  /\ stage = "query"
  /\ IF 2 \in versions
     THEN stage' = "version3" /\ UNCHANGED <<txn, at>>
     ELSE /\ stage' = "columns"
          /\ txn' = [columns |-> columns, versions |-> versions]
          /\ at' = 1
  /\ UNCHANGED disk

\* tableHasColumn, and ALTER TABLE if it has not; a column cannot be added
\* twice.  Faulty variant: tableHasColumn is not asked.
AddColumn_Unchecked ==
  /\ stage = "columns"
  /\ at \in DOMAIN Added
  /\ Added[at] \notin txn.columns
  /\ txn' = [txn EXCEPT !.columns = @ \cup {Added[at]}]
  /\ at' = at + 1
  /\ stage' = IF at' \in DOMAIN Added THEN "columns" ELSE "version2"
  /\ UNCHANGED disk

AddColumn ==
  /\ stage = "columns"
  /\ at \in DOMAIN Added
  /\ txn' = [txn EXCEPT !.columns = @ \cup {Added[at]}]
  /\ at' = at + 1
  /\ stage' = IF at' \in DOMAIN Added THEN "columns" ELSE "version2"
  /\ UNCHANGED disk

\* INSERT of version 2 into a PRIMARY KEY column.  Faulty variant: outside
\* the transaction.
RecordVersion2_Outside ==
  /\ stage = "version2"
  /\ 2 \notin txn.versions
  /\ versions' = versions \cup {2}
  /\ txn' = [txn EXCEPT !.versions = @ \cup {2}]
  /\ stage' = "commit"
  /\ UNCHANGED <<objects, columns, at>>

RecordVersion2 ==
  /\ stage = "version2"
  /\ 2 \notin txn.versions
  /\ txn' = [txn EXCEPT !.versions = @ \cup {2}]
  /\ stage' = "commit"
  /\ UNCHANGED <<disk, at>>

CommitMigration2 ==
  /\ stage = "commit"
  /\ columns' = txn.columns
  /\ versions' = txn.versions
  /\ txn' = NoTxn
  /\ stage' = "version3"
  /\ UNCHANGED <<objects, at>>

\* INSERT ... ON CONFLICT DO NOTHING of version 3
RecordVersion3 ==
  /\ stage = "version3"
  /\ versions' = versions \cup {3}
  /\ stage' = "open"
  /\ UNCHANGED <<objects, columns, txn, at>>

OpenStep ==
  \/ CreateObject
  \/ RecordVersion1
  \/ QueryVersion2
  \/ AddColumn
  \/ RecordVersion2
  \/ CommitMigration2
  \/ RecordVersion3

\* The database is closed, or the process stops: what was not committed is
\* rolled back.  Faulty variant: the transaction is left open.
CloseStore_KeepsTxn ==
  /\ stage' = "closed"
  /\ UNCHANGED <<disk, txn, at>>

CloseStore ==
  /\ stage' = "closed"
  /\ txn' = NoTxn
  /\ UNCHANGED <<disk, at>>

-----------------------------------------------------------------------------
(* Properties.                                                             *)

(***************************************************************************)
(* A recorded version tells the truth, wherever earlier starts were cut    *)
(* short: with version 2 tak_positions has its new columns, with version 3 *)
(* everything is there.  The migrations are skipped on that ground, and    *)
(* yet the rest of the program only ever works on the complete schema.     *)
(***************************************************************************)
VersionTruthful ==
  /\ 2 \in versions => "tak_positions" \in objects /\ columns = Columns
  /\ 3 \in versions => {1, 2} \subseteq versions /\ objects = Objects
  /\ stage = "open" => versions = 1 .. 3

(***************************************************************************)
(* No start is doomed: whatever was left behind, each statement of Open    *)
(* can succeed (no column is added twice, no version inserted twice).      *)
(***************************************************************************)
StartNeverDoomed == stage \notin {"closed", "open"} => ENABLED OpenStep
=============================================================================
