# A formal model of the Meshtastic–CalTopo bridge

The bridge reads mesh packets from a radio on a serial port, archives them in SQLite, and
delivers the positions among them to live tracks on a CalTopo map. This directory holds TLA+
modules translated from its Go source, TLC configurations that check them on small
instances, and proofs for TLAPS.

`tlc -config <run>.cfg <module>.tla` runs a check, `tlapm <module>.tla` checks the proofs of a
`…Proofs` module.
`PROJECT.json` lists the runs, the faulty variants that each property is known to catch, and
for each definition the source lines it stands for.

## 1. Inventory of the system

| Component (source) | State it keeps | Operations | What makes it correct |
|---|---|---|---|
| Serial source (`meshtastic/serial.go`) | connection, its framer, backoff | `Run` (reconnect), `consume` (handshake, read, push, call the handler until it succeeds) | no message dropped because archiving failed |
| Framer (`meshtastic/framer.go`) | the bytes not yet framed | `Push`, `EncodeFrame` | frames do not depend on how the stream is cut into reads; noise and corrupt lengths neither pile up nor block |
| Decoder (`tak/decoder.go`) | none | `DecodeWithOptions` | which packet is a position, with which time and callsign |
| Intake (`ingest/service.go`) | none that lasts | `Handle`, `rememberNode` | each packet archived once; names and positions meet whatever comes first |
| Store (`store/store.go`) | `mesh_packets`, `mesh_nodes`, `tak_positions`, `caltopo_deliveries`, `caltopo_tracks`, `schema_migrations` | `Archive`, `UpsertNode`, `NodeCallsign`, `PendingDeliveries`, `MarkDelivered`, `MarkFailed`, `TrackID`, `SaveTrack`, `Positions`, `initialize`, `migrate` | one position per fix, one delivery per position, order per node |
| Delivery worker (`caltopo/worker.go`) | wake channel, batch in hand, attempts | `Wake`, `Run`, `drain` | at-least-once, in order, retried for ever, with backoff, no lost wake-up |
| Position filter (`caltopo/worker.go`) | per node: three samples, last published position; decisions kept for retries | `prepare`, `complete` | never leaves a fix out without a recent update; one stray sample does not move the track alone |
| CalTopo adapter (`caltopo/adapter.go`) | open map, gotopo's copy of it | `Publish`, `createAndSaveTrack`, `ensureOpen`, `reconcileOrCreate` | one live track per node, never another node's |
| Web server (`web/server.go`) | none | index page, positions API | shows the newest position of each node |
| Start-up (`store/store.go`) | the schema on disk, `schema_migrations` | `Open`, `initialize`, `migrate` | any interrupted start is completed by the next |
| Process (`cmd/bridge/main.go`) | goroutines, context, channel of results | `run`: start, wait for the first result, stop, shut down, join | always ends once told to, joins those who write, a failure never looks like success |
| Configuration (`config/config.go`) | the settings | `Parse`, `Validate` | nothing starts with settings the rest is not defined for |
| Model types (`model/model.go`), generated protobuf (`takproto`) | none | – | – |

**Interactions.** Three goroutines share one database connection (`SetMaxOpenConns(1)`): the
serial source, which calls `Handle` → decoder → store and then `Worker.Wake`; the worker,
which calls the store, the filter and the adapter (→ gotopo → CalTopo, and the store again);
and the web server, which only reads. Each statement or transaction on the database is atomic
to the others. Everything but the database is lost when the process stops.

**Hard behaviour.** Batches and decisions that were read or made earlier are used while ingest
goes on; requests to CalTopo fail before or after they took effect, or after the deadline;
the store fails between two steps that belong together; the process stops anywhere and the
filter forgets what it knew; fixes arrive late, repeatedly and with or without a time;
times are ordered as text; users delete live tracks; the configuration changes between two
starts. `PROJECT.json` lists each hazard at its line with the properties that watch it.

## 2. The modules

| Module | Models | Extends |
|---|---|---|
| `Timestamps` | instants, their order, and the order of their RFC3339Nano texts | – |
| `PositionFilter` | the pure decision of the filter: samples, the median of each coordinate, movement on a plane, heartbeat | `Timestamps` |
| `Outbox` | the table of deliveries and the statements on it | `PositionFilter` |
| `Worker` | `Run`, `drain`, the filter, ingest as the outbox sees it, CalTopo, the clock, crash and restart | `Outbox` |
| `OrderedDelivery` | abstract specification: a log of fixes, sent in order, finished once | `PositionFilter` |
| `OutboxFeed` | abstract specification: how intake feeds the outbox, which the worker must put up with | – |
| `WorkerProperties` | properties of `Worker`, its inductive invariant, its refinement of `OrderedDelivery` | `Worker` |
| `Tracks` | `Adapter.Publish` and all it calls, `caltopo_tracks`, the map, the client's copy of it | – |
| `Ingest` | the retry loop of `consume`, `Handle`, the decoder's verdicts, `Archive`, `UpsertNode`, `NodeCallsign`, the positions query | `Timestamps` |
| `Framer` | `Framer.Push`, one turn of its loop a step | – |
| `Serial` | `Source.Run` and `consume` around a framer for each connection | `Framer` |
| `Config` | `Parse` and `Validate` | – |
| `Migration` | `Open`, `initialize`, `migrate`, statement by statement | – |
| `Process` | `run` of `main.go`, its goroutines, signals, kills, restarts | `Config`, `Migration` |
| `MCWorker`, `MCTracks`, `MCIngest`, `MCSerial`, `MCProcess` | instances for TLC | |
| `TimestampProofs`, `WorkerProofs`, `DeliveryProofs`, `TracksProofs`, `IngestProofs`, `SerialProofs`, `StreamProofs`, `ProcessProofs` | theorems, see section 4 | |

How they fit together: `Serial` hands each message to the Handler, which is `Ingest`; `Ingest`
implements `OutboxFeed`, and `Worker` admits every step that `OutboxFeed` allows; a request
of `Worker` is a `Publish` of `Tracks`; `Process` starts and ends these goroutines and runs
`Migration` before them, with a configuration that `Config` accepted.

### Outbox and Worker

A row of `deliveries` is a row of `caltopo_deliveries` joined with its position; its index is
its AUTOINCREMENT id. `Blocked` is the `NOT EXISTS` subquery, `Due` the comparison with the
clock, `Precedes` the `ORDER BY`, all on texts (`TextBefore`), and `IsPage` the `LIMIT`.
`pc` is where the worker is; an action ends where another goroutine, CalTopo or a crash can come in:

- `TakeWake`, `TickerFires`, `StoreFails`, `DrainEnds`: `Run`. `QueryPending`: the query of `drain`.
- `TakeNext`: next row of the batch and `prepare`; then `publish` or, for a fix that is left
  out, straight to `settle`.
- `PublishApplied`, `PublishAcknowledged`, `PublishFails`: one request. It fails before
  CalTopo took it, or after (answer lost or past the deadline): the worker cannot tell.
- `Settle`: `MarkDelivered` and `complete`. `RecordFailure`: `MarkFailed` with the backoff. A failure of either
  is `StoreFails`, which drops the batch and keeps the decision, as the code does.
- `Archive`, `WakeDeliveries`: ingest commits a new fix and, in a later step, wakes the worker.

What CalTopo did is kept in `shown` (what each live track shows) and `applied` (a history
variable). The ticker may fire whenever `Run` waits: its period only matters for speed.

A place is a point of a plane with whole coordinates. As in the code, the median of each coordinate is
taken by itself, so that the point of the medians need not be any sample, and the distance from the last
published point is compared with `Movement` (as squares); the distance is that of the plane, which stands in for the
haversine. A shutdown cancels the requests in flight and
drops what they return, which is a special case of `Crash`. Positions archived while
`CALTOPO_ENABLED` is off have no row in the table and none here; see `Ingest`.

### Tracks

One `Publish` at a time, as the worker calls it. `tracks` is the table, `live` the map,
`known` the features the gotopo client holds, which it reads on opening the map and
catches up with at any time (`ClientSyncs`). gotopo is not part of the repository; that
`GetFeatures` lists the map as it is, and that `UpdateLiveTrack` answers `ErrNotFound` for a
feature it does not know, is taken from the adapter and its tests. `SaveTrack` respects the UNIQUE columns of the
schema. Titles are left out.

### Ingest

A message is what its handling depends on: its kind, the node and user of a node info, the
report in a position packet and the second the radio stamped it with, if it did. Each attempt
runs from `handle` through `UpsertNode` (`RememberNode`), `NodeCallsign` (`NameSource`) and
`Archive` (`ArchivePacket`, `ArchivePosition`) to `Worker.Wake`; a failure leads to `paused` and back. The
node id written as a callsign and an empty TAK callsign are both `Fallback`, as `Handle`
treats them. `options` holds `DECODE_POSITION_APP` and `CALTOPO_ENABLED`, which a restart may
change. `received` and `lost` are history variables. `Newest` is the query behind the map page,
ordered by the texts of the times. A node's packet id determines its report (`IngestAssumption`).

`deliveries` is the table of the outbox as far as intake sees it: the position of each delivery,
in the order of their ids. `FeedsTheOutbox` maps their fixes to the queue of `OutboxFeed`, and the moment
between commit and `Wake` to `waking`. The other side of the contract is the lemma `IntakeAdmitted` of `DeliveryProofs`: whatever step `OutboxFeed` allows, `Archive`
or `WakeDeliveries` of `Worker` admits, as long as the process is up and a run has room for another row. So
the model of the worker excludes nothing that intake does, and no product of both is needed to see it.

### Framer and Serial

Bytes are numbers below `Radix`; the two start bytes are ordinary values of them, so that
lengths and payloads are full of false starts. `Payloads` is the reference: the frames that
one look at the whole stream, by position, finds; `Messages` are those of them that decode. Both are recursive
functions, over the positions of the stream from its end backwards and over the number of payloads.

`Serial` opens the port with its backoff, writes the request in as many parts as the port takes
(`WriteRequest`), reads (`Read`: data, perhaps together with an error), pushes the data through
`Framer` turn by turn (`PushLoop`), and hands each frame on until the Handler takes it
(`HandOn`, `HandlerFails`, `TryAgain`) or discards one that does not decode (`Discard`).
`handed` is a history variable. What the Handler does is in `Ingest`.

### Migration, Config and Process

`Migration` has one action for each statement; migration 2 is one transaction (`txn`), the
statements of the schema commit one by one. `StoreInit` is a new file or one that an older
release has left, with the two tables of the migration test among them. `Config` tells a text apart only as
far as `Validate` does: empty, valid, invalid; numbers are integers, `NaN`, `Inf` or malformed.

`Process` follows `run`: `Parse`, `StatDevice`, `OpenDatabase` (a step of `Migration`),
`StartGoroutines`, `ReceiveResult`, `Stop`, `ShutdownReturns`, `Join`, `Return`. Of the
goroutines it has only when they run, end and report into `runtimeErrors`, whose capacity is two.
`Signal` cancels the context between `NotifyContext` and `stop` and kills the process before and
after; `Crash` is a kill at any step. `told` and `status` are history variables.

## 3. What the runs check

| Run | Bounds | Properties |
|---|---|---|
| `worker_node` | 1 node, 4 rows, times 0–1 s, 4 places, heartbeat 1 s, no `MarkFailed` | `SuppressionCovered`, `FilterKnowsTheMap`, `NoLostWake`, `RetriesSampleOnce`, `MovementConfirmed`, `KeepsPromise` |
| `worker_nodes` | 2 nodes, 3 rows, batch limit 2, times 0–1 s, heartbeat 2 s, clock to 2 s | `IInv`, `BatchFresh` |
| `worker_live` | 1 node, 2 rows, times 0–1 s, clock to 2 s, fairness | `OnlyLateFixesGoBack`, `BackoffHonoured`, `EventuallyDelivered` |
| `tracks_groups` | 2 nodes, 2 groups, 3 track ids, late requests | `NoMixUp`, `MappingsDistinct`, `MappedBeforeUse` |
| `tracks_live` | 1 node, 3 track ids, fairness | `TypeOK`, `OneTrackPerDevice`, `TrackRestored` |
| `ingest` | 1 node, 3 reports, 2 users, 3 messages, everything on or off at each start, clock to 1 s | `TypeOK`, `EachPacketOnce`, `EachFixKept`, `ArchivedAtOnce`, `OnePositionPerTimedReport`, `CallsignsRight`, `MapNeverGoesBack`, `FeedsTheOutbox` |
| `serial` | 2 byte values, payloads to 2, streams to 12, reads to 3 bytes, request of 2, fairness | `SerialTypeOK`, `ChunksDoNotMatter`, `BufferBounded`, `FrameRecovered`, `EachMessageHandedOn`, `ReadsAgain` |
| `process` | 8 environments, 12 command lines, 4 databases, fairness | `TypeOK`, `VersionTruthful`, `StartNeverDoomed`, `WritersJoined`, `EndsOnlyWhenTold`, `SettingsSound`, `StopsInTheEnd` |

Why these bounds are enough. Three rows of a node give one that is delivered, one that is
being retried and one that waits, in every order of arrival, and fill the median window; the
fourth shifts it. The four places of `worker_node` are those the separate medians make interesting: for a movement of 40
from (0, 0), the places (30, 0) and (0, 27) are too near and (50, 50) is far, yet the medians of the
three make (30, 27), which has moved. Two times are a heartbeat apart. `Horizon` = 2 admits one failed attempt with its backoff and the retry after it (a delay
is at least 2 s): `worker_nodes` and `worker_live` have it. `worker_node` gives the state space to
the fourth row instead: with `Horizon` = 0 no failure is recorded by `MarkFailed`, but an answer is
still lost when the process stops after the update was applied, and the store still fails at each of its steps. All of its
properties are proved for every horizon besides (section 4). Two nodes and a
batch limit of 2 make batches of several rows and a full page, so that the first may fail, and its attempts
change, while the second is still to be dealt with (`BatchFresh`). Two rows of `caltopo_tracks` can
already clash in its UNIQUE columns; three track ids let a node lose its track and get another
while the second node has one. Three messages put a node info before, between and after two
positions, and a restart with other options between a packet and its copy. Twelve bytes hold two or
three frames, or a frame behind noise, false starts and a corrupt length, with lengths and
payloads that contain start bytes. The configurations of `process` have one for each check that
guards the worker, those that only differ by the other flags behave alike.

### Where the code and its documents part

Each of these runs finds a violation of one property, which quotes a document.

- `worker_fractional_order` (`InOrder`). `PendingDeliveries` orders by the text of
  `source_time`, and RFC3339Nano leaves trailing zeros out: `…:00Z` sorts after `…:00.5Z`. Two
  fixes of a node in the same second, one of them with a time of reception for want of an
  `rx_time`, are delivered in the wrong order. README: deliveries "preserve per-node ordering".
  `Positions` compares the same texts, so of two such positions the map page may show the older: `LatestShown`
  ("a Leaflet map of each node's latest position") is a theorem only where the texts sort as the times do.
- `worker_late_fix` (`TrackNeverGoesBack`). A fix archived after a newer one was delivered is
  published like a new one, and the live track goes back. In the run nothing fails: two fixes that came late
  are as far away, and the second of them makes the median move. README: the daemon "preserves
  ordering before publishing". Only such a late fix does it (`OnlyLateFixesGoBack`), and the map
  page of the bridge itself never goes back (`MapNeverGoesBack`).
- `tracks_group_change` (`OwnGroup`). With a new `CALTOPO_GROUP` the positions still go to the
  live track of the old group. README: each node maps to one `FLEET:<group>-<node>` track.
- `ingest_copies` (`OnePositionPerReport`). Copies of a TAK packet that arrive at different
  times have different source times, so each becomes a position. README: "Repeated firmware
  copies of the same position … only produce one normalized position".

### Fairness

`Worker!Fairness`: the goroutines of a running process run, time passes, systemd restarts the
process (`Restart=on-failure` in the unit; a stop by an operator is followed by a start): weak fairness. Nothing promises that the disk, CalTopo and the
process ever stop failing; but if they failed every single attempt for ever, nothing could be delivered. So steps that
a failure can preempt have strong fairness: made again and again, they succeed once.
`Tracks!Fairness` is the same: calls are made over and over (a heartbeat at least), the
client does not stay behind the map for ever, a call that hangs ends by its deadline.
`Serial!SerialFairness`: the goroutine runs, and the Handler does not fail for ever; nothing is
assumed of the port. `Process!Fairness`: goroutines are scheduled, each notices that its context
is cancelled (reads of the port time out after a second, statements and requests are cancelled with
it), and `Shutdown` has its own deadline; nothing is assumed of requests and signals: all weak.
Safety properties are checked without any fairness.

## 4. What is proved

The theorems hold for every value of the constants: any nodes, places, times, groups, byte
values, sizes and bounds, any configuration. They rest on the named assumptions of the modules
(`TimestampAssumption`, `FilterAssumption`, `OutboxAssumption`, `IngestAssumption`, …), which TLC evaluates in
every run, and on the hypothesis a theorem states.

| Module | Theorem | Statement |
|---|---|---|
| `TimestampProofs` | `TextOrderIsStrict` | `TextBefore` is irreflexive and transitive on all instants |
| `WorkerProofs` | `TypeCorrect` | `Spec => []TypeOK` |
| | `Invariance` | `Spec => []IInv` |
| | `BatchesStayFresh` | `Spec => []BatchFresh` |
| | `TextOrderKept` | `Spec => []InTextOrder` |
| | `FilterDoesNotLeak` | `Spec => []PreparedArePending` |
| | `LeftOutWithReason` | `Spec => []SuppressionCovered` |
| | `OrderKeptInTime` | `TextsSort => (Spec => []InOrder)` |
| | `Refinement` | `TextsSort => (Spec => KeepsPromise)` |
| `DeliveryProofs` | `DelayBounded` | `RetryDelay(attempts) \in 1 .. 256` |
| | `MapIsKnown` | `Spec => [](MapInv /\ FilterKnowsTheMap)` |
| | `WakesAreKept` | `Spec => []NoLostWake` |
| | `RetriesWait` | `Spec => BackoffHonoured` |
| | `FixesSampledOnce` | `Spec => []RetriesSampleOnce` |
| | `MovesAreConfirmed` | `Spec => MovementConfirmed` |
| | `OnlyLateFixes` | `TextsSort => (Spec => OnlyLateFixesGoBack)` |
| | `TrackKeptInTime` | `TextsSort => (Spec /\ [](\A d \in Ids : ~ Late(d)) => TrackNeverGoesBack)` |
| | `RowsKeepTheirLife` | each row is pending or delivered, and each step keeps `RowLife` |
| | `DeliveriesWaitShortly` | `Spec => []WaitsAreShort`: never put off by more than 256 seconds |
| | `NoneWaitForEachOther` | `Spec => [](NeverAllBlocked /\ QueryFindsWork)` |
| | `DrainIsNeverRefused` | `TextsSort => (Spec => []DrainGoesOn)` |
| | `DrainDoesNotSpin` | `Settle` and `RecordFailure` take exactly the current row out of the due ones |
| `TracksProofs` | `TypeCorrect`, `NeverMixedUp`, `MappedFirst`, `MappingsStayDistinct` | `Spec => []` of `TypeOK`, `NoMixUp`, `MappedBeforeUse`, `MappingsDistinct` |
| | `OneTrack` | `~ LateRequests => (Spec => []OneTrackPerDevice)` |
| | `SaveNeverRefused` | `Spec => []SaveAccepted`: no UNIQUE column refuses a mapping |
| | `CallComesToItsEnd` | each step of a call lowers `Left \in 0 .. 13`, what others do leaves it |
| `IngestProofs` | `TypeCorrect`, `PositionsComeWhole`, `FixesAreKept`, `PacketsArchivedOnce` | `Spec => []` of `TypeOK`, `ArchivedAtOnce`, `EachFixKept`, `EachPacketOnce` |
| | `TimedReportsOnce`, `CallsignsStayRight` | `Spec => []` of `OnePositionPerTimedReport`, `CallsignsRight`, each with its strengthening |
| | `OutboxIsFed` | `Spec => FeedsTheOutbox` |
| | `LatestIsShown`, `MapOnlyGoesForward` | `TextsSort => (Spec => []LatestShown)`, `TextsSort => (Spec => MapNeverGoesBack)` |
| | `NoNodeIsMissing`, `OneRowPerNode` | `Spec => []EachNodeShown`, `TextsSort => (Spec => [](EachNodeShown /\ ShownOnce))` |
| `SerialProofs` | `SourceTypeCorrect`, `BufferStaysBounded` | `SerialSpec => []` of `SerialTypeOK`, `BufferBounded` |
| | `ReadComesToItsEnd` | each turn of `Push`, each `Discard` and `HandOn` is `NearerToTheEnd` |
| `StreamProofs` | `ReadsDoNotMatter`, `EncodedFrameIsRead`, `MessagesHandedOn` | `SerialSpec => []` of `ChunksDoNotMatter`, `FrameRecovered`, `EachMessageHandedOn` |
| | `HandedNeverRegretted` | `SerialSpec => []HandedForGood`: `EachMessageHandedOn` at every moment, whatever bytes follow |
| `ProcessProofs` | `TypeCorrect`, `VersionsTruthful`, `SettingsAlwaysSound` | `Spec => []` of `TypeOK`, `VersionTruthful`, `SettingsSound` |
| | `StatementsSucceed` | `Spec => []NextStatementSucceeds`: `StartNeverDoomed` with the guards of `OpenStep` for `ENABLED` |
| | `MigrationsOnlyAdd` | `Spec => [][OnlyAdds]_store`: nothing committed is undone, a complete database is left alone |
| | `WritersAreJoined`, `EndsOnlyAsTold` | `Spec => []` of `WritersJoined`, `EndsOnlyWhenTold`, each with its strengthening |
| | `NobodyGetsStuck`, `EndNeverStandsStill` | `Spec => []` of `NobodyStuck`, `NeverStandsStill` |
| | `EndComesNearer` | each step of `run` and its goroutines lowers `Remaining \in 0 .. 11`; requests and caught signals leave it |

`TextsSort` says that the texts of the source times sort as the instants do; the lemma
`WholeSecondsSort` (`WholeTimesSort` for `Ingest`) shows that it is so when no source time has a fraction. It cannot be dropped:
`worker_fractional_order`. Nothing of the kind is assumed of the wall clock, whose fractions are nanoseconds. A row
may therefore not be due by text although it is due by the clock (`HeldByText`), be missed by the query its wake-up
causes, and wait for the ticker: that takes a fraction with trailing zeros, and a later instant of the same second with
more digits (the lemma `HeldForASecond`); in a later second the query finds the row, and where the clock shows whole seconds nothing is
hidden. `NoLostWake` says that no other row that was never tried waits.

**The worker.** None of the safety properties is inductive alone. `IInv` adds that no row is ever
abandoned, that the delivery in hand is in the batch and has a decision, that smoothing keeps
node and time of a fix, that the filter's point of reference was really applied, that a
decision to leave a fix out is covered by an applied update, and that success is only recorded
for an applied update. The argument for the order: a query returns no row that a
pending row of its node precedes; nothing but `Settle` takes a row out of "pending", and a row that
ingest adds later has a greater id, so it is not owed precedence. So
while a row is in hand every earlier one stays delivered. For the filter: a decision is
made when the reference is an applied update; the update stays applied whatever happens to
the reference later, so the decision stays covered however long its retries take.
The refinement maps the log to the rows, `sent` to `applied` and `done` to the delivered rows;
`Archive`, `PublishApplied` and `Settle` are `Accept`, `Send` and `Finish`, all else stutters.

`DeliveryProofs` builds on `IInv`. `MapInv`: between `PublishApplied` and `Settle` the map shows
what the decision in hand says. `WakeInv`: a row never tried is due, and from a query that found
nothing until the next token all that is pending is blocked, was tried or is hidden by its text. `DueInv`: what the
query found due stays due while it is in the batch. `FixesDistinct` of `FixesSampledOnce` adds to `RetriesSampleOnce` that two rows never have the same fix,
so that a fix sampled anew was not in the window. For `MovesAreConfirmed`: a point `Movement` away is at least
`Movement`/√2 away on one of its axes; on that axis the median has a sample beside it that is as far
the same way, so two of the samples are that far away. The factor is needed: with (0, 0), (0, 27), (30, 0) and
(50, 50) as above only one of three samples is 40 away, and the fix is published.
For `OnlyLateFixes`, `ShownApplied` says that a live track shows the place and time of an update that was applied. If the
delivery in hand is older than that update and was archived before it, it precedes it, and by `InTextOrder` the
newer one would not have been started while it was pending. So its id is greater and its time less, which is `Late`.

**The stream.** `ChunksDoNotMatter` speaks of the end of a read, and of a stream that is only
then complete. `StreamInv` of `StreamProofs` holds after each turn of `Push`: the buffer is the end of the stream
(`InStream`), and whatever bytes may still come, the frames of the whole are those taken so far
and those from the buffer on (`NothingLost`). The quantifier over what comes is what makes it
inductive: a turn may only decide what no later byte can change, so noise may be dropped but
for a first start byte at its end, a header may only be refused once its length is there, and a frame
may only be taken once it is whole. Between reads there is nothing left to take (`NothingLeft`), so the frames
are those of the stream. That `Found` and `Decoded` are functions that satisfy their recursive equations is proved
first (`FoundExists`, `DecodedExists`), by a least counterexample instead of an induction theorem. `HandedInv` says that
what was handed on are the messages among the frames before `next`, and that none is left when the source reads or reconnects.

**The others.** In `TracksProofs`, `IInv` says that a feature id names one feature on the map and in the
client, that a mapped id is of a track of its node, and that the track at hand is the node's own.
In `IngestProofs`, `HandInv` ties each stage to the message at hand, `TimesOwn` fixes the stored
time of a timed report, and `CallsignReady` says that a name is in `mesh_nodes` or at hand before the
position that needs it is written. A position that is added
either becomes the newest of its node or leaves the one that was in its place, because the order of the
texts is strict (`TextOrderIsStrict`): `MapOnlyGoesForward`. In `ProcessProofs`, `StageTruthful` ties the stages of `Open` to what is on disk and in
the transaction; `RunningInv` ties the life of the goroutines to the stages of `run`; `ToldInv`
says that no nil result can be on its way unless the process was told to stop; `SettingsInv` that
what runs was accepted by `Validate`. `FramerInv` of `SerialProofs` is types and bound together, since
the bound of the buffer after a turn needs the length the turn read.

**Getting on.** Liveness under fairness is not provable here, but what it rests on is: that someone can
always go on, and that each step brings the end nearer. What remains to TLC is to join the two by fairness.

- *The outbox.* `Precedes` is a strict order even where the texts of fractions do not sort as
  their times do, so of finitely many pending rows of a node one has none before it
  (`FirstElement` of `TimestampProofs`: the one with the fewest before it). The `NOT EXISTS` of
  `PendingDeliveries` therefore never holds them all back: `NoneWaitForEachOther`. The same lemma gives the
  map page its row of each node (`NoNodeIsMissing`). For a page of at most `BatchLimit` rows, and the first
  row of a batch, the order must be total too, which `TextsSort` provides (`DrainIsNeverRefused`).
  A delivery dealt with leaves the rows that are due, for a second at least and 256 at most
  (`DrainDoesNotSpin`, `DeliveriesWaitShortly`).
- *A read.* A turn of `Push` shortens the buffer or is the last one (`TurnShortens`); then each frame of the
  read is gone through once.
- *A call of `Publish`.* `Left` counts the stages still ahead, those of the second round included
  as long as the track may still turn out not to be there. `SaveNeverRefused` adds to the ids of
  `MappingsDistinct` that a mapping is always for a device of its own node.
- *The end of the process.* `ChannelInv` counts: the results in the channel are those sent and not taken, at
  most two are sent and one is taken. So no goroutine waits for room, and while `run` waits for
  a result there is one, or a goroutine that will send one. `Remaining` adds up
  the steps that `run`, the source, the worker and the server have before them.

**Only model-checked.** Liveness (`EventuallyDelivered`, `TrackRestored`, `ReadsAgain`,
`StopsInTheEnd`), which needs fairness, and the form of `StartNeverDoomed` with `ENABLED`: the prover
reasons about neither. Every other property of the passing runs is a theorem. Theorems about
properties that no run checks are those of *Getting on*, `LatestIsShown`, `OneRowPerNode`,
`HandedNeverRegretted`, `RowsKeepTheirLife` and `MigrationsOnlyAdd`.

## 5. Limits

- CalTopo takes an update before its request ends, never after: in `Worker` an update is not
  applied once `Publish` has returned an error. A stale update that CalTopo carries out later
  could show an older position until the next one.
- `OneTrackPerDevice` likewise needs a CalTopo that does not carry out a creation after its
  caller has given up: with `LateRequests = TRUE` a retry lists the tracks before the late creation,
  creates one itself, and the device ends up with two.
- The clock does not go backwards, and its fractions are left out of the passing runs of `Worker`
  and `Ingest`: in them due times and the clock are whole seconds. The theorems admit fractions, those under
  `TextsSort` excepted.
- In `Ingest` at most three messages; reports of one node. The TAK report of the run has a readable
  callsign; one whose compressed callsign cannot be decoded (`Fallback`, replaced by the node's name if it has one, where
  the repository's README speaks of the node id) is admitted by `Reports` and covered by the theorems only.
- Deduplication compares places as such; that the key rounds them to seven decimals is not modelled.
- `StopsInTheEnd` assumes that a `Write` on the port returns; its reads have a timeout of their own, its writes do not.
- Two bridges on one database, and a database that another program changes, are left out.

## 6. Not modelled

- The contents of protobuf messages, coordinates out of range and attributes such as altitude:
  packets that do not decode are messages of the kind "other". `takproto` is generated code.
- The HTTP handlers, the map page and its JSON (`web/server.go`): stateless formatting of what
  `Newest` returns; the life of the server is in `Process`.
- Titles of live tracks, logging, and the listing of devices.
- The coordinate arithmetic: coordinates are whole numbers and `DistanceSquared` is that of the plane, not a haversine.

## 7. What could follow

A second radio node in `Ingest`, and a `CalTopo` that carries out late updates in `Worker` (today
only late creations, in `Tracks`), with the property that the next update repairs what they showed.
