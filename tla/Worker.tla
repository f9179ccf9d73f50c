------------------------------- MODULE Worker -------------------------------
(***************************************************************************)
(* The delivery worker of internal/caltopo (Worker.Run and drain with its  *)
(* positionFilter) at work on the outbox, together with what surrounds it: *)
(* the ingest goroutine, which archives fixes and wakes the worker, the    *)
(* CalTopo map, which applies updates but whose answer may be lost, and    *)
(* crashes of the process.                                                 *)
(*                                                                         *)
(* A step of the worker ends where another actor can come in between: at a *)
(* statement on the database and at the two ends of a CalTopo request.     *)
(***************************************************************************)
EXTENDS Outbox

VARIABLES
  pc,        \* where the worker is (see Stages)
  batch,     \* the deliveries of the last query still to process: for each
             \* id the number of attempts the query read
  current,   \* the id drain is working on, 0 for none
  wake,      \* whether the wake channel (capacity 1) holds a token
  history,   \* positionFilter.nodes
  prepared,  \* positionFilter.prepared: id -> decision
  handler,   \* the ingest goroutine: "idle", or "waking" between the commit
             \* of a new fix and its call of Worker.Wake
  drained,   \* how the last drain loop ended: "empty" or "error"
  shown,     \* CalTopo: the position each node's live track shows
  applied    \* history variable: the deliveries CalTopo ever applied

vars == <<deliveries, now, pc, batch, current, wake, history, prepared,
          handler, drained, shown, applied>>

filter  == <<history, prepared>>
caltopo == <<shown, applied>>

(***************************************************************************)
(* "down"    the process is not running                                    *)
(* "select"  Run waits for the ticker or a wake-up                         *)
(* "query"   drain is about to read the pending deliveries                 *)
(* "empty"   the query returned no delivery                                *)
(* "deliver" drain is about to take the next delivery of its batch         *)
(* "publish" Publish was called, CalTopo has not applied the update        *)
(* "reply"   CalTopo has applied the update, the answer is on its way      *)
(* "settle"  drain is about to call MarkDelivered                          *)
(* "fail"    drain is about to call MarkFailed                             *)
(***************************************************************************)
Working == {"publish", "reply", "settle", "fail"}
Stages  == {"down", "select", "query", "empty", "deliver"} \cup Working

TypeOK ==
  /\ OutboxTypeOK
  /\ pc \in Stages
  /\ DOMAIN batch \subseteq Ids
  /\ batch \in [DOMAIN batch -> Nat]
  /\ current \in Nat
  /\ wake \in BOOLEAN
  /\ history \in [Nodes -> History]
  /\ \A n \in Nodes : Len(history[n].samples) <= 3
  /\ DOMAIN prepared \subseteq Ids
  /\ prepared \in [DOMAIN prepared -> Decision]
  /\ handler \in {"idle", "waking"}
  /\ drained \in {"empty", "error"}
  /\ shown \in [Nodes -> Positions \cup {None}]
  /\ applied \subseteq Ids

EmptyBatch  == [d \in {} |-> 0]
EmptyFilter == [d \in {} |-> NoHistory]

Without(f, d) == [e \in DOMAIN f \ {d} |-> f[e]]
Extended(f, d, v) == [e \in DOMAIN f \cup {d} |-> IF e = d THEN v ELSE f[e]]

Init ==
  /\ OutboxInit
  /\ pc = "select"
  /\ batch = EmptyBatch
  /\ current = 0
  /\ wake = TRUE
  /\ history = [n \in Nodes |-> NoHistory]
  /\ prepared = EmptyFilter
  /\ handler = "idle"
  /\ drained = "empty"
  /\ shown = [n \in Nodes |-> None]
  /\ applied = {}

-----------------------------------------------------------------------------
(* The ingest goroutine, as far as the outbox sees it.                     *)

\* Service.Handle archives a position.  A fix that is already stored only
\* adds a packet row; a new one is enqueued and the worker is woken after
\* the commit.  A failed Archive is retried by the serial source and changes
\* nothing here.
Archive(fix) ==
  /\ pc # "down"
  /\ handler = "idle"
  /\ Len(deliveries) < MaxRows
  /\ ~ Archived(fix)
  /\ Enqueue(fix)
  /\ handler' = "waking"
  /\ UNCHANGED <<now, pc, batch, current, wake, filter, drained, caltopo>>

\* Worker.Wake: a send that does not block; the token is there either way.
\* Faulty variant: the token is only left when Run is in its select.
WakeDeliveries_WhenWaiting ==
  /\ handler = "waking"
  /\ handler' = "idle"
  /\ wake' = (wake \/ pc = "select")
  /\ UNCHANGED <<deliveries, now, pc, batch, current, filter, drained, caltopo>>

WakeDeliveries ==
  /\ handler = "waking"
  /\ handler' = "idle"
  /\ wake' = TRUE
  /\ UNCHANGED <<deliveries, now, pc, batch, current, filter, drained, caltopo>>

-----------------------------------------------------------------------------
(* Worker.Run.                                                             *)

\* <-w.wake
TakeWake ==
  /\ pc = "select"
  /\ wake
  /\ wake' = FALSE
  /\ pc' = "query"
  /\ UNCHANGED <<deliveries, now, batch, current, filter, handler, drained, caltopo>>

\* <-ticker.C, every 30 seconds
TickerFires ==
  /\ pc = "select"
  /\ pc' = "query"
  /\ UNCHANGED <<deliveries, now, batch, current, wake, filter, handler,
                 drained, caltopo>>

\* drain returned an error: Run logs it and goes back to the select.  The
\* rest of the batch is dropped, the filter keeps what it prepared.
StoreFails ==
  /\ pc \in {"query", "settle", "fail"}
  /\ pc' = "select"
  /\ batch' = EmptyBatch
  /\ current' = 0
  /\ drained' = "error"
  /\ UNCHANGED <<deliveries, now, wake, filter, handler, caltopo>>

-----------------------------------------------------------------------------
(* Worker.drain.                                                           *)

QueryPending ==
  /\ pc = "query"
  /\ \E B \in SUBSET Eligible :
       /\ IsPage(B)
       /\ batch' = [d \in B |-> deliveries[d].attempts]
       /\ pc' = IF B = {} THEN "empty" ELSE "deliver"
  /\ UNCHANGED <<deliveries, now, current, wake, filter, handler, drained, caltopo>>

\* drain returned 0: Run leaves its inner loop for the select.
DrainEnds ==
  /\ pc = "empty"
  /\ pc' = "select"
  /\ drained' = "empty"
  /\ UNCHANGED <<deliveries, now, batch, current, wake, filter, handler, caltopo>>

\* The next delivery of the result, in the order of the query.
First(d) == d \in DOMAIN batch /\ \A e \in DOMAIN batch \ {d} : Precedes(d, e)

\* positionFilter.prepare: the decision on a delivery is made once, and kept
\* for its retries.  Faulty variant: it is made again on every attempt.
Prepare_Again(d) ==
  LET n == Source(d)
      decision == Decide(history[n], deliveries[d].fix)
  IN  /\ history' = [history EXCEPT ![n].samples = Sampled(history[n], deliveries[d].fix)]
      /\ prepared' = Extended(prepared, d, decision)

Prepare(d) ==
  LET n == Source(d)
      decision == Decide(history[n], deliveries[d].fix)
  IN  IF d \in DOMAIN prepared
      THEN UNCHANGED filter
      ELSE /\ history' = [history EXCEPT ![n].samples = Sampled(history[n], deliveries[d].fix)]
           /\ prepared' = Extended(prepared, d, decision)

TakeNext ==
  /\ pc = "deliver"
  /\ \E d \in DOMAIN batch :
       /\ First(d)
       /\ current' = d
       /\ Prepare(d)
       /\ pc' = IF prepared'[d].publish THEN "publish" ELSE "settle"
  /\ UNCHANGED <<deliveries, now, batch, wake, handler, drained, caltopo>>

\* After a delivery: on with the batch, or back to the query once it is done.
\* Faulty variant: the delivery stays in the batch.
NextDelivery_Again ==
  /\ batch' = batch
  /\ current' = 0
  /\ pc' = "deliver"

NextDelivery ==
  /\ batch' = Without(batch, current)
  /\ current' = 0
  /\ pc' = IF DOMAIN batch = {current} THEN "query" ELSE "deliver"

\* MarkDelivered succeeded; positionFilter.complete.  Faulty variant: the raw
\* fix becomes the point of reference.
Complete_Raw(d) ==
  /\ history' = [history EXCEPT ![Source(d)] =
                   Completed(@, [prepared[d] EXCEPT !.position = deliveries[d].fix])]
  /\ prepared' = Without(prepared, d)

Complete(d) ==
  /\ history' = [history EXCEPT ![Source(d)] = Completed(@, prepared[d])]
  /\ prepared' = Without(prepared, d)

Settle ==
  /\ pc = "settle"
  /\ MarkDelivered(current)
  /\ Complete(current)
  /\ NextDelivery
  /\ UNCHANGED <<now, wake, handler, drained, caltopo>>

\* 1 << n
Doublings == <<1, 2, 4, 8, 16, 32, 64, 128, 256>>

\* delay := min(second << min(attempts, 8), 5 minutes)
RetryDelay(attempts) ==
  LET doubled == Doublings[1 + IF attempts < 8 THEN attempts ELSE 8]
  IN  IF doubled < 300 THEN doubled ELSE 300

\* Faulty variant: the failure is recorded as the last one.
RecordFailure_Terminal ==
  /\ pc = "fail"
  /\ LET attempts == batch[current] + 1
     IN  MarkFailed(current, attempts, Plus(now, RetryDelay(attempts)), TRUE)
  /\ NextDelivery
  /\ UNCHANGED <<now, wake, filter, handler, drained, caltopo>>

RecordFailure ==
  /\ pc = "fail"
  /\ LET attempts == batch[current] + 1
     IN  MarkFailed(current, attempts, Plus(now, RetryDelay(attempts)), FALSE)
  /\ NextDelivery
  /\ UNCHANGED <<now, wake, filter, handler, drained, caltopo>>

-----------------------------------------------------------------------------
(* The Publisher: one CalTopo request.                                     *)

CallReturns(stage) ==
  /\ pc' = stage
  /\ UNCHANGED <<deliveries, now, batch, current, wake, filter, handler, drained>>

PublishApplied ==
  /\ pc = "publish"
  /\ LET position == prepared[current].position
     IN  shown' = [shown EXCEPT ![position.node] = position]
  /\ applied' = applied \cup {current}
  /\ CallReturns("reply")

\* Faulty variant: a call that ran into its deadline counts as a success.
PublishAcknowledged_OnTimeout ==
  /\ pc \in {"publish", "reply"}
  /\ CallReturns("settle")
  /\ UNCHANGED caltopo

PublishAcknowledged ==
  /\ pc = "reply"
  /\ CallReturns("settle")
  /\ UNCHANGED caltopo

\* Publish returns an error: CalTopo refused the update or was not reached,
\* or it applied the update and the answer was lost or came too late.
\* Horizon bounds how long CalTopo can go on failing.
PublishFails ==
  /\ pc \in {"publish", "reply"}
  /\ now.sec + RetryDelay(batch[current] + 1) <= Horizon
  /\ CallReturns("fail")
  /\ UNCHANGED caltopo

-----------------------------------------------------------------------------
(* The process stops, at any step, and systemd starts it again.            *)

Crash ==
  /\ pc # "down"
  /\ pc' = "down"
  /\ batch' = EmptyBatch
  /\ current' = 0
  /\ wake' = FALSE
  /\ history' = [n \in Nodes |-> NoHistory]
  /\ prepared' = EmptyFilter
  /\ handler' = "idle"
  /\ UNCHANGED <<deliveries, now, drained, caltopo>>

\* NewWorker makes a new filter, and Run begins with a wake-up of its own.
Restart ==
  /\ pc = "down"
  /\ pc' = "select"
  /\ wake' = TRUE
  /\ drained' = "empty"
  /\ UNCHANGED <<deliveries, now, batch, current, filter, handler, caltopo>>

\* Horizon bounds the retry times too.
ClockTicks ==
  /\ Tick
  /\ pc = "fail" => now'.sec + RetryDelay(batch[current] + 1) <= Horizon
  /\ UNCHANGED <<deliveries, pc, batch, current, wake, filter, handler,
                 drained, caltopo>>

-----------------------------------------------------------------------------
Next ==
  \/ \E fix \in Fixes : Archive(fix)
  \/ WakeDeliveries
  \/ TakeWake
  \/ TickerFires
  \/ StoreFails
  \/ QueryPending
  \/ DrainEnds
  \/ TakeNext
  \/ Settle
  \/ RecordFailure
  \/ PublishApplied
  \/ PublishAcknowledged
  \/ PublishFails
  \/ Crash
  \/ Restart
  \/ ClockTicks

Spec == Init /\ [][Next]_vars

(***************************************************************************)
(* Fairness.  The goroutines run, time passes and systemd restarts the     *)
(* process (weak fairness).  The disk, CalTopo and the absence of a crash  *)
(* are only trusted not to fail for ever: a call that is made again and    *)
(* again succeeds once (strong fairness).                                  *)
(***************************************************************************)
Fairness ==
  /\ WF_vars(WakeDeliveries)
  /\ SF_vars(TickerFires)
  /\ WF_vars(Restart)
  /\ WF_vars(ClockTicks)
  /\ SF_vars(QueryPending)
  /\ WF_vars(DrainEnds)
  /\ SF_vars(TakeNext)
  /\ SF_vars(PublishApplied)
  /\ SF_vars(PublishAcknowledged)
  /\ SF_vars(Settle)
  /\ WF_vars(RecordFailure)

FairSpec == Spec /\ Fairness
=============================================================================
