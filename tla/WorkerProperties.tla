-------------------------- MODULE WorkerProperties --------------------------
(***************************************************************************)
(* What the delivery worker promises, over the state of Worker.            *)
(***************************************************************************)
EXTENDS Worker

-----------------------------------------------------------------------------
(* Queries on the state that the properties share.                         *)

\* The worker holds d: it may still be sent on the strength of a query made
\* earlier, or has a decision waiting in the filter.
InHand(d) == d \in DOMAIN batch \/ d \in DOMAIN prepared

\* d has been dealt with, or is being dealt with.
Started(d) == Delivered(d) \/ d \in applied \/ InHand(d)

\* A published delivery of the same node makes the heartbeat of d superfluous.
Covered(d) ==
  \E e \in applied :
    /\ Source(e) = Source(d)
    /\ ~ NotAfter(Plus(SourceTime(e), Heartbeat), SourceTime(d))

\* A delivery that is due by the clock, but may not have been by the texts the
\* query compares: the clock may have shown, since the time it is due at, a time
\* whose text sorts before that of next_attempt_at.
HeldByText(d) ==
  \E t \in Clock :
    /\ NotAfter(deliveries[d].next, t)
    /\ NotAfter(t, now)
    /\ TextBefore(t, deliveries[d].next)

-----------------------------------------------------------------------------
(* Safety.                                                                 *)

(***************************************************************************)
(* While ingest archives, and after failures of the store half way through *)
(* a batch, the rows drain works on are as the query read them: pending,   *)
(* with the number of attempts that MarkFailed will overwrite.             *)
(***************************************************************************)
BatchFresh ==
  \A d \in DOMAIN batch : Pending(d) /\ deliveries[d].attempts = batch[d]

(***************************************************************************)
(* "Preserve per-node ordering" (README): no fix is sent, or counted as    *)
(* delivered, before a fix of the same node that was archived earlier with *)
(* a source time that is not later, whatever failed and was put off.  With *)
(* fractions of a second it may be: see worker_fractional_order.           *)
(***************************************************************************)
InOrder ==
  \A d \in Ids : Started(d) =>
    \A e \in 1 .. (d - 1) :
      Source(e) = Source(d) /\ NotAfter(SourceTime(e), SourceTime(d))
        => Delivered(e)

(***************************************************************************)
(* The same in the order the outbox itself sorts by, the text of the       *)
(* source time: PendingDeliveries holds back a row that follows a pending  *)
(* one, and a batch read earlier never gets ahead of it.                   *)
(***************************************************************************)
InTextOrder ==
  \A d \in Ids : Started(d) =>
    \A e \in 1 .. (d - 1) :
      Source(e) = Source(d) /\ Precedes(e, d) => Delivered(e)

(***************************************************************************)
(* The decisions positionFilter keeps for retries are about deliveries     *)
(* that are still to be made: none outlives its delivery (prepared would   *)
(* grow for ever) whichever call failed on the way.                        *)
(***************************************************************************)
PreparedArePending == \A d \in DOMAIN prepared : Pending(d)

(***************************************************************************)
(* A fix that is marked delivered without an update of the map was left    *)
(* out with reason: an update of the same node, really applied by CalTopo, *)
(* is less than a heartbeat older.  Restarts, lost answers and retries may *)
(* make the worker send too much, never leave the map without the node.    *)
(***************************************************************************)
SuppressionCovered ==
  \A d \in Ids : Delivered(d) /\ d \notin applied => Covered(d)

(***************************************************************************)
(* The position the filter measures movement from is the one the live      *)
(* track shows, except while an update it has decided on is being sent or  *)
(* retried.                                                                *)
(***************************************************************************)
FilterKnowsTheMap ==
  \A n \in Nodes : history[n].last # None =>
    \/ shown[n] = history[n].last
    \/ \E d \in DOMAIN prepared :
         prepared[d].publish /\ prepared[d].position = shown[n]

(***************************************************************************)
(* A retry, also one cut short by a failing store, does not enter a fix a  *)
(* second time into the window the median is taken of: no fix is in it     *)
(* twice, and each one in it is dealt with or has its decision kept for    *)
(* the next attempt, so that it will not be sampled again.                 *)
(***************************************************************************)
RetriesSampleOnce ==
  \A n \in Nodes :
    LET samples == history[n].samples
    IN  /\ \A i, j \in DOMAIN samples : i # j => samples[i] # samples[j]
        /\ \A i \in DOMAIN samples :
             \E d \in Ids :
               /\ deliveries[d].fix = samples[i]
               /\ Delivered(d) \/ d \in DOMAIN prepared

(***************************************************************************)
(* No wake-up is lost: when Run waits with no token in the channel, no     *)
(* Wake on its way and no error in the last drain, the only deliveries     *)
(* that are ready are retries, which wait for the ticker, and those that   *)
(* the order of the texts hides from the query for the rest of a second.   *)
(***************************************************************************)
NoLostWake ==
  pc = "select" /\ ~ wake /\ handler = "idle" /\ drained = "empty"
    => \A d \in Eligible : deliveries[d].attempts > 0 \/ HeldByText(d)

-----------------------------------------------------------------------------
(* The inductive strengthening of the safety invariants.                   *)

NeverAbandoned == \A d \in Ids : Pending(d) \/ Delivered(d)

\* While it works on a delivery, drain has it in its batch and its decision
\* in the filter.
CurrentInHand ==
  pc \in Working => current \in DOMAIN batch /\ current \in DOMAIN prepared

\* Smoothing changes neither the node nor the time of a fix.
PreparedOwn ==
  \A d \in DOMAIN prepared :
    /\ prepared[d].position.node = Source(d)
    /\ prepared[d].position.time = SourceTime(d)

\* The point of reference of a node was published.
LastApplied ==
  \A n \in Nodes : history[n].last # None =>
    \E e \in applied : Source(e) = n /\ SourceTime(e) = history[n].last.time

SuppressedCovered ==
  \A d \in DOMAIN prepared : ~ prepared[d].publish => Covered(d)

\* An answer is only taken for an update that was applied.
AnswerApplied ==
  (pc = "reply" \/ (pc = "settle" /\ prepared[current].publish))
    => current \in applied

IInv ==
  /\ TypeOK
  /\ BatchFresh
  /\ InTextOrder
  /\ PreparedArePending
  /\ SuppressionCovered
  /\ NeverAbandoned
  /\ CurrentInHand
  /\ PreparedOwn
  /\ LastApplied
  /\ SuppressedCovered
  /\ AnswerApplied

-----------------------------------------------------------------------------
(* Action properties.                                                      *)

(***************************************************************************)
(* Backoff is honoured: CalTopo is sent no update before the second for    *)
(* which the last MarkFailed scheduled it, however old the batch is.       *)
(***************************************************************************)
BackoffHonoured ==
  [][pc' = "publish" /\ pc # "publish"
       => deliveries[current'].next.sec <= now.sec]_vars

(***************************************************************************)
(* CALTOPO_MOVEMENT_METERS is the "minimum median-filtered movement before *)
(* an update": when there is a point of reference and no heartbeat is due, *)
(* a stray sample does not move the live track by itself.  Two of the last *)
(* three must lie at least Movement / sqrt(2) away; not Movement, since    *)
(* the medians of the coordinates may be of different samples.             *)
(***************************************************************************)
MovementConfirmed ==
  [][\A d \in DOMAIN prepared' \ DOMAIN prepared :
       LET before  == history[Source(d)]
           samples == history'[Source(d)].samples
           Moved   == {i \in DOMAIN samples :
                         2 * DistanceSquared(before.last.loc, samples[i].loc) >= Square(Movement)}
       IN  prepared'[d].publish =>
             \/ before.last = None
             \/ HeartbeatDue(before.last, deliveries[d].fix)
             \/ Cardinality(Moved) >= 2]_vars

(***************************************************************************)
(* "This daemon ... preserves ordering before publishing" (README): the    *)
(* live track of a node never goes back to an older fix.  It does: see     *)
(* worker_late_fix.                                                        *)
(***************************************************************************)
TrackNeverGoesBack ==
  [][\A n \in Nodes : shown[n] # None
       => NotAfter(shown[n].time, shown'[n].time)]_vars

\* d was archived after a newer fix of its node.
Late(d) ==
  \E e \in 1 .. (d - 1) : Source(e) = Source(d) /\ Before(SourceTime(d), SourceTime(e))

(***************************************************************************)
(* Nothing else moves it back, though: no retry, no lost answer, no crash  *)
(* and no query made too early, only a fix that came late.                 *)
(***************************************************************************)
OnlyLateFixesGoBack ==
  [][\A n \in Nodes : shown[n] # None /\ Before(shown'[n].time, shown[n].time)
       => Source(current) = n /\ Late(current)]_vars

-----------------------------------------------------------------------------
(* The abstract specification.                                             *)

Promise ==
  INSTANCE OrderedDelivery WITH
    log  <- [d \in Ids |-> deliveries[d].fix],
    sent <- applied,
    done <- {d \in Ids : Delivered(d)}

(***************************************************************************)
(* The worker, with its outbox, implements OrderedDelivery: every step is  *)
(* one of its steps or changes nothing a reader of the map can tell.       *)
(***************************************************************************)
KeepsPromise == Promise!LogSpec

-----------------------------------------------------------------------------
(* Liveness.                                                               *)

(***************************************************************************)
(* "Deliveries retry indefinitely" (README): every archived fix is in the  *)
(* end delivered, through crashes, lost answers and failures of the store. *)
(***************************************************************************)
EventuallyDelivered ==
  \A d \in 1 .. MaxRows : (d \in Ids) ~> (d \in Ids /\ Delivered(d))
=============================================================================
