---------------------------- MODULE DeliveryProofs ----------------------------
(***************************************************************************)
(* Further proofs about the delivery worker, from the invariant of         *)
(* WorkerProofs: what the filter knows of the map, the wake-ups, the wait  *)
(* before a retry, the steps of intake it admits, the life of a row, and    *)
(* that the pending rows neither block each other nor keep drain turning.  *)
(***************************************************************************)
EXTENDS WorkerProofs, TimestampProofs, FiniteSetTheorems

\* The delay of a retry is at most 256 seconds: its limit of five minutes is
\* never reached, since the shift stops at eight.
THEOREM DelayBounded ==
  ASSUME NEW attempts \in Nat
  PROVE  RetryDelay(attempts) \in 1 .. 256
<1> DEFINE shift == IF attempts < 8 THEN attempts ELSE 8
<1>1. 1 + shift \in 1 .. 9
  OBVIOUS
<1>2. \A i \in 1 .. 9 : Doublings[i] \in 1 .. 256
  BY DEF Doublings
<1>3. RetryDelay(attempts) =
        IF Doublings[1 + shift] < 300 THEN Doublings[1 + shift] ELSE 300
  BY DEF RetryDelay
<1> HIDE DEF shift
<1>4. Doublings[1 + shift] \in 1 .. 256
  BY <1>1, <1>2
<1> QED
  BY <1>3, <1>4

-----------------------------------------------------------------------------
(* The filter and the map.                                                 *)

\* What an update in progress has to do with the map.
MapInv ==
  /\ \A n \in Nodes : shown[n] # None => shown[n].node = n
  /\ pc = "publish" => prepared[current].publish
  /\ pc \in {"reply", "settle"} /\ prepared[current].publish =>
       shown[Source(current)] = prepared[current].position
  /\ FilterKnowsTheMap

\* Steps that change neither the filter nor the map.
LEMMA MapUntouched ==
  ASSUME MapInv, UNCHANGED <<history, prepared, shown>>,
         \/ pc' \notin {"publish", "reply", "settle"}
         \/ UNCHANGED <<pc, current>> /\ Source(current)' = Source(current)
  PROVE  MapInv'
<1>1. FilterKnowsTheMap'
  BY DEF MapInv, FilterKnowsTheMap
<1>2. CASE pc' \notin {"publish", "reply", "settle"}
  BY <1>1, <1>2 DEF MapInv
<1>3. CASE UNCHANGED <<pc, current>> /\ Source(current)' = Source(current)
  BY <1>1, <1>3 DEF MapInv
<1> QED
  BY <1>2, <1>3

LEMMA MapTakeNext ==
  ASSUME IInv, MapInv, TakeNext
  PROVE  MapInv'
<1>0. TypeOK /\ CurrentInHand /\ PreparedOwn
  BY DEF IInv
<1>1. PICK d \in DOMAIN batch :
        /\ current' = d
        /\ Prepare(d)
        /\ pc' = IF prepared'[d].publish THEN "publish" ELSE "settle"
  BY DEF TakeNext
<1>2. UNCHANGED <<deliveries, shown>> /\ Source(d)' = Source(d) /\ d \in Ids
  BY <1>0 DEF TakeNext, caltopo, TypeOK, Source
<1>3. /\ \A n \in Nodes : history'[n].last = history[n].last
      /\ \A e \in DOMAIN prepared : e \in DOMAIN prepared' /\ prepared'[e] = prepared[e]
  <2>1. CASE d \in DOMAIN prepared
    BY <1>1, <2>1 DEF Prepare, filter
  <2>2. CASE d \notin DOMAIN prepared
    <3>1. Source(d) \in Nodes /\ history[Source(d)] \in History
      BY <1>0, <1>2, RowType DEF TypeOK
    <3> DEFINE source == Source(d)
               fix == deliveries[d].fix
    <3>2. \A n \in Nodes : history'[n].last = history[n].last
      <4>1. history' = [history EXCEPT ![source].samples = Sampled(history[source], fix)]
        BY <1>1, <2>2 DEF Prepare
      <4>2. source \in Nodes /\ history[source] \in History
        BY <3>1
      <4> HIDE DEF source, fix
      <4> QED
        BY <1>0, <4>1, <4>2 DEF TypeOK, History
    <3>3. \A e \in DOMAIN prepared : e \in DOMAIN prepared' /\ prepared'[e] = prepared[e]
      BY <1>1, <2>2 DEF Prepare, Extended
    <3> QED
      BY <3>2, <3>3
  <2> QED
    BY <2>1, <2>2
<1>4. FilterKnowsTheMap'
  BY <1>2, <1>3 DEF MapInv, FilterKnowsTheMap
<1> QED
  BY <1>1, <1>2, <1>4 DEF MapInv

LEMMA MapSettle ==
  ASSUME IInv, MapInv, Settle
  PROVE  MapInv'
<1>0. PICK d : d = current
  OBVIOUS
<1>1. TypeOK /\ PreparedOwn /\ d \in DOMAIN batch /\ d \in DOMAIN prepared /\ d \in Ids
  BY <1>0 DEF IInv, TypeOK, CurrentInHand, Settle, Working
<1>2. /\ Complete(d) /\ pc = "settle" /\ pc' \in {"query", "deliver"} /\ UNCHANGED shown
  BY <1>0 DEF Settle, NextDelivery, caltopo
<1>3. Source(d) \in Nodes /\ history[Source(d)] \in History /\ prepared[d] \in Decision
  BY <1>1, RowType DEF TypeOK
<1>4. \A n \in Nodes :
        history'[n] = IF n = Source(d) THEN Completed(history[n], prepared[d]) ELSE history[n]
  BY <1>1, <1>2, <1>3 DEF Complete, TypeOK
<1>5. \A e \in DOMAIN prepared \ {d} : e \in DOMAIN prepared' /\ prepared'[e] = prepared[e]
  BY <1>2 DEF Complete, Without
<1>6. ASSUME NEW n \in Nodes, history'[n].last # None
      PROVE  \/ shown[n] = history'[n].last
             \/ \E e \in DOMAIN prepared' :
                  prepared'[e].publish /\ prepared'[e].position = shown[n]
  <2>1. CASE n = Source(d) /\ prepared[d].publish
    <3>1. history'[n].last = prepared[d].position
      BY <1>3, <1>4, <2>1 DEF Completed, History
    <3> QED
      BY <1>0, <1>2, <2>1, <3>1 DEF MapInv
  <2>2. CASE ~ (n = Source(d) /\ prepared[d].publish)
    <3>1. history'[n] = history[n]
      BY <1>4, <2>2 DEF Completed
    <3>2. CASE shown[n] = history[n].last
      BY <3>1, <3>2
    <3>3. CASE shown[n] # history[n].last
      <4>1. PICK e \in DOMAIN prepared :
              prepared[e].publish /\ prepared[e].position = shown[n]
        BY <1>6, <3>1, <3>3 DEF MapInv, FilterKnowsTheMap
      <4>2. prepared[e].position \in Positions
        BY <1>1 DEF TypeOK, Decision
      <4>3. shown[n] # None
        BY <4>1, <4>2, FilterAssumption
      <4>4. e # d
        BY <1>1, <2>2, <4>1, <4>3 DEF MapInv, PreparedOwn
      <4> QED
        BY <1>5, <4>1, <4>4
    <3> QED
      BY <3>2, <3>3
  <2> QED
    BY <2>1, <2>2
<1> QED
  BY <1>2, <1>6 DEF MapInv, FilterKnowsTheMap

LEMMA MapApplied ==
  ASSUME IInv, MapInv, PublishApplied
  PROVE  MapInv'
<1>0. PICK d : d = current
  OBVIOUS
<1>1. TypeOK /\ PreparedOwn /\ d \in DOMAIN prepared /\ d \in Ids
  BY <1>0 DEF IInv, TypeOK, CurrentInHand, PublishApplied, Working
<1>2. /\ UNCHANGED <<deliveries, current, history, prepared>>
      /\ pc = "publish" /\ pc' = "reply"
      /\ shown' = [shown EXCEPT ![prepared[d].position.node] = prepared[d].position]
  BY <1>0 DEF PublishApplied, CallReturns, filter
<1>3. prepared[d].position.node = Source(d) /\ Source(d) \in Nodes /\ prepared[d].publish
  BY <1>0, <1>1, <1>2, RowType DEF PreparedOwn, MapInv, TypeOK
<1>4. \A n \in Nodes :
        shown'[n] = IF n = Source(d) THEN prepared[d].position ELSE shown[n]
  BY <1>1, <1>2, <1>3 DEF TypeOK
<1>5. FilterKnowsTheMap'
  BY <1>1, <1>2, <1>3, <1>4 DEF MapInv, FilterKnowsTheMap
<1>6. Source(d)' = Source(d)
  BY <1>2 DEF Source
<1> QED
  BY <1>0, <1>2, <1>3, <1>4, <1>5, <1>6 DEF MapInv

\* Movement is measured from the position the live track shows, except while an
\* update of it is on its way.
THEOREM MapIsKnown == Spec => [](MapInv /\ FilterKnowsTheMap)
<1>1. Init => MapInv
  BY DEF Init, MapInv, FilterKnowsTheMap, NoHistory
<1>2. IInv /\ MapInv /\ [Next]_vars => MapInv'
  <2> SUFFICES ASSUME IInv, MapInv, [Next]_vars PROVE MapInv'
    OBVIOUS
  <2>1. ASSUME NEW fix \in Fixes, Archive(fix) PROVE MapInv'
    <3>1. UNCHANGED <<history, prepared, shown, pc, current>>
      BY <2>1 DEF Archive, filter, caltopo
    <3>2. pc \in Working => Source(current)' = Source(current)
      <4>1. \A d \in Ids : deliveries'[d] = deliveries[d]
        BY <2>1, EnqueueRows DEF IInv, TypeOK, Archive
      <4>2. pc \in Working => current \in Ids
        BY DEF IInv, TypeOK, CurrentInHand
      <4> QED
        BY <3>1, <4>1, <4>2 DEF Source
    <3> QED
      BY <3>1, <3>2, MapUntouched DEF Working
  <2>2. CASE WakeDeliveries \/ ClockTicks \/ UNCHANGED vars
    <3>1. UNCHANGED <<history, prepared, shown, pc, current, deliveries>>
      BY <2>2 DEF WakeDeliveries, ClockTicks, vars, filter, caltopo
    <3> QED
      BY <3>1, MapUntouched DEF Source
  <2>3. CASE TakeWake \/ TickerFires \/ StoreFails \/ QueryPending \/ DrainEnds \/ Restart
    <3>1. UNCHANGED <<history, prepared, shown>> /\ pc' \notin {"publish", "reply", "settle"}
      BY <2>3 DEF TakeWake, TickerFires, StoreFails, QueryPending, DrainEnds, Restart, filter,
                  caltopo
    <3> QED
      BY <3>1, MapUntouched
  <2>4. CASE RecordFailure \/ PublishFails
    <3>1. UNCHANGED <<history, prepared, shown>> /\ pc' \notin {"publish", "reply", "settle"}
      BY <2>4 DEF RecordFailure, NextDelivery, PublishFails, CallReturns, filter, caltopo
    <3> QED
      BY <3>1, MapUntouched
  <2>5. CASE PublishAcknowledged
    <3>1. /\ UNCHANGED <<history, prepared, shown, current, deliveries>>
          /\ pc = "reply" /\ pc' = "settle"
      BY <2>5 DEF PublishAcknowledged, CallReturns, filter, caltopo
    <3> QED
      BY <3>1 DEF MapInv, FilterKnowsTheMap, Source
  <2>6. CASE Crash
    <3>1. \A n \in Nodes : history'[n].last = None
      BY <2>6 DEF Crash, NoHistory
    <3> QED
      BY <2>6, <3>1 DEF Crash, MapInv, FilterKnowsTheMap, caltopo
  <2> QED
    BY <2>1, <2>2, <2>3, <2>4, <2>5, <2>6, MapTakeNext, MapSettle, MapApplied DEF Next
<1>3. MapInv => FilterKnowsTheMap
  BY DEF MapInv
<1> QED
  BY <1>1, <1>2, <1>3, Invariance, PTL DEF Spec

-----------------------------------------------------------------------------
(* Wake-ups.                                                               *)

LEMMA ClockType ==
  ASSUME NEW t \in Clock
  PROVE  t.sec \in Int /\ t.frac \in Int
<1>1. t.sec \in 0 .. Horizon /\ t.frac \in Fractions
  BY OutboxAssumption DEF Clock
<1>2. Base ^ Digits - 1 \in Int
  BY TimestampAssumption
<1> QED
  BY <1>1, <1>2, OutboxAssumption DEF Fractions

\* The texts hide a row for less than a second of the clock, and never when the
\* clock and the time it is due at have no fractions.
LEMMA HeldForASecond ==
  ASSUME OutboxTypeOK, NEW d \in Ids, HeldByText(d)
  PROVE  \E t \in Clock : /\ NotAfter(t, now)
                          /\ t.sec = deliveries[d].next.sec
                          /\ t.frac # deliveries[d].next.frac
<1>1. PICK t \in Clock : /\ NotAfter(deliveries[d].next, t)
                        /\ NotAfter(t, now)
                        /\ TextBefore(t, deliveries[d].next)
  BY DEF HeldByText
<1>2. deliveries[d].next \in Instants /\ t.sec \in Int /\ t.frac \in Int
  BY RowType, ClockType DEF Rows
<1>3. deliveries[d].next.sec \in Int /\ deliveries[d].next.frac \in Fractions
  BY <1>2 DEF Instants
<1>4. t.sec = deliveries[d].next.sec /\ FractionTextBefore(t.frac, deliveries[d].next.frac)
  BY <1>1, <1>2, <1>3 DEF TextBefore, NotAfter, Before
<1>5. ASSUME t.frac = deliveries[d].next.frac PROVE FALSE
  <2>1. PICK i \in 1 .. Digits : Written(t.frac, i) < Written(t.frac, i)
    BY <1>4, <1>5 DEF FractionTextBefore
  <2>2. t.frac \in Nat
    <3>1. Base ^ Digits - 1 \in Int
      BY TimestampAssumption
    <3>2. t.frac \in Fractions
      BY OutboxAssumption DEF Clock
    <3> QED
      BY <3>1, <3>2 DEF Fractions
  <2>3. \A w \in Int : ~ (w < w)
    OBVIOUS
  <2>4. Written(t.frac, i) \in Int
    BY <2>2, WrittenType
  <2> QED
    BY <2>1, <2>3, <2>4
<1> QED
  BY <1>1, <1>4, <1>5

\* A delivery that was never tried is due at once, and between a query that
\* found nothing and the next wake-up only retries are ready, and rows whose
\* text hid them from that query.
WakeInv ==
  /\ \A d \in Ids : deliveries[d].attempts = 0 =>
       deliveries[d].next \in Clock /\ NotAfter(deliveries[d].next, now)
  /\ (pc = "empty" \/ (pc = "select" /\ drained = "empty")) /\ ~ wake /\ handler = "idle" =>
       \A d \in Ids : Pending(d) /\ ~ Blocked(d) => deliveries[d].attempts > 0 \/ HeldByText(d)

\* Steps after which Run does not wait, or is sure to be woken.
LEMMA WakeUntouched ==
  ASSUME WakeInv, UNCHANGED <<deliveries, now>>,
         \/ pc' \notin {"empty", "select"}
         \/ pc' = "select" /\ drained' = "error"
         \/ wake'
         \/ handler' # "idle"
  PROVE  WakeInv'
  BY DEF WakeInv, Ids

\* When the query returns no delivery, all that is pending is blocked, waits for
\* its retry or is hidden by its text.
LEMMA NothingDue ==
  ASSUME TypeOK, WakeInv, IsPage({}), NEW d \in Ids, Pending(d), ~ Blocked(d)
  PROVE  deliveries[d].attempts > 0 \/ HeldByText(d)
<1>1. Eligible = {}
  BY OutboxAssumption, FS_EmptySet DEF IsPage
<1>2. TextBefore(now, deliveries[d].next)
  BY <1>1 DEF Eligible, Due
<1>3. now \in Clock /\ NotAfter(now, now)
  BY ClockType DEF TypeOK, OutboxTypeOK, NotAfter, Before
<1>4. deliveries[d].attempts = 0 => HeldByText(d)
  BY <1>2, <1>3 DEF WakeInv, HeldByText
<1>5. deliveries[d].attempts \in Nat
  BY RowType DEF TypeOK, Rows
<1> QED
  BY <1>4, <1>5

LEMMA WakeArchive ==
  ASSUME TypeOK, WakeInv, NEW fix \in Fixes, Archive(fix)
  PROVE  WakeInv'
<1> DEFINE row == [fix |-> fix, state |-> "pending", attempts |-> 0, next |-> now]
           new == Len(deliveries) + 1
<1>1. now' = now /\ handler' = "waking" /\ Enqueue(fix)
  BY DEF Archive
<1>2. Ids' = Ids \cup {new} /\ \A d \in Ids : deliveries'[d] = deliveries[d]
  BY <1>1, EnqueueRows DEF TypeOK, OutboxTypeOK, Ids
<1>3. deliveries'[new].next = now
  <2>1. deliveries \in Seq(Rows) /\ deliveries' = Append(deliveries, row)
    BY <1>1 DEF TypeOK, OutboxTypeOK, Enqueue
  <2>2. row.next = now
    OBVIOUS
  <2> HIDE DEF row
  <2> QED
    BY <2>1, <2>2
<1>4. now \in Clock /\ NotAfter(now, now)
  BY ClockType DEF TypeOK, OutboxTypeOK, NotAfter, Before
<1> QED
  BY <1>1, <1>2, <1>3, <1>4 DEF WakeInv

LEMMA WakeTick ==
  ASSUME TypeOK, WakeInv, ClockTicks
  PROVE  WakeInv'
<1>1. UNCHANGED <<deliveries, pc, wake, handler, drained>> /\ now' \in Clock /\ Before(now, now')
  BY DEF ClockTicks, Tick
<1>2. ASSUME NEW d \in Ids, deliveries[d].attempts = 0
      PROVE  NotAfter(deliveries[d].next, now')
  <2>1. /\ deliveries[d].next \in Clock /\ now \in Clock
        /\ NotAfter(deliveries[d].next, now)
    BY <1>2 DEF WakeInv, TypeOK, OutboxTypeOK
  <2> QED
    BY <1>1, <2>1, ClockType DEF NotAfter, Before
<1>3. \A d \in Ids : (Pending(d) /\ ~ Blocked(d))' <=> Pending(d) /\ ~ Blocked(d)
  BY <1>1 DEF Pending, Blocked, Ids, Source, Precedes, SourceTime
<1>4. ASSUME NEW d \in Ids, HeldByText(d) PROVE HeldByText(d)'
  <2>1. PICK t \in Clock : /\ NotAfter(deliveries[d].next, t)
                          /\ NotAfter(t, now)
                          /\ TextBefore(t, deliveries[d].next)
    BY <1>4 DEF HeldByText
  <2>2. NotAfter(t, now')
    BY <1>1, <2>1, ClockType DEF TypeOK, OutboxTypeOK, NotAfter, Before
  <2> QED
    BY <1>1, <2>1, <2>2 DEF HeldByText
<1> QED
  BY <1>1, <1>2, <1>3, <1>4 DEF WakeInv, Ids

\* A delivery attempted once is not new any more; the query follows.
LEMMA WakeRows ==
  ASSUME TypeOK, TypeOK', WakeInv, Settle \/ RecordFailure, CurrentInHand
  PROVE  WakeInv'
<1>0. PICK d : d = current
  OBVIOUS
<1>1. d \in Ids /\ d \in DOMAIN batch /\ batch[d] \in Nat
  BY <1>0 DEF TypeOK, CurrentInHand, Settle, RecordFailure, Working
<1>2. now' = now /\ pc' \in {"query", "deliver"}
  BY DEF Settle, RecordFailure, NextDelivery
<1>3. CASE Settle
  <2>1. deliveries' = [deliveries EXCEPT ![d].state = "delivered"]
    BY <1>0, <1>3 DEF Settle, MarkDelivered
  <2>2. \A e \in Ids : deliveries[e] \in Rows
    BY RowType DEF TypeOK
  <2>3. /\ Ids' = Ids
        /\ \A e \in Ids : /\ deliveries'[e].attempts = deliveries[e].attempts
                          /\ deliveries'[e].next = deliveries[e].next
    BY <1>1, <2>1, <2>2 DEF TypeOK, OutboxTypeOK, Ids, Rows
  <2> QED
    BY <1>2, <2>3 DEF WakeInv
<1>4. CASE RecordFailure
  <2> DEFINE attempts == batch[d] + 1
             next == Plus(now, RetryDelay(attempts))
  <2>1. deliveries' = [deliveries EXCEPT ![d] =
                         [@ EXCEPT !.state = "pending", !.attempts = attempts, !.next = next]]
    BY <1>0, <1>4 DEF RecordFailure, MarkFailed
  <2>2. attempts \in Nat \ {0} /\ deliveries[d] \in Rows
    BY <1>1, RowType DEF TypeOK
  <2> HIDE DEF attempts, next
  <2>3. /\ Ids' = Ids
        /\ \A e \in Ids \ {d} : deliveries'[e] = deliveries[e]
        /\ deliveries'[d].attempts # 0
    BY <1>1, <2>1, <2>2 DEF TypeOK, OutboxTypeOK, Ids, Rows
  <2> QED
    BY <1>2, <2>3 DEF WakeInv
<1> QED
  BY <1>3, <1>4

LEMMA WakeQuery ==
  ASSUME TypeOK, WakeInv, QueryPending
  PROVE  WakeInv'
<1>1. PICK B \in SUBSET Eligible :
        IsPage(B) /\ pc' = IF B = {} THEN "empty" ELSE "deliver"
  BY DEF QueryPending
<1>2. UNCHANGED <<deliveries, now, wake, handler, drained>>
  BY DEF QueryPending
<1>3. CASE B = {}
  <2>1. \A d \in Ids : Pending(d) /\ ~ Blocked(d) => deliveries[d].attempts > 0 \/ HeldByText(d)
    BY <1>1, <1>3, NothingDue
  <2>2. \A d \in Ids :
          /\ (Pending(d) /\ ~ Blocked(d))' <=> Pending(d) /\ ~ Blocked(d)
          /\ HeldByText(d)' <=> HeldByText(d)
    BY <1>2 DEF Pending, Blocked, Ids, Source, Precedes, SourceTime, HeldByText
  <2> QED
    BY <1>2, <2>1, <2>2 DEF WakeInv, Ids
<1>4. CASE B # {}
  BY <1>1, <1>2, <1>4, WakeUntouched
<1> QED
  BY <1>3, <1>4

(***************************************************************************)
(* No wake-up is lost.  Whatever comes between the commit of a fix, the    *)
(* call of Wake, the query and the return to the select, a fix that was    *)
(* never tried is not left waiting for the ticker, unless the text of its  *)
(* time sorts after that of a later instant of the same second             *)
(* (HeldForASecond).                                                       *)
(***************************************************************************)
THEOREM WakesAreKept == Spec => []NoLostWake
<1>1. Init => WakeInv
  BY DEF Init, OutboxInit, WakeInv, Ids
<1>2. IInv /\ IInv' /\ WakeInv /\ [Next]_vars => WakeInv'
  <2> SUFFICES ASSUME IInv, IInv', WakeInv, [Next]_vars PROVE WakeInv'
    OBVIOUS
  <2> USE DEF IInv
  <2>1. ASSUME NEW fix \in Fixes, Archive(fix) PROVE WakeInv'
    BY <2>1, WakeArchive
  <2>2. CASE WakeDeliveries \/ TakeWake \/ TickerFires \/ Crash \/ Restart \/ StoreFails
    <3>1. /\ UNCHANGED <<deliveries, now>>
          /\ \/ pc' \notin {"empty", "select"}
             \/ pc' = "select" /\ drained' = "error"
             \/ wake'
      BY <2>2 DEF WakeDeliveries, TakeWake, TickerFires, Crash, Restart, StoreFails
    <3> QED
      BY <3>1, WakeUntouched
  <2>3. CASE QueryPending
    BY <2>3, WakeQuery
  <2>4. CASE DrainEnds
    BY <2>4
    DEF DrainEnds, WakeInv, Ids, Pending, Blocked, Source, Precedes, SourceTime, HeldByText
  <2>5. CASE TakeNext \/ PublishApplied \/ PublishAcknowledged \/ PublishFails
    <3>1. UNCHANGED <<deliveries, now>> /\ pc' \notin {"empty", "select"}
      BY <2>5 DEF TakeNext, PublishApplied, PublishAcknowledged, PublishFails, CallReturns
    <3> QED
      BY <3>1, WakeUntouched
  <2>6. CASE Settle \/ RecordFailure
    BY <2>6, WakeRows
  <2>7. CASE ClockTicks
    BY <2>7, WakeTick
  <2>8. CASE UNCHANGED vars
    BY <2>8
    DEF vars, WakeInv, Ids, Pending, Blocked, Source, Precedes, SourceTime, HeldByText
  <2> QED
    BY <2>1, <2>2, <2>3, <2>4, <2>5, <2>6, <2>7, <2>8 DEF Next
<1>3. IInv /\ WakeInv => NoLostWake
  BY DEF WakeInv, NoLostWake, Eligible
<1> QED
  BY <1>1, <1>2, <1>3, Invariance, PTL DEF Spec

-----------------------------------------------------------------------------
(* What the worker admits of intake.                                       *)

Feed == INSTANCE OutboxFeed WITH queue <- log, waking <- (handler = "waking")

\* The worker asks no more of intake than that it keeps to OutboxFeed: as long
\* as the process runs, a step that OutboxFeed allows and that leaves the worker
\* itself alone is a step of Worker.
LEMMA IntakeAdmitted ==
  ASSUME TypeOK, pc # "down", Len(deliveries) < MaxRows, handler' \in {"idle", "waking"},
         UNCHANGED <<now, pc, batch, current, filter, drained, caltopo>>
  PROVE  /\ \A fix \in Fixes : Feed!Put /\ Enqueue(fix) /\ UNCHANGED wake => Archive(fix)
         /\ Feed!Woken /\ UNCHANGED deliveries /\ wake' => WakeDeliveries
<1>1. ASSUME NEW fix \in Fixes, Feed!Put, Enqueue(fix), UNCHANGED wake
      PROVE  Archive(fix)
  <2>1. handler = "idle" /\ handler' = "waking"
    BY <1>1 DEF TypeOK, Feed!Put
  <2>2. PICK new : new = Len(deliveries) + 1
    OBVIOUS
  <2>3. /\ Len(deliveries) \in Nat
        /\ Ids = 1 .. Len(deliveries) /\ Ids' = 1 .. new
        /\ deliveries'[new].fix = fix
    BY <1>1, <2>2, EnqueueRows DEF Ids, TypeOK, OutboxTypeOK
  <2>4. DOMAIN log = 1 .. Len(deliveries) /\ DOMAIN log' = 1 .. new
    BY <2>3 DEF log
  <2>5. Len(log') = new /\ log'[new] = fix
    <3>1. deliveries' \in Seq(Rows) /\ Len(deliveries') = new /\ new \in Nat
      BY <1>1, <2>2, <2>3, EnqueueRows DEF TypeOK
    <3>2. \A d \in 1 .. new : deliveries'[d].fix \in Fixes
      <4>1. \A d \in 1 .. new : deliveries'[d] \in Rows
        BY <3>1, ElementOfSeq
      <4> QED
        BY <4>1 DEF Rows
    <3>3. log' = [d \in 1 .. new |-> deliveries'[d].fix]
      BY <2>3 DEF log
    <3>4. log' \in Seq(Fixes) /\ new \in 1 .. new
      BY <2>2, <2>3, <3>1, <3>2, <3>3
    <3> QED
      BY <2>3, <2>4, <3>1, <3>3, <3>4, LenProperties
  <2>6. \A d \in Ids : log[d] # fix
    BY <1>1, <2>3, <2>4, <2>5 DEF Feed!Put
  <2>7. ~ Archived(fix)
    BY <2>6 DEF Archived, log
  <2> QED
    BY <1>1, <2>1, <2>7 DEF Archive
<1>2. Feed!Woken /\ UNCHANGED deliveries /\ wake' => WakeDeliveries
  BY DEF Feed!Woken, WakeDeliveries, TypeOK
<1> QED
  BY <1>1, <1>2

-----------------------------------------------------------------------------
(* Backoff.                                                                *)

\* What the query found due stays due until it is dealt with.
DueInv == \A d \in DOMAIN batch : deliveries[d].next.sec <= now.sec

LEMMA DueStep ==
  ASSUME IInv, DueInv, [Next]_vars
  PROVE  DueInv'
<1>0. TypeOK /\ OutboxTypeOK /\ DOMAIN batch \subseteq Ids
  BY DEF IInv, TypeOK
<1>1. ASSUME NEW fix \in Fixes, Archive(fix) PROVE DueInv'
  <2>1. \A d \in Ids : deliveries'[d] = deliveries[d]
    BY <1>0, <1>1, EnqueueRows DEF Archive
  <2> QED
    BY <1>0, <1>1, <2>1 DEF Archive, DueInv
<1>2. CASE UNCHANGED <<deliveries, now, batch>>
  BY <1>2 DEF DueInv
<1>3. CASE QueryPending
  <2>1. PICK B \in SUBSET Eligible : batch' = [d \in B |-> deliveries[d].attempts]
    BY <1>3 DEF QueryPending
  <2>2. ASSUME NEW d \in Eligible PROVE deliveries[d].next.sec <= now.sec
    <3>1. d \in Ids /\ ~ TextBefore(now, deliveries[d].next)
      BY DEF Eligible, Due
    <3>2. deliveries[d].next \in Instants
      BY <1>0, <3>1, RowType DEF Rows
    <3>3. deliveries[d].next.sec \in Int /\ now.sec \in Int
      BY <1>0, <3>2, ClockType DEF Instants, OutboxTypeOK
    <3> QED
      BY <3>1, <3>3 DEF TextBefore
  <2> QED
    BY <1>3, <2>1, <2>2 DEF QueryPending, DueInv
<1>4. CASE StoreFails \/ Crash
  BY <1>4 DEF StoreFails, Crash, EmptyBatch, DueInv
<1>5. CASE Settle \/ RecordFailure
  <2>1. PICK d : d = current
    OBVIOUS
  <2>2. batch' = Without(batch, d) /\ now' = now
    BY <1>5, <2>1 DEF Settle, RecordFailure, NextDelivery
  <2>3. \A e \in Ids \ {d} : deliveries'[e] = deliveries[e]
    BY <1>0, <1>5, <2>1 DEF Settle, MarkDelivered, RecordFailure, MarkFailed, OutboxTypeOK, Ids
  <2> QED
    BY <1>0, <2>2, <2>3 DEF Without, DueInv
<1>6. CASE ClockTicks
  <2>1. UNCHANGED <<deliveries, batch>> /\ Before(now, now') /\ now' \in Clock
    BY <1>6 DEF ClockTicks, Tick
  <2>2. now.sec <= now'.sec
    BY <1>0, <2>1, ClockType DEF Before, OutboxTypeOK
  <2>3. ASSUME NEW d \in DOMAIN batch PROVE deliveries[d].next.sec <= now'.sec
    <3>1. deliveries[d].next \in Instants
      BY <1>0, RowType DEF Rows
    <3>2. deliveries[d].next.sec \in Int /\ now.sec \in Int /\ now'.sec \in Int
      BY <1>0, <2>1, <3>1, ClockType DEF Instants, OutboxTypeOK
    <3> QED
      BY <2>2, <3>2 DEF DueInv
  <2> QED
    BY <2>1, <2>3 DEF DueInv
<1> QED
  BY <1>1, <1>2, <1>3, <1>4, <1>5, <1>6
  DEF Next, vars, WakeDeliveries, TakeWake, TickerFires, DrainEnds, TakeNext,
      PublishApplied, PublishAcknowledged, PublishFails, CallReturns, Restart

(***************************************************************************)
(* Whatever fails, restarts or is archived between the query and the       *)
(* update, no update is sent before the second its last failure put it off *)
(* to.                                                                     *)
(***************************************************************************)
THEOREM RetriesWait == Spec => BackoffHonoured
<1>1. Init => DueInv
  BY DEF Init, EmptyBatch, DueInv
<1>2. IInv /\ DueInv /\ [Next]_vars => DueInv'
  BY DueStep
<1>3. IInv /\ DueInv /\ [Next]_vars =>
        (pc' = "publish" /\ pc # "publish" => deliveries[current'].next.sec <= now.sec)
  <2> SUFFICES ASSUME DueInv, [Next]_vars, pc' = "publish", pc # "publish"
               PROVE  deliveries[current'].next.sec <= now.sec
    OBVIOUS
  <2>1. TakeNext
    BY DEF Next, vars, Archive, WakeDeliveries, TakeWake, TickerFires, StoreFails,
           QueryPending, DrainEnds, Settle, RecordFailure, NextDelivery, PublishApplied,
           PublishAcknowledged, PublishFails, CallReturns, Crash, Restart, ClockTicks
  <2> QED
    BY <2>1 DEF TakeNext, DueInv
<1> QED
  BY <1>1, <1>2, <1>3, Invariance, PTL DEF Spec, BackoffHonoured

-----------------------------------------------------------------------------
(* Movement.                                                               *)

LEMMA SomeIdsFinite ==
  ASSUME NEW last \in Nat, NEW S \in SUBSET (1 .. last)
  PROVE  IsFiniteSet(S) /\ Cardinality(S) \in Nat
<1>1. IsFiniteSet(1 .. last)
  BY FS_Interval
<1>2. IsFiniteSet(S)
  BY <1>1, FS_Subset, Zenon
<1> QED
  BY <1>2, FS_CardinalityType

LEMMA PairIsTwo ==
  ASSUME NEW S \in SUBSET (1 .. 3), NEW i \in S, NEW j \in S, i # j
  PROVE  Cardinality(S) >= 2
<1>1. IsFiniteSet(S) /\ Cardinality(S) \in Nat
  BY SomeIdsFinite
<1>2. IsFiniteSet({i}) /\ Cardinality({i}) = 1
  BY FS_Singleton
<1>3. Cardinality({i} \cup {j}) = 2
  <2>1. j \notin {i}
    OBVIOUS
  <2>2. Cardinality({i} \cup {j}) = Cardinality({i}) + 1
    BY <1>2, <2>1, FS_AddElement, Zenon
  <2> QED
    BY <1>2, <2>2
<1>4. {i} \cup {j} \in SUBSET S
  OBVIOUS
<1>5. Cardinality({i} \cup {j}) <= Cardinality(S)
  BY <1>1, <1>4, FS_Subset
<1> QED
  BY <1>1, <1>3, <1>5

\* The further from a point on the same side, the greater the square.
LEMMA SquareGrows ==
  ASSUME NEW a \in Int, NEW b \in Int, (0 <= a /\ a <= b) \/ (b <= a /\ a <= 0)
  PROVE  Square(a) <= Square(b)
<1>1. CASE 0 <= a /\ a <= b
  <2>1. a * a <= a * b /\ a * b <= b * b
    BY <1>1
  <2> QED
    BY <2>1 DEF Square
<1>2. CASE b <= a /\ a <= 0
  <2>1. a * a <= a * b /\ a * b <= b * b
    BY <1>2
  <2> QED
    BY <2>1 DEF Square
<1> QED
  BY <1>1, <1>2

LEMMA SquareType ==
  ASSUME NEW a \in Int
  PROVE  Square(a) \in Nat
<1>1. a * a \in Int /\ 0 <= a * a
  OBVIOUS
<1> QED
  BY <1>1 DEF Square

\* When the median of a coordinate is far from a point, so is the same coordinate
\* of two samples.
LEMMA MedianNeedsTwo ==
  ASSUME NEW values \in [1 .. 3 -> Int], NEW last \in Int, NEW far \in Int,
         2 * Square(last - MedianCoordinate(values)) >= far
  PROVE  \E i, j \in 1 .. 3 : /\ i # j
                              /\ 2 * Square(last - values[i]) >= far
                              /\ 2 * Square(last - values[j]) >= far
<1>1. PICK middle, low, high \in 1 .. 3 :
        /\ {low, middle, high} = 1 .. 3
        /\ values[low] <= values[middle]
        /\ values[middle] <= values[high]
        /\ MedianCoordinate(values) = values[middle]
  BY MedianIsMiddle
<1>2. low # middle /\ middle # high
  <2>1. 1 \in {low, middle, high} /\ 2 \in {low, middle, high} /\ 3 \in {low, middle, high}
    <3>1. 1 \in 1 .. 3 /\ 2 \in 1 .. 3 /\ 3 \in 1 .. 3
      OBVIOUS
    <3> QED
      BY <1>1, <3>1, Zenon
  <2> QED
    BY <2>1
<1>3. PICK x, y, z \in Int :
        /\ x = last - values[low] /\ y = last - values[middle] /\ z = last - values[high]
        /\ y <= x /\ z <= y
  <2>1. values[low] \in Int /\ values[middle] \in Int /\ values[high] \in Int
    OBVIOUS
  <2> QED
    BY <1>1, <2>1
<1>4. Square(y) <= Square(x) \/ Square(y) <= Square(z)
  BY <1>3, SquareGrows
<1>5. Square(x) \in Nat /\ Square(y) \in Nat /\ Square(z) \in Nat /\ 2 * Square(y) >= far
  BY <1>1, <1>3, SquareType
<1>6. 2 * Square(x) >= far \/ 2 * Square(z) >= far
  BY <1>4, <1>5
<1> QED
  BY <1>2, <1>3, <1>5, <1>6

\* A decision to publish, by the reason for it.
LEMMA PublishedForMovement ==
  ASSUME NEW h \in History, NEW fix \in Fixes, Decide(h, fix).publish,
         h.last # None, ~ HeartbeatDue(h.last, fix)
  PROVE  LET samples == Sampled(h, fix)
         IN  Cardinality({i \in DOMAIN samples :
               2 * DistanceSquared(h.last.loc, samples[i].loc) >= Square(Movement)}) >= 2
<1>1. PICK samples, last, far :
        samples = Sampled(h, fix) /\ last = h.last.loc /\ far = Square(Movement)
  OBVIOUS
<1>2. samples \in Seq(Fixes) /\ last \in Points /\ far \in Int
  BY <1>1, SampledType, SquareType, FilterAssumption DEF History, Positions
<1>3. /\ Len(samples) = 3
      /\ DistanceSquared(last, MedianPoint(samples)) >= far
  <2>1. Len(samples) = 3 /\ DistanceSquared(last, Smoothed(samples, fix).loc) >= far
    BY <1>1 DEF Decide
  <2>2. fix \in Positions
    BY FilterAssumption
  <2> QED
    BY <2>1, <2>2 DEF Smoothed, Positions
<1>4. /\ DOMAIN samples = 1 .. 3
      /\ \A i \in 1 .. 3 : samples[i].loc \in Points
  <2>1. DOMAIN samples = 1 .. 3 /\ \A i \in 1 .. 3 : samples[i] \in Fixes
    BY <1>2, <1>3, LenProperties, ElementOfSeq
  <2> QED
    BY <2>1, FilterAssumption DEF Positions
<1> DEFINE Moved == {i \in DOMAIN samples : 2 * DistanceSquared(last, samples[i].loc) >= far}
           lats  == [i \in 1 .. 3 |-> samples[i].loc.lat]
           lons  == [i \in 1 .. 3 |-> samples[i].loc.lon]
<1>5. lats \in [1 .. 3 -> Int] /\ lons \in [1 .. 3 -> Int] /\ last.lat \in Int /\ last.lon \in Int
  BY <1>2, <1>4 DEF Points
<1>6. \A i \in 1 .. 3 :
        /\ Square(last.lat - lats[i]) \in Nat /\ Square(last.lon - lons[i]) \in Nat
        /\ DistanceSquared(last, samples[i].loc)
             = Square(last.lat - lats[i]) + Square(last.lon - lons[i])
  BY <1>4, <1>5, SquareType DEF Points, DistanceSquared
<1>7. ASSUME NEW i \in 1 .. 3,
             \/ 2 * Square(last.lat - lats[i]) >= far
             \/ 2 * Square(last.lon - lons[i]) >= far
      PROVE  i \in Moved
  <2>1. PICK x, y : x = Square(last.lat - lats[i]) /\ y = Square(last.lon - lons[i])
    OBVIOUS
  <2>2. x \in Nat /\ y \in Nat /\ DistanceSquared(last, samples[i].loc) = x + y
    BY <1>6, <2>1
  <2>3. 2 * (x + y) >= far
    BY <1>2, <1>7, <2>1, <2>2
  <2> QED
    BY <1>4, <2>2, <2>3
<1>8. \/ 2 * Square(last.lat - MedianCoordinate(lats)) >= far
      \/ 2 * Square(last.lon - MedianCoordinate(lons)) >= far
  <2>1. MedianCoordinate(lats) \in Int /\ MedianCoordinate(lons) \in Int
    BY <1>5, MedianIsMiddle
  <2>2. PICK x, y : /\ x = Square(last.lat - MedianCoordinate(lats))
                    /\ y = Square(last.lon - MedianCoordinate(lons))
    OBVIOUS
  <2>3. x \in Nat /\ y \in Nat
    BY <1>5, <2>1, <2>2, SquareType
  <2>4. x + y >= far
    BY <1>3, <2>2 DEF DistanceSquared, MedianPoint
  <2>5. 2 * x >= far \/ 2 * y >= far
    BY <1>2, <2>3, <2>4
  <2> QED
    BY <2>2, <2>5
<1>9. PICK i, j \in 1 .. 3 : i # j /\ i \in Moved /\ j \in Moved
  <2>1. CASE 2 * Square(last.lat - MedianCoordinate(lats)) >= far
    <3>1. PICK i, j \in 1 .. 3 : /\ i # j
                                 /\ 2 * Square(last.lat - lats[i]) >= far
                                 /\ 2 * Square(last.lat - lats[j]) >= far
      BY <1>2, <1>5, <2>1, MedianNeedsTwo
    <3> QED
      BY <1>7, <3>1
  <2>2. CASE 2 * Square(last.lon - MedianCoordinate(lons)) >= far
    <3>1. PICK i, j \in 1 .. 3 : /\ i # j
                                 /\ 2 * Square(last.lon - lons[i]) >= far
                                 /\ 2 * Square(last.lon - lons[j]) >= far
      BY <1>2, <1>5, <2>2, MedianNeedsTwo
    <3> QED
      BY <1>7, <3>1
  <2> QED
    BY <1>8, <2>1, <2>2
<1>10. Moved \in SUBSET (1 .. 3)
  BY <1>4
<1> HIDE DEF Moved
<1>11. Cardinality(Moved) >= 2
  BY <1>9, <1>10, PairIsTwo
<1> QED
  BY <1>1, <1>11 DEF Moved

(***************************************************************************)
(* A stray sample does not move the live track by itself: unless the node  *)
(* has no point of reference or a heartbeat is due, an update is decided   *)
(* on only when two of the last three samples are Movement / sqrt(2) or    *)
(* more away, that is when a coordinate of two of them has moved the way   *)
(* its median has.                                                         *)
(***************************************************************************)
THEOREM MovesAreConfirmed == Spec => MovementConfirmed
<1>1. IInv /\ [Next]_vars =>
        \A d \in DOMAIN prepared' \ DOMAIN prepared :
             LET before  == history[Source(d)]
                 samples == history'[Source(d)].samples
                 Moved   == {i \in DOMAIN samples :
                               2 * DistanceSquared(before.last.loc, samples[i].loc) >= Square(Movement)}
             IN  prepared'[d].publish =>
                   \/ before.last = None
                   \/ HeartbeatDue(before.last, deliveries[d].fix)
                   \/ Cardinality(Moved) >= 2
  <2> SUFFICES ASSUME IInv, [Next]_vars, NEW d \in DOMAIN prepared' \ DOMAIN prepared,
                      prepared'[d].publish
               PROVE  LET before  == history[Source(d)]
                          samples == history'[Source(d)].samples
                          Moved   == {i \in DOMAIN samples :
                                        2 * DistanceSquared(before.last.loc, samples[i].loc)
                                          >= Square(Movement)}
                      IN  \/ before.last = None
                          \/ HeartbeatDue(before.last, deliveries[d].fix)
                          \/ Cardinality(Moved) >= 2
    OBVIOUS
  <2>1. TakeNext
    <3>1. \A e \in DOMAIN Without(prepared, current) : e \in DOMAIN prepared
      BY DEF Without
    <3> QED
      BY <3>1
      DEF Next, vars, filter, Archive, WakeDeliveries, TakeWake, TickerFires, StoreFails,
          QueryPending, DrainEnds, Settle, Complete, RecordFailure, PublishApplied,
          PublishAcknowledged, PublishFails, CallReturns, Crash, EmptyFilter, Restart,
          ClockTicks
  <2>2. PICK e \in DOMAIN batch : Prepare(e)
    BY <2>1 DEF TakeNext
  <2> DEFINE source == Source(e)
             fix == deliveries[e].fix
             decision == Decide(history[source], fix)
  <2>3. /\ e = d
        /\ history' = [history EXCEPT ![source].samples = Sampled(history[source], fix)]
        /\ prepared'[e] = decision
    BY <2>2 DEF Prepare, filter, Extended
  <2>4. source \in Nodes /\ history[source] \in History /\ fix \in Fixes
    BY RowType DEF IInv, TypeOK
  <2>5. fix = deliveries[d].fix /\ source = Source(d)
    BY <2>3
  <2> HIDE DEF source, fix
  <2>6. history'[source].samples = Sampled(history[source], fix)
    BY <2>3, <2>4 DEF IInv, TypeOK, History
  <2> QED
    BY <2>3, <2>4, <2>5, <2>6, PublishedForMovement
<1> QED
  BY <1>1, Invariance, PTL DEF Spec, MovementConfirmed
-----------------------------------------------------------------------------
(* The live track.                                                         *)

\* What a live track shows is the time of a delivery that was applied.
ShownApplied ==
  \A n \in Nodes : shown[n] # None =>
    \E e \in applied : Source(e) = n /\ SourceTime(e) = shown[n].time

\* The one step that changes the map.
LEMMA ShownStep ==
  ASSUME IInv, PublishApplied
  PROVE  /\ current \in Ids /\ Pending(current) /\ Source(current) \in Nodes
         /\ UNCHANGED deliveries /\ applied' = applied \cup {current}
         /\ \A n \in Nodes : n # Source(current) => shown'[n] = shown[n]
         /\ shown'[Source(current)].time = SourceTime(current)
<1>0. PICK d : d = current
  OBVIOUS
<1>1. TypeOK /\ OutboxTypeOK /\ PreparedOwn /\ BatchFresh /\ d \in DOMAIN batch
      /\ d \in DOMAIN prepared /\ d \in Ids
  BY <1>0 DEF IInv, TypeOK, CurrentInHand, PublishApplied, Working
<1>2. /\ UNCHANGED deliveries /\ applied' = applied \cup {d}
      /\ shown' = [shown EXCEPT ![prepared[d].position.node] = prepared[d].position]
  BY <1>0 DEF PublishApplied, CallReturns
<1>3. Source(d) \in Nodes /\ Pending(d)
  BY <1>1, RowType DEF BatchFresh
<1>4. prepared[d].position.node = Source(d) /\ prepared[d].position.time = SourceTime(d)
  BY <1>1 DEF PreparedOwn
<1>5. \A n \in Nodes :
        shown'[n] = IF n = Source(d) THEN prepared[d].position ELSE shown[n]
  BY <1>1, <1>2, <1>3, <1>4 DEF TypeOK
<1> QED
  BY <1>0, <1>1, <1>2, <1>3, <1>4, <1>5

\* All other steps leave the map and the fixes in the outbox alone.
LEMMA ShownKept ==
  ASSUME IInv, [Next]_vars, ~ PublishApplied
  PROVE  /\ UNCHANGED caltopo
         /\ \A d \in Ids : /\ d \in Ids'
                           /\ deliveries'[d].fix = deliveries[d].fix
<1>0. OutboxTypeOK /\ \A d \in Ids : deliveries[d] \in Rows
  BY RowType DEF IInv, TypeOK
<1>1. ASSUME NEW fix \in Fixes, Archive(fix)
      PROVE  /\ UNCHANGED caltopo
             /\ \A d \in Ids : d \in Ids' /\ deliveries'[d].fix = deliveries[d].fix
  BY <1>0, <1>1, EnqueueRows DEF Archive, Ids, OutboxTypeOK
<1>2. CASE UNCHANGED <<deliveries, caltopo>>
  BY <1>2 DEF Ids
<1>3. CASE Settle
  <2>1. PICK d : deliveries' = [deliveries EXCEPT ![d].state = "delivered"]
    BY <1>3 DEF Settle, MarkDelivered
  <2> QED
    BY <1>0, <1>3, <2>1 DEF Settle, OutboxTypeOK, Ids, Rows
<1>4. CASE RecordFailure
  <2>1. PICK d, attempts, next :
          deliveries' = [deliveries EXCEPT ![d] =
            [@ EXCEPT !.state = "pending", !.attempts = attempts, !.next = next]]
    BY <1>4 DEF RecordFailure, MarkFailed
  <2> QED
    BY <1>0, <1>4, <2>1 DEF RecordFailure, OutboxTypeOK, Ids, Rows
<1> QED
  BY <1>1, <1>2, <1>3, <1>4
  DEF Next, vars, caltopo, WakeDeliveries, TakeWake, TickerFires, StoreFails, QueryPending,
      DrainEnds, TakeNext, PublishAcknowledged, PublishFails, CallReturns, Crash, Restart,
      ClockTicks

LEMMA ShownAppliedStep ==
  ASSUME IInv, ShownApplied, [Next]_vars
  PROVE  ShownApplied'
<1>0. applied \subseteq Ids
  BY DEF IInv, TypeOK
<1>1. CASE PublishApplied
  <2> SUFFICES ASSUME NEW n \in Nodes, shown'[n] # None
               PROVE  \E e \in applied' : Source(e)' = n /\ SourceTime(e)' = shown'[n].time
    BY DEF ShownApplied
  <2>1. \A e : Source(e)' = Source(e) /\ SourceTime(e)' = SourceTime(e)
    BY <1>1, ShownStep DEF Source, SourceTime
  <2> QED
    BY <1>1, <2>1, ShownStep DEF ShownApplied
<1>2. CASE ~ PublishApplied
  <2>1. /\ UNCHANGED caltopo
        /\ \A e \in Ids : Source(e)' = Source(e) /\ SourceTime(e)' = SourceTime(e)
    BY <1>2, ShownKept DEF Source, SourceTime
  <2> QED
    BY <1>0, <2>1 DEF ShownApplied, caltopo
<1> QED
  BY <1>1, <1>2

\* An update that moves the track of a node back is one of a late fix.
LEMMA BackIsLate ==
  ASSUME TextsSort, IInv, ShownApplied, [Next]_vars,
         NEW n \in Nodes, shown[n] # None, Before(shown'[n].time, shown[n].time)
  PROVE  Source(current) = n /\ Late(current)
<1>0. PICK d : d = current
  OBVIOUS
<1>1. PICK e \in applied : Source(e) = n /\ SourceTime(e) = shown[n].time
  BY DEF ShownApplied
<1>2. TypeOK /\ OutboxTypeOK /\ InTextOrder /\ e \in Ids /\ SourceTime(e) \in Instants
  <2>1. TypeOK /\ OutboxTypeOK /\ InTextOrder /\ e \in Ids
    BY DEF IInv, TypeOK
  <2>2. SourceTime(e) \in Instants
    BY <2>1, RowType, FilterAssumption DEF SourceTime, Positions
  <2> QED
    BY <2>1, <2>2
<1>3. ~ Before(SourceTime(e), SourceTime(e))
  BY <1>2, InstantType DEF Before
<1>4. PublishApplied
  BY <1>1, <1>3, ShownKept DEF caltopo
<1>5. d \in Ids /\ Pending(d) /\ Source(d) = n /\ Before(SourceTime(d), SourceTime(e))
  BY <1>0, <1>1, <1>3, <1>4, ShownStep
<1>6. SourceTime(d) \in Times /\ SourceTime(e) \in Times
  BY <1>2, <1>5, RowType, FilterAssumption DEF SourceTime, Positions
<1>7. SourceTime(d) \in Instants
  BY <1>6, FilterAssumption
<1>8. e < d
  <2>1. NotAfter(SourceTime(d), SourceTime(e)) /\ SourceTime(d) # SourceTime(e)
    BY <1>2, <1>5, <1>7, InstantType DEF NotAfter, Before
  <2>2. Precedes(d, e)
    BY <1>6, <2>1 DEF TextsSort, Precedes
  <2>3. ~ (d \in 1 .. (e - 1))
    BY <1>1, <1>2, <1>5, <2>2 DEF InTextOrder, Started, Pending, Delivered
  <2> QED
    BY <1>2, <1>5, <2>1, <2>3 DEF Ids
<1>9. e \in 1 .. (d - 1)
  BY <1>2, <1>5, <1>8 DEF Ids
<1> QED
  BY <1>0, <1>1, <1>5, <1>9 DEF Late

(***************************************************************************)
(* Nothing moves the live track of a node back in time but a fix that was  *)
(* archived after a newer one: no retry, no lost answer, no crash and no   *)
(* query made too early.                                                   *)
(***************************************************************************)
THEOREM OnlyLateFixes == TextsSort => (Spec => OnlyLateFixesGoBack)
<1> SUFFICES ASSUME TextsSort PROVE Spec => OnlyLateFixesGoBack
  OBVIOUS
<1>1. Init => ShownApplied
  BY DEF Init, ShownApplied
<1>2. IInv /\ ShownApplied /\ [Next]_vars => ShownApplied'
  BY ShownAppliedStep
<1>3. IInv /\ ShownApplied /\ [Next]_vars =>
        \A n \in Nodes : shown[n] # None /\ Before(shown'[n].time, shown[n].time)
          => Source(current) = n /\ Late(current)
  BY BackIsLate
<1> QED
  BY <1>1, <1>2, <1>3, Invariance, PTL DEF Spec, OnlyLateFixesGoBack

(***************************************************************************)
(* So where each node's fixes are archived in the order of their times,    *)
(* the README's promise is kept.                                           *)
(***************************************************************************)
THEOREM TrackKeptInTime ==
  TextsSort => (Spec /\ [](\A d \in Ids : ~ Late(d)) => TrackNeverGoesBack)
<1> SUFFICES ASSUME TextsSort
             PROVE  Spec /\ [](\A d \in Ids : ~ Late(d)) => TrackNeverGoesBack
  OBVIOUS
<1>1. Init => ShownApplied
  BY DEF Init, ShownApplied
<1>2. IInv /\ ShownApplied /\ [Next]_vars => ShownApplied'
  BY ShownAppliedStep
<1>3. IInv /\ ShownApplied /\ [Next]_vars /\ (\A d \in Ids : ~ Late(d)) =>
        \A n \in Nodes : shown[n] # None => NotAfter(shown[n].time, shown'[n].time)
  <2> SUFFICES ASSUME IInv, ShownApplied, [Next]_vars, \A d \in Ids : ~ Late(d),
                      NEW n \in Nodes, shown[n] # None, Before(shown'[n].time, shown[n].time)
               PROVE  FALSE
    BY DEF NotAfter
  <2>1. Late(current)
    BY BackIsLate
  <2>2. ~ PublishApplied
    BY <2>1, ShownStep
  <2>3. shown' = shown /\ shown[n].time \in Instants
    BY <2>2, ShownKept, FilterAssumption DEF caltopo, IInv, TypeOK, Positions
  <2> QED
    BY <2>3, InstantType DEF Before
<1> QED
  BY <1>1, <1>2, <1>3, Invariance, PTL DEF Spec, TrackNeverGoesBack

-----------------------------------------------------------------------------
(* The life of a row.                                                      *)

\* What a step may make of a row: nothing at all once it is delivered; else it
\* is delivered, or one more failure of it is counted and it is put off.
RowLife(d) ==
  LET before == deliveries[d]
      after  == deliveries'[d]
  IN  /\ d \in Ids'
      /\ \/ after = before
         \/ /\ before.state = "pending"
            /\ after.state = "delivered"
            /\ after.fix = before.fix
            /\ after.attempts = before.attempts
            /\ after.next = before.next
         \/ /\ before.state = "pending"
            /\ after.state = "pending"
            /\ after.fix = before.fix
            /\ after.attempts = before.attempts + 1
            /\ after.next.sec \in (now.sec + 1) .. (now.sec + 256)
            /\ now' = now

LEMMA DeliveredRow ==
  ASSUME IInv, Settle, NEW d \in Ids
  PROVE  RowLife(d) /\ Ids' = Ids
<1>1. OutboxTypeOK /\ DOMAIN batch \subseteq Ids /\ CurrentInHand
  BY DEF IInv, TypeOK
<1>2. PICK c : c = current
  OBVIOUS
<1>3. c \in Ids /\ Pending(c) /\ deliveries' = [deliveries EXCEPT ![c].state = "delivered"]
  BY <1>1, <1>2 DEF Settle, MarkDelivered, CurrentInHand, Working
<1>4. Ids' = Ids
  BY <1>1, <1>3 DEF OutboxTypeOK, Ids
<1>5. CASE d # c
  BY <1>1, <1>3, <1>4, <1>5 DEF OutboxTypeOK, Ids, RowLife
<1>6. CASE d = c
  <2>1. PICK row : row = deliveries[d]
    OBVIOUS
  <2>2. row \in Rows /\ row.state = "pending"
    BY <1>1, <1>3, <1>6, <2>1, RowType DEF Pending
  <2>3. deliveries'[d] = [row EXCEPT !.state = "delivered"]
    BY <1>1, <1>3, <1>6, <2>1 DEF OutboxTypeOK, Ids
  <2> QED
    BY <1>4, <2>1, <2>2, <2>3 DEF RowLife, Rows
<1> QED
  BY <1>4, <1>5, <1>6

LEMMA FailedRow ==
  ASSUME IInv, RecordFailure, NEW d \in Ids
  PROVE  RowLife(d) /\ Ids' = Ids
<1>1. OutboxTypeOK /\ CurrentInHand /\ DOMAIN batch \subseteq Ids /\ now' = now
  BY DEF IInv, TypeOK, RecordFailure
<1>2. PICK c, attempts, next : /\ c = current /\ attempts = batch[c] + 1
                               /\ next = Plus(now, RetryDelay(attempts))
  OBVIOUS
<1>3. /\ c \in Ids /\ Pending(c) /\ deliveries[c].attempts = batch[c]
      /\ deliveries' = [deliveries EXCEPT ![c] =
                          [@ EXCEPT !.state = "pending", !.attempts = attempts, !.next = next]]
  BY <1>1, <1>2 DEF IInv, BatchFresh, RecordFailure, MarkFailed, CurrentInHand, Working
<1>4. Ids' = Ids
  BY <1>1, <1>3 DEF OutboxTypeOK, Ids
<1>5. CASE d # c
  BY <1>1, <1>3, <1>4, <1>5 DEF OutboxTypeOK, Ids, RowLife
<1>6. CASE d = c
  <2>1. PICK row : row = deliveries[d]
    OBVIOUS
  <2>2. row \in Rows /\ row.state = "pending" /\ attempts = row.attempts + 1
    BY <1>1, <1>2, <1>3, <1>6, <2>1, RowType DEF Pending
  <2>3. attempts \in Nat
    BY <2>2 DEF Rows
  <2>4. next.sec \in (now.sec + 1) .. (now.sec + 256)
    <3>1. RetryDelay(attempts) \in 1 .. 256
      BY <2>3, DelayBounded
    <3>2. now \in Clock /\ now.sec \in Int
      BY <1>1, ClockType DEF OutboxTypeOK
    <3>3. next.sec = now.sec + RetryDelay(attempts)
      BY <1>2, <3>2 DEF Plus, Clock
    <3> QED
      BY <3>1, <3>2, <3>3
  <2>5. deliveries'[d] = [row EXCEPT !.state = "pending", !.attempts = attempts, !.next = next]
    <3>1. PICK failed : failed = [deliveries[c] EXCEPT !.state = "pending",
                                                       !.attempts = attempts,
                                                       !.next = next]
      OBVIOUS
    <3>2. deliveries' = [deliveries EXCEPT ![c] = failed]
      BY <1>3, <3>1, Zenon
    <3>3. deliveries'[c] = failed
      <4>1. c \in DOMAIN deliveries
        BY <1>1, <1>3 DEF OutboxTypeOK, Ids
      <4> QED
        BY ONLY <3>2, <4>1, Zenon
    <3> QED
      BY <1>6, <2>1, <3>1, <3>3, Zenon
  <2> QED
    BY <1>1, <1>4, <2>1, <2>2, <2>4, <2>5 DEF RowLife, Rows
<1> QED
  BY <1>4, <1>5, <1>6

\* Each step but intake's leaves the rows what they are, each of them alive.
LEMMA RowsStep ==
  ASSUME IInv, [Next]_vars
  PROVE  /\ \A d \in Ids : RowLife(d)
         /\ Ids' = Ids \/ \E fix \in Fixes : Archive(fix)
<1>1. ASSUME NEW fix \in Fixes, Archive(fix) PROVE \A d \in Ids : RowLife(d)
  <2>1. /\ Len(deliveries') = Len(deliveries) + 1 /\ Len(deliveries) \in Nat
        /\ \A d \in Ids : deliveries'[d] = deliveries[d]
    BY <1>1, EnqueueRows DEF Archive, IInv, TypeOK, OutboxTypeOK
  <2> QED
    BY <2>1 DEF Ids, RowLife
<1>2. CASE UNCHANGED deliveries
  BY <1>2 DEF Ids, RowLife
<1>3. CASE Settle \/ RecordFailure
  <2>1. Ids' = Ids
    <3>1. OutboxTypeOK
      BY DEF IInv, TypeOK
    <3> QED
      BY <1>3, <3>1 DEF Settle, MarkDelivered, RecordFailure, MarkFailed, OutboxTypeOK, Ids
  <2> QED
    BY <1>3, <2>1, DeliveredRow, FailedRow
<1>4. UNCHANGED deliveries => Ids' = Ids
  BY DEF Ids
<1> QED
  BY <1>1, <1>2, <1>3, <1>4, DeliveredRow, FailedRow
  DEF Next, vars, WakeDeliveries, TakeWake, TickerFires, StoreFails, QueryPending, DrainEnds,
      TakeNext, PublishApplied, PublishAcknowledged, PublishFails, CallReturns, Crash, Restart,
      ClockTicks

(***************************************************************************)
(* No row is ever lost, given up, delivered twice over or taken back, also *)
(* not by a MarkFailed or MarkDelivered of a batch that a crash or a       *)
(* failing store cut short: a delivered row stays as it is, a pending one  *)
(* keeps its fix and is at most delivered or, one failure at a time, put   *)
(* off, by at least a second and at most 256.                              *)
(***************************************************************************)
THEOREM RowsKeepTheirLife ==
  Spec => [](\A d \in Ids : Pending(d) \/ Delivered(d)) /\ [][\A d \in Ids : RowLife(d)]_vars
<1>1. IInv => \A d \in Ids : Pending(d) \/ Delivered(d)
  BY DEF IInv, NeverAbandoned
<1>2. IInv /\ [Next]_vars => \A d \in Ids : RowLife(d)
  BY RowsStep
<1> QED
  BY <1>1, <1>2, Invariance, PTL DEF Spec

\* How long a row still has to wait, by the clock.
WaitsAreShort == \A d \in Ids : deliveries[d].next.sec <= now.sec + 256

(***************************************************************************)
(* A delivery that failed any number of times is never put off by more     *)
(* than 256 seconds from now: the doubling of its delay neither runs away  *)
(* nor, cut off at eight, wraps around.                                    *)
(***************************************************************************)
THEOREM DeliveriesWaitShortly == Spec => []WaitsAreShort
<1>1. Init => WaitsAreShort
  BY DEF Init, OutboxInit, Ids, WaitsAreShort
<1>2. IInv /\ IInv' /\ WaitsAreShort /\ [Next]_vars => WaitsAreShort'
  <2> SUFFICES ASSUME IInv, IInv', WaitsAreShort, [Next]_vars PROVE WaitsAreShort'
    OBVIOUS
  <2>0. OutboxTypeOK /\ OutboxTypeOK'
    BY DEF IInv, TypeOK
  <2>1. now.sec \in Int /\ now'.sec \in Int /\ now.sec <= now'.sec
    <3>1. now \in Clock /\ now' \in Clock
      BY <2>0 DEF OutboxTypeOK
    <3>2. now' = now \/ Before(now, now')
      BY DEF Next, vars, Archive, WakeDeliveries, TakeWake, TickerFires, StoreFails,
             QueryPending, DrainEnds, TakeNext, Settle, RecordFailure, PublishApplied,
             PublishAcknowledged, PublishFails, CallReturns, Crash, Restart, ClockTicks, Tick
    <3> QED
      BY <3>1, <3>2, ClockType DEF Before
  <2>2. ASSUME NEW d \in Ids PROVE deliveries'[d].next.sec <= now'.sec + 256
    <3>1. RowLife(d)
      BY RowsStep
    <3>2. deliveries[d].next.sec \in Int /\ deliveries[d].next.sec <= now.sec + 256
      BY <2>0, RowType DEF Rows, Instants, WaitsAreShort
    <3> QED
      BY <2>1, <3>1, <3>2 DEF RowLife
  <2>3. ASSUME NEW fix \in Fixes, Archive(fix), NEW d \in Ids' \ Ids
        PROVE  deliveries'[d].next = now' 
    <3>1. PICK row : row = [fix |-> fix, state |-> "pending", attempts |-> 0, next |-> now]
      OBVIOUS
    <3>2. deliveries' = Append(deliveries, row) /\ now' = now /\ row.next = now
      BY <2>3, <3>1 DEF Archive, Enqueue
    <3>3. row \in Rows
      BY <3>1, <2>0, OutboxAssumption DEF Rows, Instants, OutboxTypeOK, Clock
    <3>4. deliveries'[Len(deliveries) + 1] = row /\ Len(deliveries') = Len(deliveries) + 1
      BY <2>0, <3>2, <3>3, AppendProperties DEF OutboxTypeOK
    <3>5. d = Len(deliveries) + 1
      BY <2>0, <3>4 DEF Ids, OutboxTypeOK
    <3> QED
      BY <3>2, <3>4, <3>5
  <2>4. \A d \in Ids' \ Ids : deliveries'[d].next.sec <= now'.sec + 256
    BY <2>1, <2>3, RowsStep
  <2> QED
    BY <2>2, <2>4 DEF WaitsAreShort
<1> QED
  BY <1>1, <1>2, Invariance, PTL DEF Spec

-----------------------------------------------------------------------------
(* The window of the median.                                               *)

\* The dedupe key: a fix is in the outbox once.
FixesDistinct == \A d, e \in Ids : deliveries[d].fix = deliveries[e].fix => d = e

LEMMA FixesDistinctStep ==
  ASSUME IInv, FixesDistinct, [Next]_vars
  PROVE  FixesDistinct'
<1>0. OutboxTypeOK
  BY DEF IInv, TypeOK
<1>1. \A d \in Ids : d \in Ids' /\ deliveries'[d].fix = deliveries[d].fix
  BY RowsStep DEF RowLife
<1>2. CASE Ids' = Ids
  BY <1>1, <1>2 DEF FixesDistinct
<1>3. ASSUME NEW fix \in Fixes, Archive(fix) PROVE FixesDistinct'
  <2>1. PICK new : new = Len(deliveries) + 1
    OBVIOUS
  <2>2. Ids' = Ids \cup {new} /\ deliveries'[new].fix = fix
    BY <1>0, <1>3, <2>1, EnqueueRows DEF Archive, Ids, OutboxTypeOK
  <2>3. \A d \in Ids : deliveries[d].fix # fix
    BY <1>3 DEF Archive, Archived
  <2> QED
    BY <1>1, <2>2, <2>3 DEF FixesDistinct
<1> QED
  BY <1>2, <1>3, RowsStep

\* A fix that is not in the window enters it once, and none is entered with it.
LEMMA SampledAnew ==
  ASSUME NEW h \in History, NEW fix \in Fixes,
         \A i, j \in DOMAIN h.samples : i # j => h.samples[i] # h.samples[j],
         \A i \in DOMAIN h.samples : h.samples[i] # fix
  PROVE  LET samples == Sampled(h, fix)
         IN  /\ \A i, j \in DOMAIN samples : i # j => samples[i] # samples[j]
             /\ \A i \in DOMAIN samples :
                  samples[i] = fix \/ \E j \in DOMAIN h.samples : samples[i] = h.samples[j]
<1>1. PICK before, longer : before = h.samples /\ longer = Append(before, fix)
  OBVIOUS
<1>2. /\ before \in Seq(Fixes) /\ Len(before) \in Nat /\ DOMAIN before = 1 .. Len(before)
      /\ longer \in Seq(Fixes) /\ Len(longer) = Len(before) + 1
      /\ DOMAIN longer = 1 .. Len(before) + 1
      /\ \A i \in 1 .. Len(before) : longer[i] = before[i]
      /\ longer[Len(before) + 1] = fix
  BY <1>1, AppendProperties, LenProperties DEF History
<1>3. \A i, j \in DOMAIN longer : i # j => longer[i] # longer[j]
  BY <1>1, <1>2
<1>4. \A i \in DOMAIN longer : longer[i] = fix \/ \E j \in DOMAIN before : longer[i] = before[j]
  BY <1>2
<1>5. PICK samples : samples = LastThree(longer)
  OBVIOUS
<1>6. \A i \in DOMAIN samples :
        \E k \in DOMAIN longer :
          /\ samples[i] = longer[k]
          /\ k = IF Len(longer) > 3 THEN Len(longer) - 3 + i ELSE i
  <2>1. CASE Len(longer) > 3
    <3>1. samples = SubSeq(longer, Len(longer) - 2, Len(longer))
      BY <1>5, <2>1 DEF LastThree
    <3>2. Len(longer) \in Nat /\ Len(longer) - 2 \in 1 .. Len(longer) + 1
      BY <1>2, <2>1
    <3>3. /\ samples \in Seq(Fixes) /\ Len(samples) = 3
          /\ \A i \in 1 .. 3 : samples[i] = longer[Len(longer) - 3 + i]
      BY <1>2, <2>1, <3>1, <3>2, SubSeqProperties
    <3>4. DOMAIN samples = 1 .. 3
      BY <3>3, LenProperties
    <3> QED
      BY <1>2, <2>1, <3>3, <3>4
  <2>2. CASE ~ (Len(longer) > 3)
    BY <1>5, <2>2 DEF LastThree
  <2> QED
    BY <2>1, <2>2
<1>7. \A i, j \in DOMAIN samples : i \in Int /\ j \in Int
  BY <1>1, <1>5, SampledType, LenProperties DEF Sampled
<1>8. \A i, j \in DOMAIN samples : i # j => samples[i] # samples[j]
  BY <1>2, <1>3, <1>6, <1>7
<1>9. \A i \in DOMAIN samples :
        samples[i] = fix \/ \E j \in DOMAIN before : samples[i] = before[j]
  BY <1>4, <1>6
<1> QED
  BY <1>1, <1>5, <1>8, <1>9 DEF Sampled

\* Steps that take nothing into the windows.
LEMMA SamplesKept ==
  ASSUME RetriesSampleOnce,
         \A n \in Nodes : history'[n].samples = history[n].samples,
         \A d \in Ids :
           /\ d \in Ids' /\ deliveries'[d].fix = deliveries[d].fix
           /\ Delivered(d) \/ d \in DOMAIN prepared => Delivered(d)' \/ d \in DOMAIN prepared'
  PROVE  RetriesSampleOnce'
<1> SUFFICES ASSUME NEW n \in Nodes
             PROVE  LET samples == history[n].samples
                    IN  /\ \A i, j \in DOMAIN samples : i # j => samples[i] # samples[j]
                        /\ \A i \in DOMAIN samples :
                             \E d \in Ids' :
                               /\ deliveries'[d].fix = samples[i]
                               /\ Delivered(d)' \/ d \in DOMAIN prepared'
  BY DEF RetriesSampleOnce
<1> QED
  BY DEF RetriesSampleOnce

LEMMA SamplesTakeNext ==
  ASSUME IInv, FixesDistinct, RetriesSampleOnce, TakeNext
  PROVE  RetriesSampleOnce'
<1>0. TypeOK /\ OutboxTypeOK /\ BatchFresh
  BY DEF IInv, TypeOK
<1>1. PICK d \in DOMAIN batch : Prepare(d)
  BY DEF TakeNext
<1>2. UNCHANGED deliveries /\ Ids' = Ids /\ d \in Ids /\ Pending(d)
  BY <1>0 DEF TakeNext, TypeOK, BatchFresh, Ids
<1>3. CASE d \in DOMAIN prepared
  BY <1>1, <1>2, <1>3, SamplesKept DEF Prepare, filter, Delivered
<1>4. CASE d \notin DOMAIN prepared
  <2>1. PICK source, fix : source = Source(d) /\ fix = deliveries[d].fix
    OBVIOUS
  <2>2. source \in Nodes /\ history[source] \in History /\ fix \in Fixes
    BY <1>0, <1>2, <2>1, RowType DEF TypeOK
  <2>3. /\ history' = [history EXCEPT ![source].samples = Sampled(history[source], fix)]
        /\ DOMAIN prepared' = DOMAIN prepared \cup {d}
    BY <1>1, <1>4, <2>1 DEF Prepare, Extended
  <2>4. /\ \A n \in Nodes \ {source} : history'[n].samples = history[n].samples
        /\ history'[source].samples = Sampled(history[source], fix)
    BY <1>0, <2>2, <2>3 DEF TypeOK, History
  <2>5. \A i \in DOMAIN history[source].samples : history[source].samples[i] # fix
    BY <1>2, <1>4, <2>1, <2>2 DEF RetriesSampleOnce, FixesDistinct, Pending, Delivered
  <2>6. \A e \in Ids : /\ deliveries'[e].fix = deliveries[e].fix
                       /\ Delivered(e)' <=> Delivered(e)
    BY <1>2 DEF Delivered
  <2> SUFFICES ASSUME NEW n \in Nodes
               PROVE  LET samples == history'[n].samples
                      IN  /\ \A i, j \in DOMAIN samples : i # j => samples[i] # samples[j]
                          /\ \A i \in DOMAIN samples :
                               \E e \in Ids' :
                                 /\ deliveries'[e].fix = samples[i]
                                 /\ Delivered(e)' \/ e \in DOMAIN prepared'
    BY DEF RetriesSampleOnce
  <2>7. CASE n # source
    BY <1>2, <2>3, <2>4, <2>6, <2>7 DEF RetriesSampleOnce
  <2>8. CASE n = source
    <3>1. PICK samples : samples = history'[n].samples
      OBVIOUS
    <3>2. /\ \A i, j \in DOMAIN samples : i # j => samples[i] # samples[j]
          /\ \A i \in DOMAIN samples :
               \/ samples[i] = fix
               \/ \E j \in DOMAIN history[source].samples :
                    samples[i] = history[source].samples[j]
      BY <2>2, <2>4, <2>5, <2>8, <3>1, SampledAnew DEF RetriesSampleOnce
    <3>3. ASSUME NEW i \in DOMAIN samples
          PROVE  \E e \in Ids : /\ deliveries[e].fix = samples[i]
                                /\ Delivered(e) \/ e \in DOMAIN prepared'
      <4>1. CASE samples[i] = fix
        BY <1>2, <2>1, <2>3, <4>1
      <4>2. CASE samples[i] # fix
        BY <2>2, <2>3, <3>2, <4>2 DEF RetriesSampleOnce
      <4> QED
        BY <4>1, <4>2
    <3> QED
      BY <1>2, <2>6, <3>1, <3>2, <3>3
  <2> QED
    BY <2>7, <2>8
<1> QED
  BY <1>3, <1>4

LEMMA SamplesSettle ==
  ASSUME IInv, RetriesSampleOnce, [Next]_vars, Settle
  PROVE  RetriesSampleOnce'
<1>0. TypeOK /\ OutboxTypeOK /\ CurrentInHand
  BY DEF IInv, TypeOK
<1>1. PICK d : d = current
  OBVIOUS
<1>2. d \in Ids /\ MarkDelivered(d)
  BY <1>0, <1>1 DEF TypeOK, CurrentInHand, Settle, Working
<1>3. /\ DOMAIN prepared' = DOMAIN prepared \ {d}
      /\ history' = [history EXCEPT ![Source(d)] = Completed(@, prepared[d])]
  BY <1>1 DEF Settle, Complete, Without
<1>4. Delivered(d)'
  BY <1>0, <1>2, MarkDeliveredRows DEF Delivered
<1>5. \A e \in Ids : e \in Ids' /\ deliveries'[e].fix = deliveries[e].fix
                     /\ (Delivered(e) => Delivered(e)')
  BY RowsStep DEF RowLife, Delivered
<1>6. \A n \in Nodes : history'[n].samples = history[n].samples
  <2>1. \A n \in Nodes : history[n] \in History
    BY <1>0 DEF TypeOK
  <2>2. \A n \in Nodes : Completed(history[n], prepared[d]).samples = history[n].samples
    BY <2>1 DEF Completed, History
  <2>3. \A n \in Nodes :
          history'[n] = IF n = Source(d) THEN Completed(history[n], prepared[d])
                                         ELSE history[n]
    BY <1>0, <1>3 DEF TypeOK
  <2> QED
    BY <2>2, <2>3
<1> QED
  BY <1>3, <1>4, <1>5, <1>6, SamplesKept

(***************************************************************************)
(* No retry, and no drain cut short by the store, enters a fix twice into  *)
(* the window of the median: as long as the process runs, a fix in it is   *)
(* delivered or has its decision kept.                                     *)
(***************************************************************************)
THEOREM FixesSampledOnce == Spec => []RetriesSampleOnce
<1>1. Init => FixesDistinct /\ RetriesSampleOnce
  <2> SUFFICES ASSUME Init PROVE FixesDistinct /\ RetriesSampleOnce
    OBVIOUS
  <2>1. Ids = {}
    BY DEF Init, OutboxInit, Ids
  <2>2. \A n \in Nodes : history[n].samples = << >>
    BY DEF Init, NoHistory
  <2> QED
    BY <2>1, <2>2 DEF FixesDistinct, RetriesSampleOnce
<1>2. IInv /\ FixesDistinct /\ RetriesSampleOnce /\ [Next]_vars => RetriesSampleOnce'
  <2> SUFFICES ASSUME IInv, FixesDistinct, RetriesSampleOnce, [Next]_vars
               PROVE  RetriesSampleOnce'
    OBVIOUS
  <2>1. CASE UNCHANGED filter
    <3>1. \A d \in Ids : /\ d \in Ids' /\ deliveries'[d].fix = deliveries[d].fix
                         /\ Delivered(d) => Delivered(d)'
      BY RowsStep DEF RowLife, Delivered
    <3> QED
      BY <2>1, <3>1, SamplesKept DEF filter
  <2>2. CASE Crash
    <3>1. \A n \in Nodes : history'[n].samples = << >>
      BY <2>2 DEF Crash, NoHistory
    <3> QED
      BY <3>1 DEF RetriesSampleOnce
  <2> QED
    BY <2>1, <2>2, SamplesTakeNext, SamplesSettle
    DEF Next, vars, filter, Archive, WakeDeliveries, TakeWake, TickerFires, StoreFails,
        QueryPending, DrainEnds, RecordFailure, PublishApplied, PublishAcknowledged,
        PublishFails, CallReturns, Restart, ClockTicks
<1>3. IInv /\ FixesDistinct /\ [Next]_vars => FixesDistinct'
  BY FixesDistinctStep
<1> QED
  BY <1>1, <1>2, <1>3, Invariance, PTL DEF Spec

-----------------------------------------------------------------------------
(* Who waits for whom: the part of EventuallyDelivered that speaks of      *)
(* states.                                                                 *)

\* The order of the outbox, by its pairs.
Order == {pair \in Ids \X Ids : Precedes(pair[1], pair[2])}

LEMMA TimeTyped ==
  ASSUME OutboxTypeOK, NEW d \in Ids
  PROVE  SourceTime(d) \in Times /\ SourceTime(d) \in Instants
  BY RowType, FilterAssumption DEF SourceTime, Positions

\* Whatever the fractions, no chain of rows leads back to its first.
LEMMA OrderIsStrict ==
  ASSUME OutboxTypeOK
  PROVE  /\ \A d, e \in Ids : <<d, e>> \in Order <=> Precedes(d, e)
         /\ \A d \in Ids : <<d, d>> \notin Order
         /\ \A d, e, f \in Ids :
              <<d, e>> \in Order /\ <<e, f>> \in Order => <<d, f>> \in Order
<1>1. \A d, e \in Ids : <<d, e>> \in Order <=> Precedes(d, e)
  BY DEF Order
<1>2. \A d \in Ids : d \in Nat /\ SourceTime(d) \in Instants
  BY TimeTyped DEF Ids, OutboxTypeOK
<1>3. \A d \in Ids : ~ Precedes(d, d)
  BY <1>2, TextOrderIsStrict DEF Precedes
<1>4. ASSUME NEW d \in Ids, NEW e \in Ids, NEW f \in Ids, Precedes(d, e), Precedes(e, f)
      PROVE  Precedes(d, f)
  BY <1>2, <1>4, TextOrderIsStrict DEF Precedes
<1> QED
  BY <1>1, <1>3, <1>4

\* Where the texts of the times sort as the times do, no two rows are equal in
\* it either.
LEMMA OrderIsTotal ==
  ASSUME TextsSort, OutboxTypeOK, NEW d \in Ids, NEW e \in Ids
  PROVE  d = e \/ Precedes(d, e) \/ Precedes(e, d)
<1>1. /\ SourceTime(d) \in Times /\ SourceTime(d) \in Instants
      /\ SourceTime(e) \in Times /\ SourceTime(e) \in Instants
  BY TimeTyped
<1>2. NotAfter(SourceTime(d), SourceTime(e)) \/ NotAfter(SourceTime(e), SourceTime(d))
  BY <1>1, InstantType DEF NotAfter, Before
<1>3. SourceTime(d) = SourceTime(e) \/ Precedes(d, e) \/ Precedes(e, d)
  BY <1>1, <1>2 DEF TextsSort, Precedes
<1>4. SourceTime(d) = SourceTime(e) => d = e \/ Precedes(d, e) \/ Precedes(e, d)
  BY DEF Precedes, Ids, OutboxTypeOK
<1> QED
  BY <1>3, <1>4

\* Of the rows of a node that are pending, one is held back by no other.
NeverAllBlocked ==
  \A d \in Ids : Pending(d) =>
    \E e \in Ids : /\ Pending(e) /\ ~ Blocked(e)
                   /\ Source(e) = Source(d)
                   /\ e = d \/ Precedes(e, d)

LEMMA SomeoneUnblocked == OutboxTypeOK => NeverAllBlocked
<1> SUFFICES ASSUME OutboxTypeOK, NEW d \in Ids, Pending(d)
             PROVE  \E e \in Ids : /\ Pending(e) /\ ~ Blocked(e)
                                   /\ Source(e) = Source(d)
                                   /\ e = d \/ Precedes(e, d)
  BY DEF NeverAllBlocked
<1>1. PICK S : S = {e \in Ids : /\ Pending(e) /\ Source(e) = Source(d)
                                /\ e = d \/ Precedes(e, d)}
  OBVIOUS
<1>2. S \in SUBSET (1 .. Len(deliveries)) /\ Len(deliveries) \in Nat /\ d \in S
  BY <1>1 DEF Ids, OutboxTypeOK
<1>3. IsFiniteSet(S) /\ S # {}
  BY <1>2, SomeIdsFinite
<1>4. \E e \in S : \A f \in S : <<f, e>> \notin Order
  <2>1. PICK R : R = Order
    OBVIOUS
  <2>2. /\ \A x \in S : <<x, x>> \notin R
        /\ \A x, y, z \in S : <<x, y>> \in R /\ <<y, z>> \in R => <<x, z>> \in R
    BY <1>1, <2>1, OrderIsStrict
  <2>3. \E e \in S : \A f \in S : <<f, e>> \notin R
    BY ONLY <1>3, <2>2, FirstElement
  <2> QED
    BY <2>1, <2>3
<1>5. PICK e \in S : \A f \in S : <<f, e>> \notin Order
  BY <1>4
<1>6. ASSUME NEW f \in Ids, Pending(f), Source(f) = Source(e), Precedes(f, e)
      PROVE  FALSE
  <2>1. e \in Ids /\ Source(e) = Source(d)
    BY <1>1, <1>5
  <2>2. Precedes(f, d)
    BY <1>1, <1>5, <1>6, <2>1, OrderIsStrict
  <2>3. f \in S
    BY <1>1, <1>6, <2>1, <2>2
  <2> QED
    BY <1>5, <1>6, <2>1, <2>3, OrderIsStrict
<1> QED
  BY <1>1, <1>5, <1>6 DEF Blocked

\* A query returns something as soon as the pending rows of one node are due.
QueryFindsWork ==
  \A d \in Ids :
    /\ Pending(d)
    /\ \A e \in Ids : Pending(e) /\ Source(e) = Source(d) => Due(e)
    => \A B \in SUBSET Eligible : IsPage(B) => B # {}

(***************************************************************************)
(* The NOT EXISTS of PendingDeliveries cannot make the deliveries of a     *)
(* node wait for each other for good: whatever their fractions, whatever   *)
(* came late, failed or was put off, one of them is held back by none, and *)
(* a query finds work for the node as soon as its rows are due.            *)
(***************************************************************************)
THEOREM NoneWaitForEachOther == Spec => [](NeverAllBlocked /\ QueryFindsWork)
<1>1. OutboxTypeOK /\ NeverAllBlocked => QueryFindsWork
  <2> SUFFICES ASSUME NeverAllBlocked, NEW d \in Ids, Pending(d),
                      \A e \in Ids : Pending(e) /\ Source(e) = Source(d) => Due(e),
                      IsPage({})
               PROVE  FALSE
    BY DEF QueryFindsWork
  <2>1. PICK e \in Ids : Pending(e) /\ ~ Blocked(e) /\ Source(e) = Source(d)
    BY DEF NeverAllBlocked
  <2>2. e \in Eligible
    BY <2>1 DEF Eligible
  <2>3. Cardinality({}) # BatchLimit
    BY FS_EmptySet, OutboxAssumption
  <2> QED
    BY <2>2, <2>3 DEF IsPage
<1>2. IInv => OutboxTypeOK
  BY DEF IInv, TypeOK
<1> QED
  BY <1>1, <1>2, SomeoneUnblocked, Invariance, PTL

-----------------------------------------------------------------------------
(* What drain may ask of the outbox.                                       *)

(***************************************************************************)
(* drain always finds what its next step needs: the query has an answer, a *)
(* batch has a first row, and the row MarkDelivered or MarkFailed is to    *)
(* change is still pending, so that neither fails with "not pending".      *)
(***************************************************************************)
DrainGoesOn ==
  /\ pc = "query" => \E B \in SUBSET Eligible : IsPage(B)
  /\ pc = "deliver" => \E d \in DOMAIN batch : First(d)
  /\ pc \in {"settle", "fail"} => Pending(current)

\* drain only goes on with a batch that is not done.
BatchLeft == pc = "deliver" => DOMAIN batch # {}

LEMMA PageExists ==
  ASSUME TextsSort, OutboxTypeOK
  PROVE  \E B \in SUBSET Eligible : IsPage(B)
<1>1. PICK S, R : S = Eligible /\ R = Order
  OBVIOUS
<1>2. S \in SUBSET (1 .. Len(deliveries)) /\ Len(deliveries) \in Nat /\ S \subseteq Ids
  BY <1>1 DEF Eligible, Ids, OutboxTypeOK
<1>3. IsFiniteSet(S)
  BY <1>2, SomeIdsFinite
<1>4. /\ \A x \in S : <<x, x>> \notin R
      /\ \A x, y, z \in S : <<x, y>> \in R /\ <<y, z>> \in R => <<x, z>> \in R
      /\ \A x, y \in S : x = y \/ <<x, y>> \in R \/ <<y, x>> \in R
  <2>1. \A x, y \in Ids : x = y \/ <<x, y>> \in Order \/ <<y, x>> \in Order
    BY OrderIsStrict, OrderIsTotal
  <2> QED
    BY <1>1, <1>2, <2>1, OrderIsStrict
<1>5. PICK B \in SUBSET S : /\ \A x \in B, y \in S \ B : <<x, y>> \in R
                            /\ B = S \/ Cardinality(B) = BatchLimit
                            /\ Cardinality(B) <= BatchLimit
  <2>1. BatchLimit \in Nat
    BY OutboxAssumption
  <2> QED
    BY ONLY <1>3, <1>4, <2>1, FirstElements
<1>6. \A x \in B, y \in Eligible \ B : Precedes(x, y)
  BY <1>1, <1>2, <1>5, OrderIsStrict
<1> QED
  BY <1>1, <1>5, <1>6 DEF IsPage

LEMMA FirstExists ==
  ASSUME TextsSort, TypeOK, DOMAIN batch # {}
  PROVE  \E d \in DOMAIN batch : First(d)
<1>1. PICK S, R : S = DOMAIN batch /\ R = Order
  OBVIOUS
<1>2. S \in SUBSET (1 .. Len(deliveries)) /\ Len(deliveries) \in Nat /\ S \subseteq Ids
  BY <1>1 DEF Ids, TypeOK, OutboxTypeOK
<1>3. IsFiniteSet(S) /\ S # {} /\ OutboxTypeOK
  BY <1>1, <1>2, SomeIdsFinite DEF TypeOK
<1>4. /\ \A x \in S : <<x, x>> \notin R
      /\ \A x, y, z \in S : <<x, y>> \in R /\ <<y, z>> \in R => <<x, z>> \in R
  BY <1>1, <1>2, <1>3, OrderIsStrict
<1>5. PICK d \in S : \A e \in S : <<e, d>> \notin R
  BY ONLY <1>3, <1>4, FirstElement
<1>6. \A e \in S \ {d} : Precedes(d, e)
  BY <1>1, <1>2, <1>3, <1>5, OrderIsStrict, OrderIsTotal
<1> QED
  BY <1>1, <1>5, <1>6 DEF First

(***************************************************************************)
(* Where the texts of the times sort as the times do, no step of drain is  *)
(* ever refused by the outbox, whatever was archived since the query and   *)
(* whatever crashes and failures of the store came before it.              *)
(***************************************************************************)
THEOREM DrainIsNeverRefused == TextsSort => (Spec => []DrainGoesOn)
<1> SUFFICES ASSUME TextsSort PROVE Spec => []DrainGoesOn
  OBVIOUS
<1>1. Init => BatchLeft
  BY DEF Init, BatchLeft
<1>2. IInv /\ BatchLeft /\ [Next]_vars => BatchLeft'
  <2> SUFFICES ASSUME IInv, BatchLeft, [Next]_vars PROVE BatchLeft'
    OBVIOUS
  <2>1. CASE QueryPending
    <3>1. PICK B \in SUBSET Eligible :
            /\ batch' = [d \in B |-> deliveries[d].attempts]
            /\ pc' = IF B = {} THEN "empty" ELSE "deliver"
      BY <2>1 DEF QueryPending
    <3> QED
      BY <3>1 DEF BatchLeft
  <2>2. CASE Settle \/ RecordFailure
    <3>1. /\ DOMAIN batch' = DOMAIN batch \ {current}
          /\ pc' = IF DOMAIN batch = {current} THEN "query" ELSE "deliver"
          /\ current \in DOMAIN batch
      BY <2>2 DEF Settle, RecordFailure, NextDelivery, Without, IInv, CurrentInHand, Working
    <3> QED
      BY <3>1 DEF BatchLeft
  <2>3. CASE UNCHANGED <<pc, batch>>
    BY <2>3 DEF BatchLeft
  <2>4. CASE pc' # "deliver"
    BY <2>4 DEF BatchLeft
  <2> QED
    BY <2>1, <2>2, <2>3, <2>4
    DEF Next, vars, Archive, WakeDeliveries, TakeWake, TickerFires, StoreFails, DrainEnds,
        TakeNext, PublishApplied, PublishAcknowledged, PublishFails, CallReturns, Crash,
        Restart, ClockTicks
<1>3. IInv /\ BatchLeft => DrainGoesOn
  <2> SUFFICES ASSUME IInv, BatchLeft PROVE DrainGoesOn
    OBVIOUS
  <2>1. TypeOK /\ OutboxTypeOK /\ BatchFresh /\ CurrentInHand
    BY DEF IInv, TypeOK
  <2>2. pc \in {"settle", "fail"} => Pending(current)
    BY <2>1 DEF BatchFresh, CurrentInHand, Working
  <2> QED
    BY <2>1, <2>2, PageExists, FirstExists DEF BatchLeft, DrainGoesOn
<1> QED
  BY <1>1, <1>2, <1>3, Invariance, PTL DEF Spec

\* The rows that the second of the clock lets drain work on.
DueNow(d) == Pending(d) /\ deliveries[d].next.sec <= now.sec

(***************************************************************************)
(* Run's inner loop, which drains until there is nothing left, does not    *)
(* spin: each delivery it deals with, also one that fails, leaves the rows *)
(* that are due, and none comes back before the clock has gone on.  So it  *)
(* makes at most one attempt a second for each pending row.                *)
(***************************************************************************)
THEOREM DrainDoesNotSpin ==
  Spec => [][Settle \/ RecordFailure =>
               /\ DueNow(current)
               /\ {d \in Ids' : DueNow(d)'} = {d \in Ids : DueNow(d)} \ {current}]_vars
<1>1. Init => DueInv
  BY DEF Init, EmptyBatch, DueInv
<1>2. IInv /\ DueInv /\ [Next]_vars => DueInv'
  BY DueStep
<1>3. ASSUME IInv, DueInv
      PROVE  [Settle \/ RecordFailure =>
               /\ DueNow(current)
               /\ {d \in Ids' : DueNow(d)'} = {d \in Ids : DueNow(d)} \ {current}]_vars
  <2> SUFFICES ASSUME Settle \/ RecordFailure
               PROVE  /\ DueNow(current)
                      /\ {d \in Ids' : DueNow(d)'} = {d \in Ids : DueNow(d)} \ {current}
    OBVIOUS
  <2>1. PICK c : c = current
    OBVIOUS
  <2>2. /\ OutboxTypeOK /\ c \in DOMAIN batch /\ c \in Ids
        /\ Pending(c) /\ deliveries[c].next.sec <= now.sec
    BY <1>3, <2>1 DEF IInv, TypeOK, CurrentInHand, Working, BatchFresh, DueInv, Settle,
                      RecordFailure
  <2>3. now' = now /\ now.sec \in Int
    BY <2>2, ClockType DEF Settle, RecordFailure, OutboxTypeOK
  <2>4. Ids' = Ids /\ \A d \in Ids : RowLife(d)
    BY <1>3, DeliveredRow, FailedRow, <2>2
  <2>5. \A d \in Ids \ {c} : deliveries'[d] = deliveries[d]
    BY <2>1, <2>2 DEF Settle, MarkDelivered, RecordFailure, MarkFailed, OutboxTypeOK, Ids
  <2>6. ~ DueNow(c)'
    <3>1. CASE Settle
      <4>1. deliveries'[c].state = "delivered"
        BY <2>1, <2>2, <3>1, MarkDeliveredRows DEF Settle
      <4> QED
        BY <4>1 DEF DueNow, Pending
    <3>2. CASE RecordFailure
      <4>1. deliveries[c].attempts \in Nat /\ deliveries[c].next.sec \in Int
        BY <2>2, RowType DEF Rows, Instants
      <4>2. deliveries'[c].state = "pending" =>
              deliveries'[c] = deliveries[c] \/ ~ (deliveries'[c].next.sec <= now.sec)
        BY <2>2, <2>3, <2>4 DEF RowLife
      <4>3. deliveries'[c] # deliveries[c]
        <5>1. PICK attempts, next : attempts = batch[c] + 1 /\ next = Plus(now, RetryDelay(attempts))
          OBVIOUS
        <5>2. batch[c] = deliveries[c].attempts /\ attempts \in Nat
          BY <1>3, <2>2, <4>1, <5>1 DEF IInv, BatchFresh
        <5>3. PICK failed : failed = [deliveries[c] EXCEPT !.state = "pending",
                                                           !.attempts = attempts,
                                                           !.next = next]
          OBVIOUS
        <5>4. deliveries' = [deliveries EXCEPT ![c] = failed]
          BY <2>1, <3>2, <5>1, <5>3, Zenon DEF RecordFailure, MarkFailed
        <5>5. c \in DOMAIN deliveries
          BY <2>2 DEF OutboxTypeOK, Ids
        <5>6. deliveries'[c] = failed
          BY ONLY <5>4, <5>5, Zenon
        <5>7. failed.attempts = attempts
          BY <2>2, <5>3, RowType DEF Rows
        <5> QED
          BY <4>1, <5>1, <5>2, <5>6, <5>7
      <4> QED
        BY <2>3, <4>2, <4>3 DEF DueNow, Pending
    <3> QED
      BY <3>1, <3>2
  <2>7. \A d \in Ids \ {c} : DueNow(d)' <=> DueNow(d)
    BY <2>3, <2>5 DEF DueNow, Pending
  <2> QED
    BY <2>1, <2>2, <2>4, <2>6, <2>7 DEF DueNow
<1> QED
  BY <1>1, <1>2, <1>3, Invariance, PTL DEF Spec
=============================================================================
