---------------------------- MODULE WorkerProofs ----------------------------
(***************************************************************************)
(* Proofs about the delivery worker for every set of nodes, fixes and      *)
(* times and every value of the limits: its type invariant, the safety     *)
(* invariants, and that it implements OrderedDelivery.                     *)
(***************************************************************************)
EXTENDS WorkerProperties, SequenceTheorems, TLAPS

-----------------------------------------------------------------------------
(* Facts about the operators.                                              *)

\* One of three integers lies between the other two.
LEMMA MiddleExists ==
  ASSUME NEW s \in [1 .. 3 -> Int]
  PROVE  \E middle, low, high \in 1 .. 3 :
           /\ {low, middle, high} = 1 .. 3
           /\ s[low] <= s[middle]
           /\ s[middle] <= s[high]
<1>1. 1 \in 1 .. 3 /\ 2 \in 1 .. 3 /\ 3 \in 1 .. 3
  OBVIOUS
<1>2. s[1] \in Int /\ s[2] \in Int /\ s[3] \in Int
  BY <1>1
<1>3. /\ {1, 2, 3} = 1 .. 3 /\ {1, 3, 2} = 1 .. 3 /\ {2, 1, 3} = 1 .. 3
      /\ {2, 3, 1} = 1 .. 3 /\ {3, 1, 2} = 1 .. 3 /\ {3, 2, 1} = 1 .. 3
  OBVIOUS
<1>4. CASE s[1] <= s[2] /\ s[2] <= s[3]
  BY <1>3, <1>4
<1>5. CASE s[1] <= s[3] /\ s[3] <= s[2]
  BY <1>3, <1>5
<1>6. CASE s[2] <= s[1] /\ s[1] <= s[3]
  BY <1>3, <1>6
<1>7. CASE s[2] <= s[3] /\ s[3] <= s[1]
  BY <1>3, <1>7
<1>8. CASE s[3] <= s[1] /\ s[1] <= s[2]
  BY <1>3, <1>8
<1>9. CASE s[3] <= s[2] /\ s[2] <= s[1]
  BY <1>3, <1>9
<1> QED
  BY <1>2, <1>4, <1>5, <1>6, <1>7, <1>8, <1>9

\* The median of three values is one of them, between the other two.
LEMMA MedianIsMiddle ==
  ASSUME NEW values \in [1 .. 3 -> Int]
  PROVE  \E middle, low, high \in 1 .. 3 :
           /\ {low, middle, high} = 1 .. 3
           /\ values[low] <= values[middle]
           /\ values[middle] <= values[high]
           /\ MedianCoordinate(values) = values[middle]
<1> DEFINE IsMiddle(middle) ==
             \E low, high \in 1 .. 3 :
               /\ {low, middle, high} = 1 .. 3
               /\ values[low] <= values[middle]
               /\ values[middle] <= values[high]
<1>1. \E middle \in 1 .. 3 : IsMiddle(middle)
  BY MiddleExists
<1>2. MedianCoordinate(values) = values[CHOOSE middle \in 1 .. 3 : IsMiddle(middle)]
  BY DEF MedianCoordinate
<1> HIDE DEF IsMiddle
<1>3. PICK middle \in 1 .. 3 : IsMiddle(middle) /\ MedianCoordinate(values) = values[middle]
  BY <1>1, <1>2
<1> QED
  BY <1>3 DEF IsMiddle

\* The coordinates of three samples.
LEMMA CoordinatesType ==
  ASSUME NEW s \in Seq(Fixes), Len(s) = 3
  PROVE  /\ [i \in 1 .. 3 |-> s[i].loc.lat] \in [1 .. 3 -> Int]
         /\ [i \in 1 .. 3 |-> s[i].loc.lon] \in [1 .. 3 -> Int]
<1>1. \A i \in 1 .. 3 : s[i] \in Fixes
  BY ElementOfSeq
<1>2. \A i \in 1 .. 3 : s[i].loc \in Points
  BY <1>1, FilterAssumption DEF Positions
<1> QED
  BY <1>2 DEF Points

LEMMA MedianType ==
  ASSUME NEW s \in Seq(Fixes), Len(s) = 3
  PROVE  MedianPoint(s) \in Points
<1>1. \A values \in [1 .. 3 -> Int] : MedianCoordinate(values) \in Int
  BY MedianIsMiddle
<1> QED
  BY <1>1, CoordinatesType DEF MedianPoint, Points

LEMMA LastThreeType ==
  ASSUME NEW s \in Seq(Fixes)
  PROVE  LastThree(s) \in Seq(Fixes) /\ Len(LastThree(s)) <= 3
<1>1. CASE Len(s) > 3
  <2>1. Len(s) \in Nat /\ Len(s) - 2 \in 1 .. Len(s)
    BY <1>1
  <2>2. SubSeq(s, Len(s) - 2, Len(s)) \in Seq(Fixes)
    BY <2>1, SubSeqProperties
  <2>3. Len(SubSeq(s, Len(s) - 2, Len(s))) = 3
    BY <2>1, SubSeqProperties
  <2> QED
    BY <1>1, <2>2, <2>3 DEF LastThree
<1>2. CASE ~ (Len(s) > 3)
  BY <1>2 DEF LastThree
<1> QED
  BY <1>1, <1>2

\* Adding a fix to a well-formed history.
LEMMA SampledType ==
  ASSUME NEW h \in History, NEW fix \in Fixes
  PROVE  Sampled(h, fix) \in Seq(Fixes) /\ Len(Sampled(h, fix)) <= 3
<1>1. Append(h.samples, fix) \in Seq(Fixes)
  BY AppendProperties DEF History
<1> QED
  BY <1>1, LastThreeType DEF Sampled

\* A decision is well-formed, and about the fix it was made for.
LEMMA DecideType ==
  ASSUME NEW h \in History, NEW fix \in Fixes
  PROVE  /\ Decide(h, fix) \in Decision
         /\ Decide(h, fix).position.node = fix.node
         /\ Decide(h, fix).position.time = fix.time
<1> DEFINE samples  == Sampled(h, fix)
           position == Smoothed(samples, fix)
<1>1. samples \in Seq(Fixes) /\ fix \in Positions
  BY SampledType, FilterAssumption
<1>2. Len(samples) = 3 => MedianPoint(samples) \in Points
  BY <1>1, MedianType
<1> HIDE DEF samples
<1>3. /\ position \in Positions
      /\ position.node = fix.node
      /\ position.time = fix.time
  BY <1>1, <1>2 DEF Smoothed, Positions
<1>4. Decide(h, fix).position = position /\ Decide(h, fix).publish \in BOOLEAN
  BY DEF Decide, samples
<1>5. Decide(h, fix) = [position |-> position, publish |-> Decide(h, fix).publish]
  BY DEF Decide, samples
<1> HIDE DEF position
<1> QED
  BY <1>3, <1>4, <1>5 DEF Decision

\* A fix that is not published came within a heartbeat of the last one.
LEMMA SuppressedNotDue ==
  ASSUME NEW h, NEW fix, ~ Decide(h, fix).publish
  PROVE  h.last # None /\ ~ HeartbeatDue(h.last, fix)
  BY DEF Decide

LEMMA RetryDelayType ==
  ASSUME NEW attempts \in Nat
  PROVE  RetryDelay(attempts) \in Nat
<1>1. 1 + (IF attempts < 8 THEN attempts ELSE 8) \in 1 .. 9
  OBVIOUS
<1>2. \A i \in 1 .. 9 : Doublings[i] \in Nat
  BY DEF Doublings
<1> QED
  BY <1>1, <1>2 DEF RetryDelay

-----------------------------------------------------------------------------
(* What the statements on the outbox do to its rows.                       *)

LEMMA EnqueueRows ==
  ASSUME OutboxTypeOK, NEW fix \in Fixes, Enqueue(fix)
  PROVE  /\ deliveries' \in Seq(Rows)
         /\ Len(deliveries') = Len(deliveries) + 1
         /\ \A d \in Ids : deliveries'[d] = deliveries[d]
         /\ deliveries'[Len(deliveries) + 1].fix = fix
         /\ deliveries'[Len(deliveries) + 1].state = "pending"
<1> DEFINE row == [fix |-> fix, state |-> "pending", attempts |-> 0, next |-> now]
<1>1. now \in Instants
  BY OutboxAssumption DEF OutboxTypeOK, Clock, Instants
<1>2. row \in Rows
  BY <1>1 DEF Rows
<1>3. deliveries \in Seq(Rows) /\ deliveries' = Append(deliveries, row)
  BY DEF OutboxTypeOK, Enqueue
<1>4. row.fix = fix /\ row.state = "pending"
  OBVIOUS
<1> HIDE DEF row
<1> QED
  BY <1>2, <1>3, <1>4, AppendProperties DEF Ids

LEMMA MarkDeliveredRows ==
  ASSUME OutboxTypeOK, NEW d \in Ids, MarkDelivered(d)
  PROVE  /\ deliveries' \in Seq(Rows)
         /\ Len(deliveries') = Len(deliveries)
         /\ \A e \in Ids \ {d} : deliveries'[e] = deliveries[e]
         /\ deliveries'[d].fix = deliveries[d].fix
         /\ deliveries'[d].state = "delivered"
<1> DEFINE row == [deliveries[d] EXCEPT !.state = "delivered"]
<1>1. deliveries \in Seq(Rows) /\ d \in 1 .. Len(deliveries)
  BY DEF OutboxTypeOK, Ids
<1>2. deliveries[d] \in Rows
  BY <1>1, ElementOfSeq
<1>3. row \in Rows /\ row.fix = deliveries[d].fix /\ row.state = "delivered"
  BY <1>2 DEF Rows
<1>4. deliveries' = [deliveries EXCEPT ![d] = row]
  BY DEF MarkDelivered
<1> HIDE DEF row
<1> QED
  BY <1>1, <1>3, <1>4, ExceptSeq DEF Ids

LEMMA MarkFailedRows ==
  ASSUME OutboxTypeOK, NEW d \in Ids, NEW attempts \in Nat, NEW next \in Instants,
         MarkFailed(d, attempts, next, FALSE)
  PROVE  /\ deliveries' \in Seq(Rows)
         /\ Len(deliveries') = Len(deliveries)
         /\ \A e \in Ids \ {d} : deliveries'[e] = deliveries[e]
         /\ deliveries'[d].fix = deliveries[d].fix
         /\ deliveries'[d].state = "pending"
<1> DEFINE row == [deliveries[d] EXCEPT !.state    = "pending",
                                        !.attempts = attempts,
                                        !.next     = next]
<1>1. deliveries \in Seq(Rows) /\ d \in 1 .. Len(deliveries)
  BY DEF OutboxTypeOK, Ids
<1>2. deliveries[d] \in Rows
  BY <1>1, ElementOfSeq
<1>3. row \in Rows /\ row.fix = deliveries[d].fix /\ row.state = "pending"
  BY <1>2 DEF Rows
<1>4. deliveries' = [deliveries EXCEPT ![d] = row]
  BY DEF MarkFailed
<1> HIDE DEF row
<1> QED
  BY <1>1, <1>3, <1>4, ExceptSeq DEF Ids

\* The row of a delivery.
LEMMA RowType ==
  ASSUME OutboxTypeOK, NEW d \in Ids
  PROVE  /\ deliveries[d] \in Rows
         /\ deliveries[d].fix \in Fixes
         /\ Source(d) \in Nodes
<1>1. deliveries[d] \in Rows
  BY ElementOfSeq DEF OutboxTypeOK, Ids
<1> QED
  BY <1>1, FilterAssumption DEF Rows, Positions, Source

-----------------------------------------------------------------------------
(* Type correctness.                                                       *)

TypeInv == TypeOK /\ CurrentInHand

LEMMA TypeInit == Init => TypeInv
<1> SUFFICES ASSUME Init PROVE TypeInv
  OBVIOUS
<1>1. OutboxTypeOK
  BY OutboxAssumption, EmptySeq DEF Init, OutboxInit, OutboxTypeOK, Clock
<1>2. NoHistory \in History /\ Len(NoHistory.samples) <= 3
  BY EmptySeq DEF NoHistory, History
<1>3. TypeOK
  BY <1>1, <1>2 DEF Init, TypeOK, Stages, EmptyBatch, EmptyFilter
<1> QED
  BY <1>3 DEF TypeInv, CurrentInHand, Init, Working

LEMMA RetryTimeType ==
  ASSUME OutboxTypeOK, NEW attempts \in Nat
  PROVE  Plus(now, RetryDelay(attempts)) \in Instants
<1>1. RetryDelay(attempts) \in Nat
  BY RetryDelayType
<1>2. now \in [sec : 0 .. Horizon, frac : Fractions]
  BY OutboxAssumption DEF OutboxTypeOK, Clock
<1> QED
  BY <1>1, <1>2, OutboxAssumption DEF Plus, Instants

LEMMA NextDeliveryType ==
  ASSUME TypeOK, NextDelivery, Ids \subseteq Ids'
  PROVE  /\ DOMAIN batch' \subseteq Ids'
         /\ batch' \in [DOMAIN batch' -> Nat]
         /\ current' \in Nat
         /\ pc' \in Stages \ Working
  BY DEF TypeOK, NextDelivery, Without, Stages, Working

LEMMA TypeStep == TypeInv /\ [Next]_vars => TypeInv'
<1> SUFFICES ASSUME TypeOK, CurrentInHand, [Next]_vars
             PROVE  TypeOK' /\ CurrentInHand'
  BY DEF TypeInv
<1> USE DEF Stages, Working
<1>1. ASSUME NEW fix \in Fixes, Archive(fix)
      PROVE  TypeOK' /\ CurrentInHand'
  <2>1. Enqueue(fix)
    BY <1>1 DEF Archive
  <2>2. OutboxTypeOK'
    BY <1>1, <2>1, EnqueueRows DEF Archive, OutboxTypeOK, TypeOK
  <2>3. Ids \subseteq Ids'
    BY <2>1, EnqueueRows DEF Ids, TypeOK, OutboxTypeOK
  <2> QED
    BY <1>1, <2>2, <2>3 DEF Archive, TypeOK, CurrentInHand, filter, caltopo
<1>2. CASE WakeDeliveries
  BY <1>2 DEF WakeDeliveries, TypeOK, OutboxTypeOK, CurrentInHand, Ids, filter, caltopo
<1>3. CASE TakeWake
  BY <1>3 DEF TakeWake, TypeOK, OutboxTypeOK, CurrentInHand, Ids, filter, caltopo
<1>4. CASE TickerFires
  BY <1>4 DEF TickerFires, TypeOK, OutboxTypeOK, CurrentInHand, Ids, filter, caltopo
<1>5. CASE StoreFails
  BY <1>5 DEF StoreFails, EmptyBatch, TypeOK, OutboxTypeOK, CurrentInHand, Ids, filter, caltopo
<1>6. CASE QueryPending
  <2>1. PICK B \in SUBSET Eligible : batch' = [d \in B |-> deliveries[d].attempts]
    BY <1>6 DEF QueryPending
  <2>2. \A d \in B : d \in Ids /\ deliveries[d].attempts \in Nat
    BY <2>1, RowType DEF Eligible, Rows, TypeOK
  <2>3. DOMAIN batch' \subseteq Ids /\ batch' \in [DOMAIN batch' -> Nat]
    BY <2>1, <2>2
  <2> QED
    BY <1>6, <2>3 DEF QueryPending, TypeOK, OutboxTypeOK, CurrentInHand, Ids, filter, caltopo
<1>7. CASE DrainEnds
  BY <1>7 DEF DrainEnds, TypeOK, OutboxTypeOK, CurrentInHand, Ids, filter, caltopo
<1>8. CASE TakeNext
  <2>1. PICK d \in DOMAIN batch :
          current' = d /\ Prepare(d) /\ pc' \in {"publish", "settle"}
    BY <1>8 DEF TakeNext
  <2>2. d \in Ids /\ d \in Nat
    BY DEF TypeOK, Ids
  <2>3. /\ history' \in [Nodes -> History]
        /\ \A n \in Nodes : Len(history'[n].samples) <= 3
        /\ DOMAIN prepared' = DOMAIN prepared \cup {d}
        /\ prepared' \in [DOMAIN prepared' -> Decision]
    <3>1. CASE d \in DOMAIN prepared
      BY <2>1, <3>1 DEF Prepare, filter, TypeOK
    <3>2. CASE d \notin DOMAIN prepared
      <4> DEFINE n == Source(d)
                 samples == Sampled(history[n], deliveries[d].fix)
                 decision == Decide(history[n], deliveries[d].fix)
      <4>1. n \in Nodes /\ history[n] \in History /\ deliveries[d].fix \in Fixes
        BY <2>2, RowType DEF TypeOK
      <4>2. samples \in Seq(Fixes) /\ Len(samples) <= 3
        BY <4>1, SampledType
      <4>3. decision \in Decision
        BY <4>1, DecideType
      <4>4. /\ history' = [history EXCEPT ![n].samples = samples]
            /\ prepared' = Extended(prepared, d, decision)
        BY <2>1, <3>2 DEF Prepare
      <4> HIDE DEF n, samples, decision
      <4>5. [history[n] EXCEPT !.samples = samples] \in History
        BY <4>1, <4>2 DEF History
      <4>6. /\ history' \in [Nodes -> History]
            /\ \A m \in Nodes : Len(history'[m].samples) <= 3
        BY <4>1, <4>2, <4>4, <4>5 DEF TypeOK, History
      <4>7. /\ DOMAIN prepared' = DOMAIN prepared \cup {d}
            /\ prepared' \in [DOMAIN prepared' -> Decision]
        BY <4>3, <4>4 DEF Extended, TypeOK
      <4> QED
        BY <4>6, <4>7
    <3> QED
      BY <3>1, <3>2
  <2> QED
    BY <1>8, <2>1, <2>2, <2>3
    DEF TakeNext, TypeOK, OutboxTypeOK, CurrentInHand, Ids, caltopo
<1>9. CASE Settle
  <2>1. /\ current \in DOMAIN batch /\ current \in DOMAIN prepared
        /\ MarkDelivered(current) /\ Complete(current) /\ NextDelivery
    BY <1>9 DEF Settle, CurrentInHand
  <2>2. current \in Ids
    BY <2>1 DEF TypeOK
  <2>3. OutboxTypeOK' /\ Ids' = Ids
    BY <1>9, <2>1, <2>2, MarkDeliveredRows DEF Settle, TypeOK, OutboxTypeOK, Ids
  <2>4. /\ DOMAIN batch' \subseteq Ids' /\ batch' \in [DOMAIN batch' -> Nat]
        /\ current' \in Nat /\ pc' \in Stages \ Working
    BY <2>1, <2>3, NextDeliveryType
  <2>5. DOMAIN prepared' \subseteq Ids' /\ prepared' \in [DOMAIN prepared' -> Decision]
    BY <2>1, <2>3 DEF Complete, Without, TypeOK
  <2>6. /\ history' \in [Nodes -> History]
        /\ \A n \in Nodes : Len(history'[n].samples) <= 3
    <3> DEFINE n == Source(current)
    <3>1. n \in Nodes /\ history[n] \in History /\ prepared[current] \in Decision
      BY <2>1, <2>2, RowType DEF TypeOK
    <3>2. /\ Completed(history[n], prepared[current]) \in History
          /\ Completed(history[n], prepared[current]).samples = history[n].samples
      BY <3>1 DEF Completed, History, Decision
    <3>3. history' = [history EXCEPT ![n] = Completed(history[n], prepared[current])]
      BY <2>1, <3>1 DEF Complete, TypeOK
    <3> QED
      BY <3>1, <3>2, <3>3 DEF TypeOK
  <2> QED
    BY <1>9, <2>3, <2>4, <2>5, <2>6 DEF Settle, TypeOK, CurrentInHand, caltopo
<1>10. CASE RecordFailure
  <2> DEFINE attempts == batch[current] + 1
  <2>1. /\ current \in DOMAIN batch
        /\ MarkFailed(current, attempts, Plus(now, RetryDelay(attempts)), FALSE)
        /\ NextDelivery
    BY <1>10 DEF RecordFailure, CurrentInHand
  <2>2. current \in Ids /\ attempts \in Nat
    BY <2>1 DEF TypeOK
  <2>3. Plus(now, RetryDelay(attempts)) \in Instants
    BY <2>2, RetryTimeType DEF TypeOK
  <2> HIDE DEF attempts
  <2>4. OutboxTypeOK' /\ Ids' = Ids
    BY <1>10, <2>1, <2>2, <2>3, MarkFailedRows DEF RecordFailure, TypeOK, OutboxTypeOK, Ids
  <2>5. /\ DOMAIN batch' \subseteq Ids' /\ batch' \in [DOMAIN batch' -> Nat]
        /\ current' \in Nat /\ pc' \in Stages \ Working
    BY <2>1, <2>4, NextDeliveryType
  <2> QED
    BY <1>10, <2>4, <2>5 DEF RecordFailure, TypeOK, CurrentInHand, filter, caltopo
<1>11. CASE PublishApplied
  <2>1. /\ prepared[current].position \in Positions
        /\ prepared[current].position.node \in Nodes
        /\ current \in Ids
    BY <1>11 DEF PublishApplied, CurrentInHand, TypeOK, Decision, Positions
  <2>2. shown' \in [Nodes -> Positions \cup {None}] /\ applied' \subseteq Ids
    BY <1>11, <2>1 DEF PublishApplied, TypeOK
  <2> QED
    BY <1>11, <2>2
    DEF PublishApplied, CallReturns, TypeOK, OutboxTypeOK, CurrentInHand, Ids, filter
<1>12. CASE PublishAcknowledged
  BY <1>12 DEF PublishAcknowledged, CallReturns, TypeOK, OutboxTypeOK, CurrentInHand,
               Ids, filter, caltopo
<1>13. CASE PublishFails
  BY <1>13 DEF PublishFails, CallReturns, TypeOK, OutboxTypeOK, CurrentInHand,
               Ids, filter, caltopo
<1>14. CASE Crash
  <2>1. NoHistory \in History /\ Len(NoHistory.samples) <= 3
    BY EmptySeq DEF NoHistory, History
  <2> QED
    BY <1>14, <2>1 DEF Crash, EmptyBatch, EmptyFilter, TypeOK, OutboxTypeOK,
                       CurrentInHand, Ids, caltopo
<1>15. CASE Restart
  BY <1>15 DEF Restart, TypeOK, OutboxTypeOK, CurrentInHand, Ids, filter, caltopo
<1>16. CASE ClockTicks
  BY <1>16 DEF ClockTicks, Tick, TypeOK, OutboxTypeOK, CurrentInHand, Ids, filter, caltopo
<1>17. CASE UNCHANGED vars
  BY <1>17 DEF vars, TypeOK, OutboxTypeOK, CurrentInHand, Ids
<1> QED
  BY <1>1, <1>2, <1>3, <1>4, <1>5, <1>6, <1>7, <1>8, <1>9, <1>10, <1>11, <1>12,
     <1>13, <1>14, <1>15, <1>16, <1>17 DEF Next

(***************************************************************************)
(* Every state the worker, the outbox and CalTopo reach is well formed; in *)
(* particular the window of samples never holds more than three.           *)
(***************************************************************************)
THEOREM TypeCorrect == Spec => []TypeOK
<1>1. Spec => []TypeInv
  BY TypeInit, TypeStep, PTL DEF Spec
<1>2. TypeInv => TypeOK
  BY DEF TypeInv
<1> QED
  BY <1>1, <1>2, PTL

-----------------------------------------------------------------------------
(* The safety invariants.  IInv is TypeInv and what follows.               *)

Facts ==
  /\ BatchFresh
  /\ InTextOrder
  /\ PreparedArePending
  /\ SuppressionCovered
  /\ NeverAbandoned
  /\ PreparedOwn
  /\ LastApplied
  /\ SuppressedCovered

LEMMA IInvParts == IInv <=> TypeInv /\ Facts /\ AnswerApplied
  BY DEF IInv, TypeInv, Facts

\* The fixes of the rows never change, so neither does their order, and an
\* update that was applied stays applied.
LEMMA FixesKept ==
  ASSUME \A d \in Ids : deliveries'[d].fix = deliveries[d].fix,
         applied \subseteq Ids, applied \subseteq applied'
  PROVE  /\ \A d \in Ids :
              /\ Source(d)' = Source(d)
              /\ SourceTime(d)' = SourceTime(d)
              /\ Covered(d) => Covered(d)'
         /\ \A d, e \in Ids : Precedes(e, d)' <=> Precedes(e, d)
<1>1. \A d \in Ids : Source(d)' = Source(d) /\ SourceTime(d)' = SourceTime(d)
  BY DEF Source, SourceTime
<1>2. \A d \in Ids : Covered(d) => Covered(d)'
  <2> SUFFICES ASSUME NEW d \in Ids, Covered(d) PROVE Covered(d)'
    OBVIOUS
  <2>1. PICK e \in applied :
          /\ Source(e) = Source(d)
          /\ ~ NotAfter(Plus(SourceTime(e), Heartbeat), SourceTime(d))
    BY DEF Covered
  <2>2. e \in Ids /\ e \in applied'
    OBVIOUS
  <2>3. Source(e)' = Source(d)'
    BY <1>1, <2>1, <2>2
  <2>4. SourceTime(e)' = SourceTime(e) /\ SourceTime(d)' = SourceTime(d)
    BY <1>1, <2>2
  <2>5. (~ NotAfter(Plus(SourceTime(e), Heartbeat), SourceTime(d)))'
    BY <2>1, <2>4 DEF NotAfter, Before, Plus
  <2> QED
    BY <2>2, <2>3, <2>5 DEF Covered
<1>3. \A d, e \in Ids : Precedes(e, d)' <=> Precedes(e, d)
  BY <1>1 DEF Precedes, TextBefore
<1> QED
  BY <1>1, <1>2, <1>3

\* A step that leaves the outbox, the filter and the map alone keeps what does
\* not depend on the batch.
LEMMA KeptFacts ==
  ASSUME TypeOK, Facts,
         UNCHANGED <<deliveries, history, prepared, applied>>
  PROVE  /\ \A d \in Ids :
              /\ Pending(d)' <=> Pending(d)
              /\ Delivered(d)' <=> Delivered(d)
              /\ Source(d)' = Source(d)
         /\ \A d, e \in Ids : Precedes(e, d)' <=> Precedes(e, d)
         /\ PreparedArePending' /\ SuppressionCovered' /\ NeverAbandoned'
         /\ PreparedOwn' /\ LastApplied' /\ SuppressedCovered'
<1>1. Ids' = Ids
  BY DEF Ids
<1>2. \A d \in Ids :
        /\ Pending(d)' <=> Pending(d)
        /\ Delivered(d)' <=> Delivered(d)
        /\ Source(d)' = Source(d)
        /\ SourceTime(d)' = SourceTime(d)
        /\ Covered(d) => Covered(d)'
  BY FixesKept DEF Pending, Delivered, TypeOK
<1>3. \A d, e \in Ids : Precedes(e, d)' <=> Precedes(e, d)
  BY FixesKept DEF TypeOK
<1>4. DOMAIN prepared \subseteq Ids /\ applied \subseteq Ids
  BY DEF TypeOK
<1>5. PreparedArePending'
  BY <1>2, <1>4 DEF Facts, PreparedArePending
<1>6. SuppressionCovered'
  BY <1>1, <1>2 DEF Facts, SuppressionCovered
<1>7. NeverAbandoned'
  BY <1>1, <1>2 DEF Facts, NeverAbandoned
<1>8. PreparedOwn'
  BY <1>2, <1>4 DEF Facts, PreparedOwn
<1>9. LastApplied'
  BY <1>2, <1>4 DEF Facts, LastApplied
<1>10. SuppressedCovered'
  BY <1>2, <1>4 DEF Facts, SuppressedCovered
<1> QED
  BY <1>2, <1>3, <1>5, <1>6, <1>7, <1>8, <1>9, <1>10

\* Such a step that at most drops deliveries from the batch.
LEMMA QuietStep ==
  ASSUME TypeOK, Facts,
         UNCHANGED <<deliveries, history, prepared, applied>>,
         DOMAIN batch' \subseteq DOMAIN batch,
         \A d \in DOMAIN batch' : batch'[d] = batch[d]
  PROVE  Facts'
<1>1. Ids' = Ids /\ DOMAIN batch \subseteq Ids
  BY DEF Ids, TypeOK
<1>2. BatchFresh'
  BY <1>1, KeptFacts DEF Facts, BatchFresh
<1>3. InTextOrder'
  <2> SUFFICES ASSUME NEW d \in Ids, Started(d)', NEW e \in 1 .. (d - 1),
                      Source(e)' = Source(d)', Precedes(e, d)'
               PROVE  Delivered(e)'
    BY <1>1 DEF InTextOrder
  <2>1. e \in Ids
    BY DEF Ids
  <2>2. Started(d)
    BY KeptFacts DEF Started, InHand
  <2> QED
    BY <2>1, <2>2, KeptFacts DEF Facts, InTextOrder
<1> QED
  BY <1>2, <1>3, KeptFacts DEF Facts

LEMMA IInvInit == Init => IInv
<1> SUFFICES ASSUME Init PROVE IInv
  OBVIOUS
<1>1. TypeInv
  BY TypeInit
<1>2. Ids = {} /\ DOMAIN batch = {} /\ DOMAIN prepared = {}
  BY EmptySeq DEF Init, OutboxInit, Ids, EmptyBatch, EmptyFilter
<1>3. \A n \in Nodes : history[n].last = None
  BY DEF Init, NoHistory
<1>4. Facts
  BY <1>2, <1>3 DEF Facts, BatchFresh, InTextOrder, PreparedArePending, SuppressionCovered,
     NeverAbandoned, PreparedOwn, LastApplied, SuppressedCovered
<1>5. AnswerApplied
  BY DEF Init, AnswerApplied
<1> QED
  BY <1>1, <1>4, <1>5, IInvParts

LEMMA ArchiveStep ==
  ASSUME IInv, NEW fix \in Fixes, Archive(fix)
  PROVE  Facts' /\ AnswerApplied'
<1>0. PICK new : new = Len(deliveries) + 1
  OBVIOUS
<1>1. TypeOK /\ Facts /\ AnswerApplied /\ OutboxTypeOK /\ Enqueue(fix)
  BY IInvParts DEF TypeInv, TypeOK, Archive
<1>2. UNCHANGED <<pc, batch, current, history, prepared, applied>>
  BY DEF Archive, filter, caltopo
<1>3. /\ Ids' = Ids \cup {new}
      /\ new \notin Ids
      /\ deliveries'[new].state = "pending"
      /\ \A d \in Ids : deliveries'[d] = deliveries[d]
  BY <1>0, <1>1, EnqueueRows DEF Ids, OutboxTypeOK
<1>4. \A d \in Ids :
        /\ Pending(d)' <=> Pending(d)
        /\ Delivered(d)' <=> Delivered(d)
        /\ Source(d)' = Source(d)
        /\ SourceTime(d)' = SourceTime(d)
        /\ Covered(d) => Covered(d)'
  BY <1>1, <1>2, <1>3, FixesKept DEF Pending, Delivered, TypeOK
<1>5. \A d, e \in Ids : Precedes(e, d)' <=> Precedes(e, d)
  BY <1>1, <1>2, <1>3, FixesKept DEF TypeOK
<1>6. DOMAIN batch \subseteq Ids /\ DOMAIN prepared \subseteq Ids /\ applied \subseteq Ids
  BY <1>1 DEF TypeOK
<1>7. Pending(new)' /\ ~ Delivered(new)'
  BY <1>3 DEF Pending, Delivered
<1>8. BatchFresh'
  BY <1>1, <1>2, <1>3, <1>4, <1>6 DEF Facts, BatchFresh
<1>9. InTextOrder'
  <2> SUFFICES ASSUME NEW d \in Ids', Started(d)', NEW e \in 1 .. (d - 1),
                      Source(e)' = Source(d)', Precedes(e, d)'
               PROVE  Delivered(e)'
    BY DEF InTextOrder
  <2>1. d \in Ids
    BY <1>2, <1>3, <1>6, <1>7 DEF Started, InHand
  <2>2. e \in Ids
    BY <2>1 DEF Ids
  <2>3. Started(d)
    BY <1>2, <1>4, <2>1 DEF Started, InHand
  <2> QED
    BY <1>1, <1>4, <1>5, <2>1, <2>2, <2>3 DEF Facts, InTextOrder
<1>10. PreparedArePending'
  BY <1>1, <1>2, <1>4, <1>6 DEF Facts, PreparedArePending
<1>11. SuppressionCovered'
  BY <1>1, <1>2, <1>3, <1>4, <1>7 DEF Facts, SuppressionCovered
<1>12. NeverAbandoned'
  BY <1>1, <1>3, <1>4, <1>7 DEF Facts, NeverAbandoned
<1>13. PreparedOwn'
  BY <1>1, <1>2, <1>4, <1>6 DEF Facts, PreparedOwn
<1>14. LastApplied'
  BY <1>1, <1>2, <1>4, <1>6 DEF Facts, LastApplied
<1>15. SuppressedCovered'
  BY <1>1, <1>2, <1>4, <1>6 DEF Facts, SuppressedCovered
<1>16. AnswerApplied'
  BY <1>1, <1>2 DEF AnswerApplied
<1> QED
  BY <1>8, <1>9, <1>10, <1>11, <1>12, <1>13, <1>14, <1>15, <1>16 DEF Facts

LEMMA QueryStep ==
  ASSUME IInv, QueryPending
  PROVE  Facts' /\ AnswerApplied'
<1>1. TypeOK /\ Facts
  BY IInvParts DEF TypeInv
<1>2. UNCHANGED <<deliveries, history, prepared, applied>> /\ Ids' = Ids
  BY DEF QueryPending, filter, caltopo, Ids
<1>3. PICK B \in SUBSET Eligible : batch' = [d \in B |-> deliveries[d].attempts]
  BY DEF QueryPending
<1>4. BatchFresh'
  BY <1>1, <1>2, <1>3, KeptFacts DEF BatchFresh, Eligible
<1>5. InTextOrder'
  <2> SUFFICES ASSUME NEW d \in Ids, Started(d)', NEW e \in 1 .. (d - 1),
                      Source(e)' = Source(d)', Precedes(e, d)'
               PROVE  Delivered(e)'
    BY <1>2 DEF InTextOrder
  <2>1. e \in Ids /\ Source(e) = Source(d) /\ Precedes(e, d)
    <3>1. e \in Ids
      BY DEF Ids
    <3> QED
      BY <1>1, <1>2, <3>1, KeptFacts
  <2>2. CASE d \in B
    <3>1. ~ Pending(e)
      BY <1>3, <2>1, <2>2 DEF Eligible, Blocked
    <3>2. Delivered(e)
      BY <1>1, <2>1, <3>1 DEF Facts, NeverAbandoned
    <3> QED
      BY <1>1, <1>2, <2>1, <3>2, KeptFacts
  <2>3. CASE d \notin B
    <3>1. Started(d)
      BY <1>1, <1>2, <1>3, <2>3, KeptFacts DEF Started, InHand
    <3> QED
      BY <1>1, <1>2, <2>1, <3>1, KeptFacts DEF Facts, InTextOrder
  <2> QED
    BY <2>2, <2>3
<1>6. AnswerApplied'
  BY DEF QueryPending, AnswerApplied
<1> QED
  BY <1>1, <1>2, <1>4, <1>5, <1>6, KeptFacts DEF Facts

LEMMA TakeNextStep ==
  ASSUME IInv, TakeNext
  PROVE  Facts' /\ AnswerApplied'
<1>1. TypeOK /\ Facts
  BY IInvParts DEF TypeInv
<1>2. PICK d \in DOMAIN batch :
        /\ current' = d
        /\ Prepare(d)
        /\ pc' = IF prepared'[d].publish THEN "publish" ELSE "settle"
  BY DEF TakeNext
<1>3. UNCHANGED <<deliveries, batch, applied>> /\ Ids' = Ids
  BY DEF TakeNext, caltopo, Ids
<1>4. AnswerApplied'
  BY <1>2 DEF AnswerApplied
<1>5. CASE d \in DOMAIN prepared
  <2>1. UNCHANGED <<history, prepared>>
    BY <1>2, <1>5 DEF Prepare, filter
  <2> QED
    BY <1>1, <1>3, <1>4, <2>1, QuietStep
<1>6. CASE d \notin DOMAIN prepared
  <2> DEFINE n == Source(d)
             fix == deliveries[d].fix
             decision == Decide(history[n], fix)
  <2>1. /\ d \in Ids /\ Pending(d)
        /\ DOMAIN batch \subseteq Ids /\ DOMAIN prepared \subseteq Ids
        /\ applied \subseteq Ids
    BY <1>1 DEF TypeOK, Facts, BatchFresh
  <2>2. n \in Nodes /\ history[n] \in History /\ fix \in Fixes
    BY <1>1, <2>1, RowType DEF TypeOK
  <2>3. decision.position.node = n /\ decision.position.time = SourceTime(d)
    BY <2>2, DecideType DEF Source, SourceTime
  <2>4. ~ decision.publish => Covered(d)
    <3> SUFFICES ASSUME ~ decision.publish PROVE Covered(d)
      OBVIOUS
    <3>1. history[n].last # None /\ ~ HeartbeatDue(history[n].last, fix)
      BY SuppressedNotDue
    <3>2. PICK e \in applied : Source(e) = n /\ SourceTime(e) = history[n].last.time
      BY <1>1, <2>2, <3>1 DEF Facts, LastApplied
    <3> QED
      BY <3>1, <3>2 DEF Covered, HeartbeatDue, SourceTime
  <2>5. /\ history' = [history EXCEPT ![n].samples = Sampled(history[n], fix)]
        /\ prepared' = Extended(prepared, d, decision)
    BY <1>2, <1>6 DEF Prepare
  <2> HIDE DEF n, fix, decision
  <2>6. /\ DOMAIN prepared' = DOMAIN prepared \cup {d}
        /\ prepared'[d] = decision
        /\ \A e \in DOMAIN prepared : prepared'[e] = prepared[e]
    BY <1>6, <2>5 DEF Extended
  <2>7. \A m \in Nodes : history'[m].last = history[m].last
    BY <1>1, <2>2, <2>5 DEF TypeOK, History
  <2>8. /\ \A e \in Ids :
             /\ Pending(e)' <=> Pending(e)
             /\ Delivered(e)' <=> Delivered(e)
             /\ Source(e)' = Source(e)
             /\ SourceTime(e)' = SourceTime(e)
             /\ Covered(e) => Covered(e)'
        /\ \A e, f \in Ids : Precedes(e, f)' <=> Precedes(e, f)
    BY <1>3, <2>1, FixesKept DEF Pending, Delivered
  <2>9. BatchFresh'
    BY <1>1, <1>3, <2>1, <2>8 DEF Facts, BatchFresh
  <2>10. InTextOrder'
    <3> SUFFICES ASSUME NEW f \in Ids, Started(f)', NEW e \in 1 .. (f - 1),
                        Source(e)' = Source(f)', Precedes(e, f)'
                 PROVE  Delivered(e)'
      BY <1>3 DEF InTextOrder
    <3>1. e \in Ids
      BY DEF Ids
    <3>2. Started(f)
      BY <1>3, <2>6, <2>8 DEF Started, InHand
    <3> QED
      BY <1>1, <2>8, <3>1, <3>2 DEF Facts, InTextOrder
  <2>11. PreparedArePending'
    BY <1>1, <2>1, <2>6, <2>8 DEF Facts, PreparedArePending
  <2>12. SuppressionCovered'
    BY <1>1, <1>3, <2>8 DEF Facts, SuppressionCovered
  <2>13. NeverAbandoned'
    BY <1>1, <1>3, <2>8 DEF Facts, NeverAbandoned
  <2>14. PreparedOwn'
    <3> SUFFICES ASSUME NEW e \in DOMAIN prepared'
                 PROVE  /\ prepared'[e].position.node = Source(e)'
                        /\ prepared'[e].position.time = SourceTime(e)'
      BY DEF PreparedOwn
    <3>1. CASE e = d
      BY <2>1, <2>3, <2>6, <2>8, <3>1 DEF n
    <3>2. CASE e # d
      BY <1>1, <2>1, <2>6, <2>8, <3>2 DEF Facts, PreparedOwn
    <3> QED
      BY <3>1, <3>2
  <2>15. LastApplied'
    <3> SUFFICES ASSUME NEW m \in Nodes, history[m].last # None
                 PROVE  \E e \in applied :
                          Source(e)' = m /\ SourceTime(e)' = history[m].last.time
      BY <1>3, <2>7 DEF LastApplied
    <3> QED
      BY <1>1, <2>1, <2>8 DEF Facts, LastApplied
  <2>16. SuppressedCovered'
    BY <1>1, <2>1, <2>4, <2>6, <2>8 DEF Facts, SuppressedCovered
  <2> QED
    BY <1>4, <2>9, <2>10, <2>11, <2>12, <2>13, <2>14, <2>15, <2>16 DEF Facts
<1> QED
  BY <1>5, <1>6

\* What MarkDelivered and MarkFailed have in common.
LEMMA RowChange ==
  ASSUME TypeOK, Facts, NEW d \in Ids,
         Len(deliveries') = Len(deliveries),
         \A e \in Ids \ {d} : deliveries'[e] = deliveries[e],
         deliveries'[d].fix = deliveries[d].fix,
         applied' = applied
  PROVE  /\ Ids' = Ids
         /\ \A e \in Ids :
              /\ Source(e)' = Source(e)
              /\ SourceTime(e)' = SourceTime(e)
              /\ Covered(e) => Covered(e)'
              /\ e # d => /\ Pending(e)' <=> Pending(e)
                          /\ Delivered(e)' <=> Delivered(e)
         /\ \A e, f \in Ids : Precedes(e, f)' <=> Precedes(e, f)
<1>1. Ids' = Ids
  BY DEF Ids
<1>2. \A e \in Ids : deliveries'[e].fix = deliveries[e].fix
  OBVIOUS
<1>3. applied \subseteq Ids
  BY DEF TypeOK
<1>4. \A e \in Ids \ {d} : (Pending(e)' <=> Pending(e)) /\ (Delivered(e)' <=> Delivered(e))
  BY DEF Pending, Delivered
<1> QED
  BY <1>1, <1>2, <1>3, <1>4, FixesKept

\* After either, a delivery that has been started was started before.
LEMMA OrderKept ==
  ASSUME TypeOK, Facts, NEW d \in Ids, d \in DOMAIN batch,
         Len(deliveries') = Len(deliveries),
         \A e \in Ids \ {d} : deliveries'[e] = deliveries[e],
         deliveries'[d].fix = deliveries[d].fix,
         applied' = applied,
         DOMAIN batch' \subseteq DOMAIN batch,
         DOMAIN prepared' \subseteq DOMAIN prepared
  PROVE  InTextOrder'
<1>1. ~ Delivered(d)
  BY DEF Facts, BatchFresh, Pending, Delivered
<1> SUFFICES ASSUME NEW f \in Ids, Started(f)', NEW e \in 1 .. (f - 1),
                    Source(e)' = Source(f)', Precedes(e, f)'
             PROVE  Delivered(e)'
  BY RowChange DEF InTextOrder
<1>2. e \in Ids
  BY DEF Ids
<1>3. Started(f)
  <2>1. CASE f = d
    BY <2>1 DEF Started, InHand
  <2>2. CASE f # d
    BY <2>2, RowChange DEF Started, InHand
  <2> QED
    BY <2>1, <2>2
<1>4. Delivered(e)
  BY <1>2, <1>3, RowChange DEF Facts, InTextOrder
<1> QED
  BY <1>1, <1>2, <1>4, RowChange

LEMMA SettleStep ==
  ASSUME IInv, Settle
  PROVE  Facts' /\ AnswerApplied'
<1>0. PICK d : d = current
  OBVIOUS
<1>1. TypeOK /\ Facts /\ AnswerApplied /\ OutboxTypeOK
  BY IInvParts DEF TypeInv, TypeOK
<1>2. /\ d \in DOMAIN batch /\ d \in DOMAIN prepared
      /\ MarkDelivered(d) /\ Complete(d)
      /\ batch' = Without(batch, d)
      /\ pc = "settle" /\ pc' \in {"query", "deliver"}
      /\ UNCHANGED applied
  BY <1>0, IInvParts DEF Settle, NextDelivery, TypeInv, CurrentInHand, Working, caltopo
<1>3. /\ d \in Ids
      /\ DOMAIN batch \subseteq Ids /\ DOMAIN prepared \subseteq Ids
      /\ applied \subseteq Ids
  BY <1>1, <1>2 DEF TypeOK
<1>4. /\ Len(deliveries') = Len(deliveries)
      /\ \A e \in Ids \ {d} : deliveries'[e] = deliveries[e]
      /\ deliveries'[d].fix = deliveries[d].fix
      /\ deliveries'[d].state = "delivered"
  BY <1>1, <1>2, <1>3, MarkDeliveredRows
<1>5. /\ DOMAIN batch' = DOMAIN batch \ {d}
      /\ \A e \in DOMAIN batch' : batch'[e] = batch[e]
      /\ DOMAIN prepared' = DOMAIN prepared \ {d}
      /\ \A e \in DOMAIN prepared' : prepared'[e] = prepared[e]
  BY <1>2 DEF Without, Complete
<1>6. /\ Ids' = Ids
      /\ \A e \in Ids :
           /\ Source(e)' = Source(e)
           /\ SourceTime(e)' = SourceTime(e)
           /\ Covered(e) => Covered(e)'
           /\ e # d => /\ Pending(e)' <=> Pending(e)
                       /\ Delivered(e)' <=> Delivered(e)
  BY <1>1, <1>2, <1>3, <1>4, RowChange
<1>7. Delivered(d)'
  BY <1>4 DEF Delivered
<1>8. d \in applied \/ Covered(d)
  BY <1>0, <1>1, <1>2 DEF AnswerApplied, Facts, SuppressedCovered
<1>9. BatchFresh'
  BY <1>1, <1>3, <1>4, <1>5, <1>6 DEF Facts, BatchFresh
<1>10. InTextOrder'
  BY <1>1, <1>2, <1>3, <1>4, <1>5, OrderKept
<1>11. PreparedArePending'
  BY <1>1, <1>3, <1>5, <1>6 DEF Facts, PreparedArePending
<1>12. SuppressionCovered'
  BY <1>1, <1>2, <1>3, <1>6, <1>8 DEF Facts, SuppressionCovered
<1>13. NeverAbandoned'
  BY <1>1, <1>6, <1>7 DEF Facts, NeverAbandoned
<1>14. PreparedOwn'
  BY <1>1, <1>3, <1>5, <1>6 DEF Facts, PreparedOwn
<1>15. LastApplied'
  <2>1. SUFFICES ASSUME NEW m \in Nodes, history'[m].last # None
                 PROVE  \E e \in applied :
                          Source(e)' = m /\ SourceTime(e)' = history'[m].last.time
    BY <1>2 DEF LastApplied
  <2>2. /\ Source(d) \in Nodes /\ history[Source(d)] \in History
        /\ prepared[d] \in Decision
    BY <1>1, <1>2, <1>3, RowType DEF TypeOK
  <2>3. history'[m] = IF m = Source(d) THEN Completed(history[m], prepared[d])
                                       ELSE history[m]
    BY <1>1, <1>2, <2>2 DEF Complete, TypeOK
  <2>4. CASE m = Source(d) /\ prepared[d].publish
    <3>1. history'[m].last = prepared[d].position
      BY <2>2, <2>3, <2>4 DEF Completed, History
    <3>2. d \in applied
      BY <1>0, <1>1, <1>2, <2>4 DEF AnswerApplied
    <3> QED
      BY <1>1, <1>2, <1>3, <1>6, <2>4, <3>1, <3>2 DEF Facts, PreparedOwn
  <2>5. CASE ~ (m = Source(d) /\ prepared[d].publish)
    <3>1. history'[m] = history[m]
      BY <2>3, <2>5 DEF Completed
    <3> QED
      BY <1>1, <1>3, <1>6, <2>1, <3>1 DEF Facts, LastApplied
  <2> QED
    BY <2>4, <2>5
<1>16. SuppressedCovered'
  BY <1>1, <1>3, <1>5, <1>6 DEF Facts, SuppressedCovered
<1>17. AnswerApplied'
  BY <1>2 DEF AnswerApplied
<1> QED
  BY <1>9, <1>10, <1>11, <1>12, <1>13, <1>14, <1>15, <1>16, <1>17 DEF Facts

LEMMA FailureStep ==
  ASSUME IInv, RecordFailure
  PROVE  Facts' /\ AnswerApplied'
<1>0. PICK d : d = current
  OBVIOUS
<1>1. TypeOK /\ Facts /\ OutboxTypeOK
  BY IInvParts DEF TypeInv, TypeOK
<1>2. /\ d \in DOMAIN batch
      /\ batch' = Without(batch, d)
      /\ pc' \in {"query", "deliver"}
      /\ UNCHANGED <<history, prepared, applied>>
  BY <1>0, IInvParts DEF RecordFailure, NextDelivery, TypeInv, CurrentInHand, Working,
                         filter, caltopo
<1>3. /\ d \in Ids
      /\ DOMAIN batch \subseteq Ids /\ DOMAIN prepared \subseteq Ids
  BY <1>1, <1>2 DEF TypeOK
<1>4. /\ Len(deliveries') = Len(deliveries)
      /\ \A e \in Ids \ {d} : deliveries'[e] = deliveries[e]
      /\ deliveries'[d].fix = deliveries[d].fix
      /\ deliveries'[d].state = "pending"
  <2> DEFINE attempts == batch[d] + 1
             next == Plus(now, RetryDelay(attempts))
  <2>1. attempts \in Nat
    BY <1>1, <1>2 DEF TypeOK
  <2>2. next \in Instants
    BY <1>1, <2>1, RetryTimeType
  <2>3. MarkFailed(d, attempts, next, FALSE)
    BY <1>0 DEF RecordFailure
  <2> HIDE DEF attempts, next
  <2> QED
    BY <1>1, <1>3, <2>1, <2>2, <2>3, MarkFailedRows
<1>5. /\ DOMAIN batch' = DOMAIN batch \ {d}
      /\ \A e \in DOMAIN batch' : batch'[e] = batch[e]
  BY <1>2 DEF Without
<1>6. /\ Ids' = Ids
      /\ \A e \in Ids :
           /\ Source(e)' = Source(e)
           /\ SourceTime(e)' = SourceTime(e)
           /\ Covered(e) => Covered(e)'
           /\ e # d => /\ Pending(e)' <=> Pending(e)
                       /\ Delivered(e)' <=> Delivered(e)
  BY <1>1, <1>2, <1>3, <1>4, RowChange
<1>7. Pending(d)' /\ ~ Delivered(d)'
  BY <1>4 DEF Pending, Delivered
<1>8. BatchFresh'
  BY <1>1, <1>3, <1>4, <1>5, <1>6 DEF Facts, BatchFresh
<1>9. InTextOrder'
  BY <1>1, <1>2, <1>3, <1>4, <1>5, OrderKept
<1>10. PreparedArePending'
  BY <1>1, <1>2, <1>3, <1>6, <1>7 DEF Facts, PreparedArePending
<1>11. SuppressionCovered'
  BY <1>1, <1>2, <1>6, <1>7 DEF Facts, SuppressionCovered
<1>12. NeverAbandoned'
  BY <1>1, <1>6, <1>7 DEF Facts, NeverAbandoned
<1>13. PreparedOwn'
  BY <1>1, <1>2, <1>3, <1>6 DEF Facts, PreparedOwn
<1>14. LastApplied'
  BY <1>1, <1>2, <1>6 DEF Facts, LastApplied, TypeOK
<1>15. SuppressedCovered'
  BY <1>1, <1>2, <1>3, <1>6 DEF Facts, SuppressedCovered
<1>16. AnswerApplied'
  BY <1>2 DEF AnswerApplied
<1> QED
  BY <1>8, <1>9, <1>10, <1>11, <1>12, <1>13, <1>14, <1>15, <1>16 DEF Facts

LEMMA AppliedStep ==
  ASSUME IInv, PublishApplied
  PROVE  Facts' /\ AnswerApplied'
<1>1. TypeOK /\ Facts
  BY IInvParts DEF TypeInv
<1>2. /\ UNCHANGED <<deliveries, batch, current, history, prepared>>
      /\ applied' = applied \cup {current}
      /\ current \in DOMAIN batch
  BY IInvParts DEF PublishApplied, CallReturns, filter, TypeInv, CurrentInHand, Working
<1>3. /\ Ids' = Ids /\ applied \subseteq Ids
      /\ DOMAIN batch \subseteq Ids /\ DOMAIN prepared \subseteq Ids
  BY <1>1, <1>2 DEF TypeOK, Ids
<1>4. /\ \A e \in Ids :
           /\ Pending(e)' <=> Pending(e)
           /\ Delivered(e)' <=> Delivered(e)
           /\ Source(e)' = Source(e)
           /\ SourceTime(e)' = SourceTime(e)
           /\ Covered(e) => Covered(e)'
      /\ \A e, f \in Ids : Precedes(e, f)' <=> Precedes(e, f)
  BY <1>2, <1>3, FixesKept DEF Pending, Delivered
<1>5. BatchFresh'
  BY <1>1, <1>2, <1>3, <1>4 DEF Facts, BatchFresh
<1>6. InTextOrder'
  <2> SUFFICES ASSUME NEW f \in Ids, Started(f)', NEW e \in 1 .. (f - 1),
                      Source(e)' = Source(f)', Precedes(e, f)'
               PROVE  Delivered(e)'
    BY <1>3 DEF InTextOrder
  <2>1. e \in Ids
    BY DEF Ids
  <2>2. Started(f)
    BY <1>2, <1>4 DEF Started, InHand
  <2> QED
    BY <1>1, <1>4, <2>1, <2>2 DEF Facts, InTextOrder
<1>7. PreparedArePending'
  BY <1>1, <1>2, <1>3, <1>4 DEF Facts, PreparedArePending
<1>8. SuppressionCovered'
  BY <1>1, <1>2, <1>3, <1>4 DEF Facts, SuppressionCovered
<1>9. NeverAbandoned'
  BY <1>1, <1>3, <1>4 DEF Facts, NeverAbandoned
<1>10. PreparedOwn'
  BY <1>1, <1>2, <1>3, <1>4 DEF Facts, PreparedOwn
<1>11. LastApplied'
  <2> SUFFICES ASSUME NEW m \in Nodes, history[m].last # None
               PROVE  \E e \in applied' :
                        Source(e)' = m /\ SourceTime(e)' = history[m].last.time
    BY <1>2 DEF LastApplied
  <2>1. PICK e \in applied : Source(e) = m /\ SourceTime(e) = history[m].last.time
    BY <1>1 DEF Facts, LastApplied
  <2> QED
    BY <1>2, <1>3, <1>4, <2>1
<1>12. SuppressedCovered'
  BY <1>1, <1>2, <1>3, <1>4 DEF Facts, SuppressedCovered
<1>13. AnswerApplied'
  BY <1>2 DEF AnswerApplied
<1> QED
  BY <1>5, <1>6, <1>7, <1>8, <1>9, <1>10, <1>11, <1>12, <1>13 DEF Facts

LEMMA CrashStep ==
  ASSUME IInv, Crash
  PROVE  Facts' /\ AnswerApplied'
<1>1. TypeOK /\ Facts
  BY IInvParts DEF TypeInv
<1>2. /\ UNCHANGED <<deliveries, applied>> /\ Ids' = Ids
      /\ DOMAIN batch' = {} /\ DOMAIN prepared' = {}
      /\ \A n \in Nodes : history'[n].last = None
      /\ pc' = "down"
  BY DEF Crash, EmptyBatch, EmptyFilter, NoHistory, caltopo, Ids
<1>3. /\ \A e \in Ids :
           /\ Pending(e)' <=> Pending(e)
           /\ Delivered(e)' <=> Delivered(e)
           /\ Source(e)' = Source(e)
           /\ Covered(e) => Covered(e)'
      /\ \A e, f \in Ids : Precedes(e, f)' <=> Precedes(e, f)
  BY <1>1, <1>2, FixesKept DEF Pending, Delivered, TypeOK
<1>4. InTextOrder'
  <2> SUFFICES ASSUME NEW f \in Ids, Started(f)', NEW e \in 1 .. (f - 1),
                      Source(e)' = Source(f)', Precedes(e, f)'
               PROVE  Delivered(e)'
    BY <1>2 DEF InTextOrder
  <2>1. e \in Ids
    BY DEF Ids
  <2>2. Started(f)
    BY <1>2, <1>3 DEF Started, InHand
  <2> QED
    BY <1>1, <1>3, <2>1, <2>2 DEF Facts, InTextOrder
<1>5. SuppressionCovered' /\ NeverAbandoned'
  BY <1>1, <1>2, <1>3 DEF Facts, SuppressionCovered, NeverAbandoned
<1>6. /\ BatchFresh' /\ PreparedArePending' /\ PreparedOwn'
      /\ LastApplied' /\ SuppressedCovered' /\ AnswerApplied'
  BY <1>2 DEF BatchFresh, PreparedArePending, PreparedOwn, LastApplied,
              SuppressedCovered, AnswerApplied
<1> QED
  BY <1>4, <1>5, <1>6 DEF Facts

LEMMA IInvStep == IInv /\ [Next]_vars => IInv'
<1> SUFFICES ASSUME IInv, [Next]_vars
             PROVE  Facts' /\ AnswerApplied'
  BY TypeStep DEF IInv, TypeInv, Facts
<1> DEFINE Quiet == /\ UNCHANGED <<deliveries, history, prepared, applied>>
                    /\ batch' \in {batch, EmptyBatch}
<1>0. TypeOK /\ Facts /\ AnswerApplied
  BY IInvParts DEF TypeInv
<1>1. ASSUME Quiet PROVE Facts'
  BY <1>0, <1>1, QuietStep DEF EmptyBatch
<1>2. ASSUME NEW fix \in Fixes, Archive(fix) PROVE Facts' /\ AnswerApplied'
  BY <1>2, ArchiveStep
<1>3. CASE WakeDeliveries
  BY <1>0, <1>1, <1>3 DEF WakeDeliveries, filter, caltopo, AnswerApplied
<1>4. CASE TakeWake
  BY <1>1, <1>4 DEF TakeWake, filter, caltopo, AnswerApplied
<1>5. CASE TickerFires
  BY <1>1, <1>5 DEF TickerFires, filter, caltopo, AnswerApplied
<1>6. CASE StoreFails
  BY <1>1, <1>6 DEF StoreFails, filter, caltopo, AnswerApplied
<1>7. CASE QueryPending
  BY <1>7, QueryStep
<1>8. CASE DrainEnds
  BY <1>1, <1>8 DEF DrainEnds, filter, caltopo, AnswerApplied
<1>9. CASE TakeNext
  BY <1>9, TakeNextStep
<1>10. CASE Settle
  BY <1>10, SettleStep
<1>11. CASE RecordFailure
  BY <1>11, FailureStep
<1>12. CASE PublishApplied
  BY <1>12, AppliedStep
<1>13. CASE PublishAcknowledged
  BY <1>0, <1>1, <1>13 DEF PublishAcknowledged, CallReturns, filter, caltopo, AnswerApplied
<1>14. CASE PublishFails
  BY <1>1, <1>14 DEF PublishFails, CallReturns, filter, caltopo, AnswerApplied
<1>15. CASE Crash
  BY <1>15, CrashStep
<1>16. CASE Restart
  BY <1>1, <1>16 DEF Restart, filter, caltopo, AnswerApplied
<1>17. CASE ClockTicks
  BY <1>0, <1>1, <1>17 DEF ClockTicks, filter, caltopo, AnswerApplied
<1>18. CASE UNCHANGED vars
  BY <1>0, <1>1, <1>18 DEF vars, AnswerApplied
<1> QED
  BY <1>2, <1>3, <1>4, <1>5, <1>6, <1>7, <1>8, <1>9, <1>10, <1>11, <1>12,
     <1>13, <1>14, <1>15, <1>16, <1>17, <1>18 DEF Next

(***************************************************************************)
(* The invariant all others follow from: in every reachable state batch,   *)
(* filter and outbox agree on what was sent, decided and left out.         *)
(***************************************************************************)
THEOREM Invariance == Spec => []IInv
  BY IInvInit, IInvStep, PTL DEF Spec

(***************************************************************************)
(* drain never works on a row that changed since its query: MarkFailed     *)
(* never overwrites a newer count of attempts.                             *)
(***************************************************************************)
THEOREM BatchesStayFresh == Spec => []BatchFresh
<1>1. IInv => BatchFresh
  BY DEF IInv
<1> QED
  BY <1>1, Invariance, PTL

(***************************************************************************)
(* No delivery is sent or finished before an earlier one of its node in    *)
(* the order of PendingDeliveries, whatever fails and whenever it crashes. *)
(***************************************************************************)
THEOREM TextOrderKept == Spec => []InTextOrder
<1>1. IInv => InTextOrder
  BY DEF IInv
<1> QED
  BY <1>1, Invariance, PTL

(***************************************************************************)
(* positionFilter keeps decisions about pending deliveries only.           *)
(***************************************************************************)
THEOREM FilterDoesNotLeak == Spec => []PreparedArePending
<1>1. IInv => PreparedArePending
  BY DEF IInv
<1> QED
  BY <1>1, Invariance, PTL

(***************************************************************************)
(* A fix left out of the map came within a heartbeat of one of its node    *)
(* that CalTopo applied, across crashes, lost answers and retries.         *)
(***************************************************************************)
THEOREM LeftOutWithReason == Spec => []SuppressionCovered
<1>1. IInv => SuppressionCovered
  BY DEF IInv
<1> QED
  BY <1>1, Invariance, PTL

-----------------------------------------------------------------------------
(* The order of the instants, where their texts sort alike.                *)

\* The hypothesis the per-node order rests on.
TextsSort == \A s, t \in Times : NotAfter(s, t) => s = t \/ TextBefore(s, t)

\* Source times without fractions satisfy it.
LEMMA WholeSecondsSort ==
  ASSUME \A t \in Times : t.frac = 0
  PROVE  TextsSort
<1> SUFFICES ASSUME NEW s \in Times, NEW t \in Times, NotAfter(s, t)
             PROVE  s = t \/ TextBefore(s, t)
  BY DEF TextsSort
<1>1. s \in Instants /\ t \in Instants /\ s.frac = t.frac
  BY FilterAssumption
<1>2. s.sec <= t.sec
  BY <1>1 DEF NotAfter, Before, Instants
<1>3. CASE s.sec = t.sec
  BY <1>1, <1>3 DEF Instants
<1>4. CASE s.sec < t.sec
  BY <1>4 DEF TextBefore
<1> QED
  BY <1>1, <1>2, <1>3, <1>4 DEF Instants

LEMMA OrderFromText ==
  ASSUME TextsSort, TypeOK, InTextOrder
  PROVE  InOrder
<1> SUFFICES ASSUME NEW d \in Ids, Started(d), NEW e \in 1 .. (d - 1),
                    Source(e) = Source(d), NotAfter(SourceTime(e), SourceTime(d))
             PROVE  Delivered(e)
  BY DEF InOrder
<1>1. e \in Ids /\ e < d
  BY DEF Ids
<1>2. SourceTime(e) \in Times /\ SourceTime(d) \in Times
  BY <1>1, RowType, FilterAssumption DEF TypeOK, SourceTime, Positions
<1>3. Precedes(e, d)
  BY <1>1, <1>2 DEF TextsSort, Precedes
<1> QED
  BY <1>3 DEF InTextOrder

(***************************************************************************)
(* "Preserve per-node ordering": when the texts of the source times sort   *)
(* as the times do, no fix of a node is sent or finished before an older   *)
(* one that was archived earlier.                                          *)
(***************************************************************************)
THEOREM OrderKeptInTime == TextsSort => (Spec => []InOrder)
<1> SUFFICES ASSUME TextsSort PROVE Spec => []InOrder
  OBVIOUS
<1>1. IInv => InOrder
  BY OrderFromText DEF IInv
<1> QED
  BY <1>1, Invariance, PTL

-----------------------------------------------------------------------------
(* The worker implements OrderedDelivery.                                  *)

log  == [d \in Ids |-> deliveries[d].fix]
done == {d \in Ids : Delivered(d)}

LEMMA PromiseInit == Init => Promise!LogInit
  BY EmptySeq DEF Init, OutboxInit, Ids, Promise!LogInit

\* What holds of a delivery that is being worked on.
LEMMA InHandReady ==
  ASSUME TextsSort, IInv, NEW d \in DOMAIN batch
  PROVE  Promise!Ready(d)
<1>1. TypeOK /\ d \in Ids /\ ~ Delivered(d)
  BY DEF IInv, TypeOK, BatchFresh, Pending, Delivered
<1>2. \A e \in 1 .. (d - 1) :
        Source(e) = Source(d) /\ NotAfter(SourceTime(e), SourceTime(d)) => Delivered(e)
  BY <1>1, OrderFromText DEF IInv, InOrder, Started, InHand
<1>3. \A e \in Ids : e < d => e \in 1 .. (d - 1)
  BY <1>1 DEF Ids
<1> QED
  BY <1>1, <1>2, <1>3
  DEF Promise!Ready, Promise!Ahead, Promise!NotAfter, Promise!Before, NotAfter, Before,
      Source, SourceTime

LEMMA CoveredSuperfluous ==
  ASSUME TypeOK, NEW d \in Ids, Covered(d)
  PROVE  Promise!Superfluous(d)
<1>1. PICK e \in applied :
        Source(e) = Source(d) /\ ~ NotAfter(Plus(SourceTime(e), Heartbeat), SourceTime(d))
  BY DEF Covered
<1>2. e \in Ids
  BY DEF TypeOK
<1> QED
  BY <1>1, <1>2
  DEF Promise!Superfluous, Promise!Before, Promise!Plus, NotAfter, Before, Plus,
      Source, SourceTime

\* A step that keeps the fixes, the finished deliveries and the map.
LEMMA Unobserved ==
  ASSUME Ids' = Ids, applied' = applied,
         \A d \in Ids : /\ deliveries'[d].fix = deliveries[d].fix
                        /\ Delivered(d)' <=> Delivered(d)
  PROVE  UNCHANGED Promise!logVars
  BY DEF Promise!logVars

LEMMA PromiseStep ==
  ASSUME TextsSort, IInv, IInv', [Next]_vars
  PROVE  [Promise!LogNext]_(Promise!logVars)
<1>0. TypeOK /\ OutboxTypeOK /\ applied \subseteq Ids
  BY DEF IInv, TypeOK
<1>1. ASSUME NEW fix \in Fixes, Archive(fix)
      PROVE  Promise!LogNext
  <2>1. PICK new : new = Len(deliveries) + 1
    OBVIOUS
  <2>2. Enqueue(fix) /\ ~ Archived(fix) /\ applied' = applied
    BY <1>1 DEF Archive, caltopo
  <2>3. /\ Len(deliveries) \in Nat
        /\ Ids = 1 .. Len(deliveries) /\ Ids' = 1 .. new /\ Ids' = Ids \cup {new}
        /\ new \notin Ids
        /\ deliveries'[new].fix = fix
        /\ deliveries'[new].state = "pending"
        /\ \A d \in Ids : deliveries'[d] = deliveries[d]
    BY <1>0, <2>1, <2>2, EnqueueRows DEF Ids, OutboxTypeOK
  <2>4. \A d \in DOMAIN log : log[d] # fix
    BY <2>2 DEF Archived, log
  <2>5. log' = Append(log, fix)
    <3>1. log \in Seq(Fixes) /\ Len(log) = Len(deliveries)
      BY <1>0, <2>3, RowType DEF log
    <3>2. log' = [d \in 1 .. new |-> IF d = new THEN fix ELSE log[d]]
      BY <2>3 DEF log
    <3>3. /\ log' \in Seq(Fixes)
          /\ Len(log') = new
          /\ \A d \in 1 .. new : log'[d] = IF d = new THEN fix ELSE log[d]
      BY <2>1, <2>3, <3>1, <3>2, ElementOfSeq
    <3>4. /\ Append(log, fix) \in Seq(Fixes)
          /\ Len(Append(log, fix)) = new
          /\ \A d \in 1 .. new : Append(log, fix)[d] = IF d = new THEN fix ELSE log[d]
      BY <2>1, <3>1, AppendProperties
    <3> QED
      BY <3>3, <3>4, SeqEqual
  <2>6. done' = done
    BY <2>3 DEF Delivered, done
  <2> QED
    BY <2>2, <2>4, <2>5, <2>6
    DEF log, done, Promise!LogNext, Promise!Accept
<1>2. CASE PublishApplied
  <2>1. /\ UNCHANGED deliveries /\ applied' = applied \cup {current}
        /\ current \in DOMAIN batch
    BY <1>2 DEF PublishApplied, CallReturns, IInv, CurrentInHand, Working
  <2>2. Promise!Ready(current) /\ current \in DOMAIN log
    BY <1>0, <2>1, InHandReady DEF TypeOK, log
  <2>3. log' = log /\ done' = done
    BY <2>1 DEF log, done, Ids, Delivered
  <2>4. Promise!Send(current)
    BY <2>1, <2>2, <2>3 DEF Promise!Send, log, done
  <2> QED
    BY <2>2, <2>4 DEF Promise!LogNext, log
<1>3. CASE Settle
  <2>0. PICK d : d = current
    OBVIOUS
  <2>1. /\ d \in DOMAIN batch /\ d \in DOMAIN prepared /\ d \in Ids
        /\ MarkDelivered(d) /\ pc = "settle" /\ applied' = applied
    BY <1>0, <1>3, <2>0 DEF Settle, IInv, CurrentInHand, Working, caltopo, TypeOK
  <2>2. /\ Len(deliveries') = Len(deliveries)
        /\ \A e \in Ids \ {d} : deliveries'[e] = deliveries[e]
        /\ deliveries'[d].fix = deliveries[d].fix
        /\ deliveries'[d].state = "delivered"
    BY <1>0, <2>1, MarkDeliveredRows
  <2>3. Ids' = Ids
    BY <2>2 DEF Ids
  <2>4. log' = log
    BY <2>2, <2>3 DEF log
  <2>5. done' = done \cup {d}
    BY <2>1, <2>2, <2>3 DEF Delivered, done
  <2>6. d \in applied \/ Promise!Superfluous(d)
    BY <1>0, <2>0, <2>1, CoveredSuperfluous DEF IInv, AnswerApplied, SuppressedCovered
  <2>7. Promise!Ready(d) /\ d \in DOMAIN log
    BY <2>1, InHandReady DEF log
  <2>8. Promise!Finish(d)
    BY <2>1, <2>4, <2>5, <2>6, <2>7 DEF Promise!Finish, log, done
  <2> QED
    BY <2>7, <2>8 DEF Promise!LogNext, log
<1>4. CASE RecordFailure
  <2>1. PICK d : d = current
    OBVIOUS
  <2> DEFINE attempts == batch[d] + 1
             next == Plus(now, RetryDelay(attempts))
  <2>2. d \in DOMAIN batch /\ applied' = applied
    BY <1>4, <2>1 DEF RecordFailure, IInv, CurrentInHand, Working, caltopo
  <2>3. /\ d \in Ids /\ Pending(d)
        /\ attempts \in Nat
    BY <1>0, <2>2 DEF IInv, TypeOK, BatchFresh
  <2>5. MarkFailed(d, attempts, next, FALSE)
    BY <1>4, <2>1 DEF RecordFailure
  <2>4. next \in Instants
    BY <1>0, <2>3, RetryTimeType
  <2> HIDE DEF attempts, next
  <2>6. /\ Len(deliveries') = Len(deliveries)
        /\ \A e \in Ids \ {d} : deliveries'[e] = deliveries[e]
        /\ deliveries'[d].fix = deliveries[d].fix
        /\ deliveries'[d].state = "pending"
    BY <1>0, <2>3, <2>4, <2>5, MarkFailedRows
  <2>7. Ids' = Ids
    BY <2>6 DEF Ids
  <2>8. \A e \in Ids : /\ deliveries'[e].fix = deliveries[e].fix
                       /\ Delivered(e)' <=> Delivered(e)
    BY <2>3, <2>6 DEF Delivered, Pending
  <2> QED
    BY <2>7, <2>8, <2>2, Unobserved
<1>5. ASSUME UNCHANGED <<deliveries, applied>>
      PROVE  UNCHANGED Promise!logVars
  BY <1>5 DEF Promise!logVars, Ids, Delivered
<1>6. CASE WakeDeliveries \/ TakeWake \/ TickerFires \/ StoreFails \/ QueryPending
  BY <1>5, <1>6 DEF WakeDeliveries, TakeWake, TickerFires, StoreFails, QueryPending, caltopo
<1>7. CASE DrainEnds \/ TakeNext \/ PublishAcknowledged \/ PublishFails
  BY <1>5, <1>7 DEF DrainEnds, TakeNext, PublishAcknowledged, PublishFails, CallReturns,
                    caltopo
<1>8. CASE Crash \/ Restart \/ ClockTicks \/ UNCHANGED vars
  BY <1>5, <1>8 DEF Crash, Restart, ClockTicks, vars, caltopo
<1> QED
  BY <1>1, <1>2, <1>3, <1>4, <1>6, <1>7, <1>8 DEF Next

(***************************************************************************)
(* Worker, outbox and filter implement OrderedDelivery: each fix is sent   *)
(* at least once or superfluous, in order per node, and never after it is  *)
(* finished.                                                               *)
(***************************************************************************)
THEOREM Refinement == TextsSort => (Spec => KeepsPromise)
<1> SUFFICES ASSUME TextsSort PROVE Spec => KeepsPromise
  OBVIOUS
<1>1. Init => Promise!LogInit
  BY PromiseInit
<1>2. IInv /\ IInv' /\ [Next]_vars => [Promise!LogNext]_(Promise!logVars)
  BY PromiseStep
<1> QED
  BY <1>1, <1>2, Invariance, PTL DEF Spec, KeepsPromise, Promise!LogSpec
=============================================================================
