------------------------------- MODULE Outbox -------------------------------
(***************************************************************************)
(* The delivery outbox of internal/store: the rows of caltopo_deliveries,  *)
(* each joined with the tak_positions row it delivers, and the statements  *)
(* the bridge runs on them.  A statement is one SQLite transaction on the  *)
(* only connection (SetMaxOpenConns(1)), so it is one atomic operator here *)
(* and the table survives a crash of the process as it is.                 *)
(*                                                                         *)
(* The id of a row is its index: AUTOINCREMENT ids grow with every insert. *)
(* Positions archived while CalTopo was disabled have no delivery; the     *)
(* join never returns them and they are not rows here.                     *)
(***************************************************************************)
EXTENDS PositionFilter, FiniteSets

CONSTANTS BatchLimit,      \* LIMIT of the query of pending deliveries (50)
          ClockFractions,  \* the fractions of a second time.Now() returns
          MaxRows,         \* bound: the deliveries ever enqueued
          Horizon          \* bound: the last second of the wall clock

ASSUME OutboxAssumption ==
  /\ BatchLimit \in Nat \ {0}
  /\ ClockFractions \subseteq Fractions
  /\ 0 \in ClockFractions
  /\ MaxRows \in Nat
  /\ Horizon \in Nat

VARIABLES deliveries,  \* the table, as the sequence of its rows
          now          \* the wall clock, time.Now()

Clock == [sec : 0 .. Horizon, frac : ClockFractions]

Rows == [fix : Fixes, state : {"pending", "delivered", "failed"},
         attempts : Nat, next : Instants]

OutboxTypeOK ==
  /\ deliveries \in Seq(Rows)
  /\ now \in Clock

OutboxInit ==
  /\ deliveries = <<>>
  /\ now = [sec |-> 0, frac |-> 0]

Ids == 1 .. Len(deliveries)

Source(d)     == deliveries[d].fix.node
SourceTime(d) == deliveries[d].fix.time
Pending(d)    == deliveries[d].state = "pending"
Delivered(d)  == deliveries[d].state = "delivered"

-----------------------------------------------------------------------------
(* PendingDeliveries. *)

\* ORDER BY p.source_time, d.id -- on the stored texts.
Precedes(d, e) ==
  \/ TextBefore(SourceTime(d), SourceTime(e))
  \/ SourceTime(d) = SourceTime(e) /\ d < e

\* The NOT EXISTS subquery: an earlier pending delivery of the same node.
\* Faulty variant: only a delivery that is due itself holds others back, so
\* a delivery waiting for its retry is overtaken.
Blocked_ByDue(d) ==
  \E e \in Ids :
    /\ Pending(e)
    /\ ~ TextBefore(now, deliveries[e].next)
    /\ Source(e) = Source(d)
    /\ Precedes(e, d)

Blocked(d) ==
  \E e \in Ids : Pending(e) /\ Source(e) = Source(d) /\ Precedes(e, d)

\* d.next_attempt_at <= now -- on the stored texts.
\* Faulty variant: the retry time is not looked at.
Due_Always(d) == TRUE

Due(d) == ~ TextBefore(now, deliveries[d].next)

Eligible == {d \in Ids : Pending(d) /\ Due(d) /\ ~ Blocked(d)}

\* The first BatchLimit eligible deliveries.
IsPage(B) ==
  /\ B \subseteq Eligible
  /\ \A d \in B, e \in Eligible \ B : Precedes(d, e)
  /\ \/ B = Eligible
     \/ Cardinality(B) = BatchLimit
  /\ Cardinality(B) <= BatchLimit

-----------------------------------------------------------------------------
(* Archive, MarkDelivered, MarkFailed: what each writes into the table.    *)

\* The dedupe key is a hash of node, coordinates and source time: two fixes
\* have the same key exactly when they are equal.
Archived(fix) == \E d \in Ids : deliveries[d].fix = fix

Enqueue(fix) ==
  deliveries' = Append(deliveries, [fix |-> fix, state |-> "pending",
                                    attempts |-> 0, next |-> now])

MarkDelivered(d) ==
  /\ Pending(d)
  /\ deliveries' = [deliveries EXCEPT ![d].state = "delivered"]

MarkFailed(d, attempts, next, terminal) ==
  /\ Pending(d)
  /\ deliveries' = [deliveries EXCEPT
       ![d] = [@ EXCEPT !.state    = IF terminal THEN "failed" ELSE "pending",
                        !.attempts = attempts,
                        !.next     = next]]

\* Time passes.  Nothing in the program bounds the clock; Horizon does.
Tick ==
  \E t \in Clock : Before(now, t) /\ now' = t
=============================================================================
