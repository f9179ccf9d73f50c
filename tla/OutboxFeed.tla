------------------------------ MODULE OutboxFeed ------------------------------
(***************************************************************************)
(* What intake and the delivery worker have agreed on: intake puts each    *)
(* fix into the outbox once and for good, one at a time, and wakes the     *)
(* worker after each, unless the process stops in between.  Ingest keeps   *)
(* to it, and what it allows Worker admits (IntakeAdmitted, a lemma of     *)
(* DeliveryProofs).                                                        *)
(***************************************************************************)
EXTENDS Integers, Sequences

VARIABLES queue,   \* the fixes put into the outbox, in order
          waking   \* whether the last one was put in and Wake is still to come

FeedInit == queue = <<>> /\ waking = FALSE

Put ==
  /\ ~ waking
  /\ waking' = TRUE
  /\ Len(queue') = Len(queue) + 1
  /\ SubSeq(queue', 1, Len(queue)) = queue
  /\ \A i \in DOMAIN queue : queue[i] # queue'[Len(queue')]

\* Worker.Wake, or the end of the process.
Woken ==
  /\ waking
  /\ waking' = FALSE
  /\ UNCHANGED queue

FeedNext == Put \/ Woken

FeedSpec == FeedInit /\ [][FeedNext]_<<queue, waking>>
=============================================================================
