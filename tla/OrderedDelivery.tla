--------------------------- MODULE OrderedDelivery ---------------------------
(***************************************************************************)
(* What the bridge promises of the fixes it archives, without queries,     *)
(* batches, retries, a filter or a process that can crash: fixes are sent  *)
(* to the map at least once, those of one node in order, unless an update  *)
(* that was sent makes one superfluous, and never again once finished.     *)
(***************************************************************************)
EXTENDS PositionFilter

VARIABLES log,   \* the archived fixes, in the order they were archived
          sent,  \* the indices of the fixes the map was ever updated with
          done   \* the indices of the fixes that are finished

logVars == <<log, sent, done>>

\* e was archived before d, and not because it came late.
Ahead(e, d) ==
  e < d /\ log[e].node = log[d].node /\ NotAfter(log[e].time, log[d].time)

Ready(d) ==
  /\ d \in DOMAIN log \ done
  /\ \A e \in DOMAIN log : Ahead(e, d) => e \in done

Superfluous(d) ==
  \E e \in sent :
    /\ log[e].node = log[d].node
    /\ Before(log[d].time, Plus(log[e].time, Heartbeat))

LogInit == log = <<>> /\ sent = {} /\ done = {}

Accept(fix) ==
  /\ \A d \in DOMAIN log : log[d] # fix
  /\ log' = Append(log, fix)
  /\ UNCHANGED <<sent, done>>

Send(d) ==
  /\ Ready(d)
  /\ sent' = sent \cup {d}
  /\ UNCHANGED <<log, done>>

Finish(d) ==
  /\ Ready(d)
  /\ d \in sent \/ Superfluous(d)
  /\ done' = done \cup {d}
  /\ UNCHANGED <<log, sent>>

LogNext ==
  \/ \E fix \in Fixes : Accept(fix)
  \/ \E d \in DOMAIN log : Send(d) \/ Finish(d)

LogSpec == LogInit /\ [][LogNext]_logVars
=============================================================================
