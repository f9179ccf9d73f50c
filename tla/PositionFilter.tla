--------------------------- MODULE PositionFilter ---------------------------
(***************************************************************************)
(* The pure part of internal/caltopo's positionFilter: given what the      *)
(* filter remembers of a node, decide whether the next fix of that node is *)
(* published, and as which position.                                       *)
(*                                                                         *)
(* A place is a point of a plane, with whole coordinates: the code takes   *)
(* the median of the latitudes and that of the longitudes, each by itself, *)
(* and compares the distance of two points with MovementMeters.  At the    *)
(* distances CALTOPO_MOVEMENT_METERS is about, the haversine is the        *)
(* distance in the plane; only its comparison with Movement is modelled.   *)
(***************************************************************************)
EXTENDS Timestamps, Sequences

CONSTANTS Nodes,      \* the mesh nodes that report positions
          Times,      \* the source times a fix may carry
          Fixes,      \* the fixes the nodes may report
          Movement,   \* CALTOPO_MOVEMENT_METERS
          Heartbeat,  \* CALTOPO_HEARTBEAT, in seconds
          None        \* the nil *model.Position

Points == [lat : Int, lon : Int]

\* A model.Position, as far as the delivery of positions depends on it: a fix
\* that a node reports, or what the filter makes of one.
Positions == [node : Nodes, loc : Points, time : Times]

ASSUME FilterAssumption ==
  /\ Times \subseteq Instants
  /\ Fixes \subseteq Positions
  /\ Movement \in Nat \ {0}
  /\ Heartbeat \in Nat \ {0}
  /\ None \notin Positions

\* A positionFilterState.
History == [samples : Seq(Fixes), last : Positions \cup {None}]

\* The state of a node the filter has not seen since the process started.
NoHistory == [samples |-> <<>>, last |-> None]

\* A filteredDelivery.
Decision == [position : Positions, publish : BOOLEAN]

LastThree(s) == IF Len(s) > 3 THEN SubSeq(s, Len(s) - 2, Len(s)) ELSE s

\* The middle one of three values in sorted order.
\* Faulty variant: that of the newest sample.
MedianCoordinate_Newest(values) == values[3]

MedianCoordinate(values) ==
  values[CHOOSE middle \in 1 .. 3 :
           \E low, high \in 1 .. 3 :
             /\ {low, middle, high} = 1 .. 3
             /\ values[low] <= values[middle]
             /\ values[middle] <= values[high]]

\* Each coordinate has its own middle sample: the point of the medians need
\* not be the place of any sample.
MedianPoint(samples) ==
  [lat |-> MedianCoordinate([i \in 1 .. 3 |-> samples[i].loc.lat]),
   lon |-> MedianCoordinate([i \in 1 .. 3 |-> samples[i].loc.lon])]

Square(x) == x * x

\* The square of the distance of two points.
DistanceSquared(a, b) == Square(a.lat - b.lat) + Square(a.lon - b.lon)

\* The samples of the node once fix is added to them.
Sampled(history, fix) == LastThree(Append(history.samples, fix))

\* What would be published: the fix, at the median of three samples.
Smoothed(samples, fix) ==
  IF Len(samples) = 3 THEN [fix EXCEPT !.loc = MedianPoint(samples)] ELSE fix

\* A stationary node is still published once Heartbeat has passed since the
\* source time of its last published position.
\* Faulty variant: strictly more than Heartbeat must have passed.
HeartbeatDue_Late(last, fix) == Before(Plus(last.time, Heartbeat), fix.time)

HeartbeatDue(last, fix) == NotAfter(Plus(last.time, Heartbeat), fix.time)

Decide(history, fix) ==
  LET samples  == Sampled(history, fix)
      position == Smoothed(samples, fix)
  IN  [position |-> position,
       publish  |-> \/ history.last = None
                    \/ HeartbeatDue(history.last, fix)
                    \/ /\ Len(samples) = 3
                       /\ DistanceSquared(history.last.loc, position.loc) >= Square(Movement)]

\* positionFilter.complete: what was published becomes the point of reference.
\* Faulty variants: a suppressed fix moves the reference too; the reference
\* is the raw fix (see Worker).
Completed_Always(history, decision) == [history EXCEPT !.last = decision.position]

Completed(history, decision) ==
  IF decision.publish
  THEN [history EXCEPT !.last = decision.position]
  ELSE history
=============================================================================
