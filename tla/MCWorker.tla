------------------------------ MODULE MCWorker ------------------------------
(***************************************************************************)
(* Instances of Worker for TLC.                                            *)
(***************************************************************************)
EXTENDS WorkerProperties, TLC

At(seconds, fractions) == [sec : seconds, frac : fractions]

\* Whole seconds: all the texts have the same form and sort as the instants.
TwoSeconds   == At({0, 1}, {0})
ThreeSeconds == At({0, 1, 2}, {0})

\* Times of reception, which have fractions of a second.
HalfSeconds  == At({0}, {0, 1})

Place(y, x) == [lat |-> y, lon |-> x]
Home == Place(0, 0)

\* Fixes of nodes that stay where they are.
StillFixes      == [node : Nodes, loc : {Home}, time : TwoSeconds]
HalfSecondFixes == [node : Nodes, loc : {Home}, time : HalfSeconds]

\* A node that is at one of two places.
TwoPlaces == [node : Nodes, loc : {Home, Place(5, 0)}, time : ThreeSeconds]

\* Four places such that, for a movement of 40 from Home, two are near and one
\* is far; yet the medians of the last three make a point that has moved, (30, 27).
FourPlaces ==
  UNION {[node : Nodes, loc : {Place(30, 0)}, time : At({0}, {0})],
         [node : Nodes, loc : {Home, Place(0, 27), Place(50, 50)}, time : At({1}, {0})]}

WholeClock == {0}
HalfClock  == {0, 1}

\* Nothing fails: no crash, no lost answer, no error of the store.
SmoothSpec == Init /\ [][Next /\ ~ Crash /\ ~ StoreFails /\ ~ PublishFails]_vars

\* Nodes are interchangeable: no definition names one.
NodeSymmetry == Permutations(Nodes)
=============================================================================
