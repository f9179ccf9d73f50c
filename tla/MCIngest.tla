------------------------------- MODULE MCIngest -------------------------------
(***************************************************************************)
(* Instances of Ingest for TLC.                                            *)
(***************************************************************************)
EXTENDS Ingest

CONSTANTS n1, alpha, bravo

Second(s) == [sec |-> s, frac |-> 0]

Report(id, port, loc, time, sign) ==
  [node |-> n1, id |-> id, port |-> port, loc |-> loc, time |-> time, callsign |-> sign]

\* Positions with a time of their own, the later fix perhaps arriving first;
\* one without, which has the place of another report.
SomeReports ==
  {Report(1, "app", 0, Second(1), Fallback),
   Report(2, "app", 1, Second(0), Fallback),
   Report(3, "tak", 0, NoTime, alpha)}

NamedUsers ==
  {[short |-> Blank, long |-> Blank], [short |-> Blank, long |-> bravo]}

\* Everything on, or off; a restart may change it.
OnOrOff == [positionApp : {TRUE}, enqueue : {TRUE}] \cup [positionApp : {FALSE}, enqueue : {FALSE}]

WholeClock == {0}
=============================================================================
