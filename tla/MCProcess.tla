------------------------------ MODULE MCProcess ------------------------------
(***************************************************************************)
(* Instances of Process for TLC.                                           *)
(***************************************************************************)
EXTENDS Process, TLC

\* The settings of some, and all others unset.
Env(given)  == [s \in Settings |-> IF s \in DOMAIN given THEN given[s] ELSE Unset]
Line(given) == [s \in Flags |-> IF s \in DOMAIN given THEN given[s] ELSE Unset]

Nothing == [s \in {} |-> Unset]

\* The environment file of the service; without the device; with CalTopo on a
\* hosted endpoint, with and without credentials; and with what is refused.
Service  == [serial_device |-> "valid", map_id |-> "valid", credentials |-> "valid"]
Enabled  == [caltopo |-> TRUE]

SomeEnvironments ==
  {Env(Nothing), Env(Service), Env(Enabled @@ Service),
   Env([credentials |-> "empty"] @@ Enabled @@ Service),
   Env([timeout |-> 0] @@ Enabled @@ Service),
   Env([movement |-> NaN] @@ Enabled @@ Service), Env([debug |-> Malformed] @@ Service),
   Env([heartbeat |-> Malformed] @@ Service)}

SomeCommandLines ==
  {[print |-> FALSE, arguments |-> FALSE, flags |-> Line(f)] :
     f \in {Nothing, [caltopo |-> FALSE], Enabled, [group |-> "invalid"],
            [heartbeat |-> 0], [movement |-> Inf], [movement |-> 50],
            [endpoint |-> "own"], [serial_baud |-> Malformed]}}
   \cup {[print |-> TRUE, arguments |-> a, flags |-> Line(Nothing)] : a \in BOOLEAN}
   \cup {[print |-> FALSE, arguments |-> TRUE, flags |-> Line(Enabled)]}
=============================================================================
