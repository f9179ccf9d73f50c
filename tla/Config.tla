------------------------------- MODULE Config -------------------------------
(***************************************************************************)
(* The configuration of the bridge (config.Parse and Validate): what the   *)
(* environment and the command line make of each setting, and what the     *)
(* program refuses to start with.                                          *)
(*                                                                         *)
(* A text is told apart only as far as Validate does: "empty", "valid", or *)
(* "invalid" (a group with a hyphen, a map id of a wrong length).          *)
(***************************************************************************)
EXTENDS Integers

CONSTANTS
  Unset,      \* no such environment variable; no such flag
  Malformed,  \* a text that is not of the type of the setting
  NaN, Inf    \* the numbers that ParseFloat also accepts

ASSUME ConfigAssumption == {Unset, Malformed, NaN, Inf} \cap Int = {}

\* Durations are in seconds, distances in metres.
Default ==
  [serial_device |-> "empty", serial_baud |-> 115200, database |-> "valid",
   http_listen |-> "valid", debug |-> FALSE, decode_position_app |-> TRUE,
   caltopo |-> FALSE,
   endpoint |-> "hosted", map_id |-> "empty", credentials |-> "empty",
   group |-> "valid", timeout |-> 10, movement |-> 25, heartbeat |-> 300]

Settings == DOMAIN Default

\* envInt, envBool, envFloat, envDuration
Converted ==
  {"serial_baud", "caltopo", "timeout", "movement", "heartbeat", "debug",
   "decode_position_app"}

\* The settings that can also be given on the command line.
Flags ==
  {"serial_device", "serial_baud", "database", "http_listen", "debug", "caltopo",
   "endpoint", "map_id", "group", "movement", "heartbeat"}

Numeric == {"serial_baud", "timeout", "movement", "heartbeat"}

\* What may be given for a numeric setting, unless it is left out.
Given(s) ==
  IF s = "movement" THEN {Unset, Malformed, NaN, Inf} \cup Int ELSE {Unset, Malformed} \cup Int

\* A malformed variable is an error even when a flag overrides it, and so is
\* an argument that is not a flag.
Readable(env, line) ==
  /\ \A s \in Converted : env[s] # Malformed
  /\ \A s \in Flags : line.flags[s] # Malformed
  /\ ~ line.arguments

\* The flag, else the variable, else the default.
Configured(env, flags) ==
  [s \in Settings |->
     IF s \in Flags /\ flags[s] # Unset THEN flags[s]
     ELSE IF env[s] # Unset THEN env[s]
     ELSE Default[s]]

\* No comparison with NaN holds, so only the check by name refuses it.
\* Faulty variant: cfg.movement <= 0 is all that is checked.
MovementValid_Compared(cfg) == cfg.movement \in Int => cfg.movement > 0

MovementValid(cfg) ==
  /\ cfg.movement \notin {NaN, Inf}
  /\ cfg.movement > 0

CalTopoValid(cfg) ==
  /\ cfg.map_id = "valid"
  /\ cfg.group = "valid"
  /\ cfg.endpoint = "hosted" => cfg.credentials # "empty"
  /\ cfg.timeout > 0
  /\ MovementValid(cfg)
  /\ cfg.heartbeat > 0

Validate(cfg) ==
  /\ cfg.serial_device # "empty"
  /\ cfg.serial_baud > 0
  /\ cfg.database # "empty"
  /\ cfg.http_listen # "empty"
  /\ cfg.caltopo => CalTopoValid(cfg)
=============================================================================
