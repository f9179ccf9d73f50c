------------------------------- MODULE MCSerial -------------------------------
(***************************************************************************)
(* Instances of Serial for TLC: two byte values, both of them start bytes, *)
(* so that noise, lengths and payloads are full of false starts.           *)
(***************************************************************************)
EXTENDS Serial
=============================================================================
