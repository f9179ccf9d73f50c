----------------------------- MODULE Timestamps -----------------------------
(***************************************************************************)
(* The instants the bridge stores.  internal/store writes every time.Time  *)
(* as RFC 3339 text with formatTime (time.RFC3339Nano), and SQLite then    *)
(* compares the TEXT columns source_time and next_attempt_at byte by byte. *)
(* RFC3339Nano drops the trailing zeros of the fraction, and the whole     *)
(* fraction (with its dot) when it is zero, so the texts have different    *)
(* lengths and the order of the texts is not the order of the instants.    *)
(*                                                                         *)
(* An instant is a whole second and a fraction of Digits digits in base    *)
(* Base (Go: nine decimal digits).  The date and time of day have a fixed  *)
(* width in the text, so they sort as the number sec.                      *)
(***************************************************************************)
EXTENDS Integers

CONSTANTS Base,     \* the number of values of one fraction digit
          Digits    \* the number of digits of a fraction

ASSUME TimestampAssumption ==
  /\ Base \in Nat \ {0, 1}
  /\ Digits \in Nat \ {0}

Fractions == 0 .. (Base ^ Digits - 1)

Instants == [sec : Nat, frac : Fractions]

(***************************************************************************)
(* The order of the instants themselves: time.Time.Before.                 *)
(***************************************************************************)
Before(s, t) ==
  \/ s.sec < t.sec
  \/ s.sec = t.sec /\ s.frac < t.frac

NotAfter(s, t) == ~ Before(t, s)

\* time.Time.Add of a whole number of seconds.
Plus(t, seconds) == [t EXCEPT !.sec = @ + seconds]

(***************************************************************************)
(* The i-th character of the fraction of the stored text, as its rank in   *)
(* ASCII: a digit, or the closing 'Z' once only zeros remain.  'Z' sorts   *)
(* after every digit (and after the dot), hence the rank Base.             *)
(***************************************************************************)
Written(f, i) ==
  IF f % (Base ^ (Digits - i + 1)) = 0
  THEN Base
  ELSE (f \div (Base ^ (Digits - i))) % Base

FractionTextBefore(f, g) ==
  \E i \in 1 .. Digits :
    /\ Written(f, i) < Written(g, i)
    /\ \A j \in 1 .. (i - 1) : Written(f, j) = Written(g, j)

\* The comparison s < t SQLite makes on the texts of two instants.
TextBefore(s, t) ==
  \/ s.sec < t.sec
  \/ s.sec = t.sec /\ FractionTextBefore(s.frac, t.frac)
=============================================================================
