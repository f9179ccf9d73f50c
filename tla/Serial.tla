-------------------------------- MODULE Serial --------------------------------
(***************************************************************************)
(* The serial source (Source.Run and consume): it opens the port, sends    *)
(* the request for the configuration, and then reads; each read is pushed  *)
(* through the Framer of this connection and every frame that decodes is   *)
(* handed to the Handler until that succeeds.  A lost connection, with or  *)
(* without a last read, leads back to the opening of the port.             *)
(*                                                                         *)
(* The turns of Push's loop are the actions of Framer; the Handler is      *)
(* Service.Handle, see Ingest.                                             *)
(***************************************************************************)
EXTENDS Framer

CONSTANTS
  Request,      \* the number of bytes of the configuration request
  MaxBackoff,   \* the longest wait before the port is opened again, in seconds
  Undecodable   \* a payload that begins with one of these is no FromRadio

ASSUME SerialAssumption ==
  /\ Request \in Nat \ {0}
  /\ MaxBackoff \in Nat \ {0}
  /\ Undecodable \subseteq Bytes

VARIABLES
  at,        \* where the source is (see Places)
  written,   \* how many bytes of the request the port has taken
  broken,    \* whether the last read returned an error, too
  next,      \* the index of the next frame to decode and hand on
  handed,    \* history: the messages the Handler accepted, over the connection
  backoff    \* the wait before the port is next opened, in seconds

source     == <<at, written, broken, next, handed, backoff>>
serialVars == <<vars, source>>

\* Opening the port, or waiting for it; writing the request; reading; in Push
\* or with its frames in hand; waiting for the Handler to be called again.
Places == {"open", "write", "read", "hand", "paused"}

SerialTypeOK ==
  /\ TypeOK
  /\ at \in Places
  /\ written \in 0 .. Request
  /\ broken \in BOOLEAN
  /\ next \in 1 .. Len(frames) + 1
  /\ handed \in Seq(Seq(Bytes))
  /\ backoff \in 1 .. MaxBackoff
  /\ pushing => at = "hand"

SerialInit ==
  /\ Init
  /\ at = "open" /\ written = 0 /\ broken = FALSE
  /\ next = 1 /\ handed = <<>> /\ backoff = 1

Decodes(payload) == payload[1] \notin Undecodable

\* min(2*backoff, 30 s).  Faulty variant: without the bound.
Doubled_Unbounded == 2 * backoff

Doubled == IF 2 * backoff < MaxBackoff THEN 2 * backoff ELSE MaxBackoff

-----------------------------------------------------------------------------
(* Run.                                                                    *)

OpenFails ==
  /\ at = "open"
  /\ backoff' = Doubled
  /\ UNCHANGED <<vars, at, written, broken, next, handed>>

\* Each connection has a Framer of its own.
OpenPort ==
  /\ at = "open"
  /\ at' = "write"
  /\ written' = 0 /\ broken' = FALSE /\ next' = 1 /\ handed' = <<>>
  /\ backoff' = 1
  /\ Reconnect

\* consume returned; the wait is the shortest one, the next twice as long.
ConnectionLost ==
  /\ at' = "open"
  /\ backoff' = Doubled
  /\ UNCHANGED <<vars, written, broken, next, handed>>

\* The context is cancelled or the process killed, and started again.
Restart ==
  /\ at # "open"
  /\ at' = "open"
  /\ written' = 0 /\ broken' = FALSE /\ next' = 1 /\ handed' = <<>>
  /\ backoff' = 1
  /\ Reconnect

-----------------------------------------------------------------------------
(* consume.                                                                *)

\* writeAll: the port may take only a part.
WriteRequest ==
  /\ at = "write"
  /\ written' \in (written + 1) .. Request
  /\ at' = IF written' = Request THEN "read" ELSE "write"
  /\ UNCHANGED <<vars, broken, next, handed, backoff>>

\* A write or a read without data fails.
PortFails ==
  /\ at \in {"write", "read"}
  /\ ConnectionLost

\* Read returns data, and perhaps an error with them.
\* Faulty variant: the error is looked at first.
Read_ErrorFirst(data) ==
  /\ at = "read"
  /\ \/ Push(data) /\ at' = "hand" /\ UNCHANGED backoff
     \/ /\ stream' = stream \o data /\ UNCHANGED <<buffer, frames, pushing>>
        /\ at' = "open" /\ backoff' = Doubled
  /\ UNCHANGED <<written, broken, next, handed>>

Read(data) ==
  /\ at = "read"
  /\ Push(data)
  /\ broken' \in BOOLEAN
  /\ at' = "hand"
  /\ UNCHANGED <<written, next, handed, backoff>>

PushLoop ==
  /\ PushTurn
  /\ UNCHANGED source

\* The next frame in hand, once Push has returned.
Current == frames[next]

InHand == at = "hand" /\ ~ pushing /\ next <= Len(frames)

Discard ==
  /\ InHand
  /\ ~ Decodes(Current)
  /\ next' = next + 1
  /\ UNCHANGED <<vars, at, written, broken, handed, backoff>>

HandOn ==
  /\ InHand
  /\ Decodes(Current)
  /\ handed' = Append(handed, Current)
  /\ next' = next + 1
  /\ UNCHANGED <<vars, at, written, broken, backoff>>

\* "Pausing intake without dropping packet".
HandlerFails ==
  /\ InHand
  /\ Decodes(Current)
  /\ at' = "paused"
  /\ UNCHANGED <<vars, written, broken, next, handed, backoff>>

TryAgain ==
  /\ at = "paused"
  /\ at' = "hand"
  /\ UNCHANGED <<vars, written, broken, next, handed, backoff>>

\* All frames of the read are dealt with; now for its error.
ReadDone ==
  /\ at = "hand" /\ ~ pushing
  /\ next = Len(frames) + 1
  /\ IF broken
     THEN ConnectionLost
     ELSE /\ at' = "read"
          /\ UNCHANGED <<vars, written, broken, next, handed, backoff>>

-----------------------------------------------------------------------------
SerialNext ==
  \/ OpenFails
  \/ OpenPort
  \/ Restart
  \/ WriteRequest
  \/ PortFails
  \/ \E data \in Chunks : Read(data)
  \/ PushLoop
  \/ Discard
  \/ HandOn
  \/ HandlerFails
  \/ TryAgain
  \/ ReadDone

SerialSpec == SerialInit /\ [][SerialNext]_serialVars

(***************************************************************************)
(* Fairness: the goroutine runs.  The Handler is only trusted not to fail  *)
(* for ever (strong fairness); nothing is assumed of the port.             *)
(***************************************************************************)
SerialFairness ==
  /\ WF_serialVars(PushLoop)
  /\ WF_serialVars(Discard)
  /\ WF_serialVars(TryAgain)
  /\ WF_serialVars(ReadDone)
  /\ SF_serialVars(HandOn)

SerialFairSpec == SerialSpec /\ SerialFairness

-----------------------------------------------------------------------------
(* Properties.                                                             *)

\* The messages among the first payloads of ps, for each number of them.
Decoded(ps) ==
  LET decoded[i \in 0 .. Len(ps)] ==
        IF i = 0 THEN <<>>
        ELSE IF Decodes(ps[i]) THEN Append(decoded[i - 1], ps[i])
        ELSE decoded[i - 1]
  IN  decoded

Messages(ps) == Decoded(ps)[Len(ps)]

(***************************************************************************)
(* Before the next read, and when the connection is lost, the Handler has  *)
(* accepted each message of the stream once and in order: none is dropped  *)
(* by a failing Handler or by the error of the read it came with, and none *)
(* is put together from the bytes of two connections.                      *)
(***************************************************************************)
EachMessageHandedOn ==
  at \in {"read", "open"} => handed = Messages(Payloads(stream))

(***************************************************************************)
(* The loop of Push ends for whatever the radio sends, and a read is dealt *)
(* with in the end, though the Handler fails again and again.              *)
(***************************************************************************)
ReadsAgain == (at \in {"hand", "paused"}) ~> (at \in {"read", "open"})
=============================================================================
