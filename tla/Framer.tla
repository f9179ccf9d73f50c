-------------------------------- MODULE Framer --------------------------------
(***************************************************************************)
(* The framing of the radio's serial stream (meshtastic.Framer).  A frame  *)
(* is two start bytes, a length of two bytes and the payload; everything   *)
(* between frames is noise, and the length of a frame may be corrupt.      *)
(* Push appends what was read and takes frames off the buffer in a loop;   *)
(* each turn of the loop is a step.  A new connection has a new Framer.    *)
(*                                                                         *)
(* Bytes are numbers below Radix (Go: 256); the start bytes are ordinary   *)
(* bytes that also occur in lengths, payloads and noise.                   *)
(***************************************************************************)
EXTENDS Integers, Sequences

CONSTANTS
  Radix,      \* the number of values of a byte
  Start1,     \* frameStart1
  Start2,     \* frameStart2
  MaxFrame,   \* maxFrame
  MaxChunk,   \* the most bytes one read of the port returns
  MaxStream   \* bound: the bytes read over one connection

Bytes == 0 .. (Radix - 1)

ASSUME FramerAssumption ==
  /\ Radix \in Nat \ {0}
  /\ {Start1, Start2} \subseteq Bytes
  /\ Start1 # Start2
  /\ MaxFrame \in 1 .. (Radix * Radix - 1)
  /\ MaxChunk \in Nat \ {0}
  /\ MaxStream \in Nat

VARIABLES
  buffer,   \* Framer.buffer
  frames,   \* the payloads handed on, over the whole connection
  pushing,  \* whether Push is in its loop
  stream    \* history: the bytes read over the connection

vars == <<buffer, frames, pushing, stream>>

TypeOK ==
  /\ buffer \in Seq(Bytes)
  /\ frames \in Seq(Seq(Bytes))
  /\ \A i \in DOMAIN frames : Len(frames[i]) \in 1 .. MaxFrame
  /\ pushing \in BOOLEAN
  /\ stream \in Seq(Bytes)

Init ==
  /\ buffer = <<>> /\ frames = <<>>
  /\ pushing = FALSE /\ stream = <<>>

From(s, i) == SubSeq(s, i, Len(s))

IsStart(s, i) == i + 1 \in DOMAIN s /\ s[i] = Start1 /\ s[i + 1] = Start2

\* findStart
Starts(s) == {i \in DOMAIN s : IsStart(s, i)}

FirstStart(s) == CHOOSE i \in Starts(s) : \A j \in Starts(s) : i <= j

\* binary.BigEndian.Uint16 of the two bytes from i on.
\* Faulty variant: the bytes in the other order.
Uint16_LittleEndian(s, i) == s[i] + Radix * s[i + 1]

Uint16(s, i) == Radix * s[i] + s[i + 1]

ValidLength(size) == size # 0 /\ size <= MaxFrame

-----------------------------------------------------------------------------
(* Source.consume: read, and push what was read.                           *)

Chunks == UNION {[1 .. k -> Bytes] : k \in 1 .. MaxChunk}

Push(data) ==
  /\ ~ pushing
  /\ Len(stream) + Len(data) <= MaxStream
  /\ buffer' = buffer \o data
  /\ stream' = stream \o data
  /\ pushing' = TRUE
  /\ UNCHANGED frames

\* The connection is lost, or the process stops: consume begins again with a
\* new Framer.
Reconnect ==
  /\ buffer' = <<>> /\ frames' = <<>> /\ stream' = <<>>
  /\ pushing' = FALSE

-----------------------------------------------------------------------------
(* One turn of the loop of Push.                                           *)

\* No start in the buffer: only a first start byte at its end is kept.
\* Faulty variants: nothing is kept; everything is.
NoStart_Forgets ==
  /\ pushing
  /\ Starts(buffer) = {}
  /\ buffer' = <<>>
  /\ pushing' = FALSE
  /\ UNCHANGED <<frames, stream>>

NoStart_Keeps ==
  /\ pushing
  /\ Starts(buffer) = {}
  /\ pushing' = FALSE
  /\ UNCHANGED <<buffer, frames, stream>>

NoStart ==
  /\ pushing
  /\ Starts(buffer) = {}
  /\ buffer' = IF buffer # <<>> /\ buffer[Len(buffer)] = Start1
               THEN <<Start1>> ELSE <<>>
  /\ pushing' = FALSE
  /\ UNCHANGED <<frames, stream>>

\* The buffer from its first start on, which is never looked behind again.
Aligned == From(buffer, FirstStart(buffer))

\* The header, or the payload it announces, has not arrived in full.
Incomplete ==
  /\ pushing
  /\ Starts(buffer) # {}
  /\ Len(Aligned) >= 4 =>
       /\ ValidLength(Uint16(Aligned, 3))
       /\ Len(Aligned) < 4 + Uint16(Aligned, 3)
  /\ buffer' = Aligned
  /\ pushing' = FALSE
  /\ UNCHANGED <<frames, stream>>

\* A corrupt length: it is reported, and the search goes on behind the first
\* start byte.  Faulty variant: at it.
BadLength_Stays ==
  /\ pushing
  /\ Starts(buffer) # {}
  /\ Len(Aligned) >= 4
  /\ ~ ValidLength(Uint16(Aligned, 3))
  /\ buffer' = Aligned
  /\ UNCHANGED <<frames, pushing, stream>>

BadLength ==
  /\ pushing
  /\ Starts(buffer) # {}
  /\ Len(Aligned) >= 4
  /\ ~ ValidLength(Uint16(Aligned, 3))
  /\ buffer' = Tail(Aligned)
  /\ UNCHANGED <<frames, pushing, stream>>

TakeFrame ==
  /\ pushing
  /\ Starts(buffer) # {}
  /\ Len(Aligned) >= 4
  /\ LET size == Uint16(Aligned, 3)
     IN  /\ ValidLength(size)
         /\ Len(Aligned) >= 4 + size
         /\ frames' = Append(frames, SubSeq(Aligned, 5, 4 + size))
         /\ buffer' = From(Aligned, 5 + size)
  /\ UNCHANGED <<pushing, stream>>

-----------------------------------------------------------------------------
PushTurn == NoStart \/ Incomplete \/ BadLength \/ TakeFrame

Next ==
  \/ \E data \in Chunks : Push(data)
  \/ PushTurn
  \/ Reconnect

Spec == Init /\ [][Next]_vars

-----------------------------------------------------------------------------
(* Reference definitions: a stream read in one piece, by position.         *)

\* EncodeFrame
EncodeFrame(payload) ==
  <<Start1, Start2, Len(payload) \div Radix, Len(payload) % Radix>> \o payload

\* Some valid frame begins at i.
HasFrame(s, i) ==
  /\ IsStart(s, i)
  /\ i + 3 <= Len(s)
  /\ ValidLength(Uint16(s, i + 2))
  /\ i + 3 + Uint16(s, i + 2) <= Len(s)

\* A frame begins at i whose end is not there yet.
HasPart(s, i) ==
  /\ IsStart(s, i)
  /\ i + 3 <= Len(s) => ValidLength(Uint16(s, i + 2)) /\ ~ HasFrame(s, i)

\* The payloads found in s, from each of its positions on.
Found(s) ==
  LET found[i \in 1 .. (Len(s) + 1)] ==
        IF i > Len(s) \/ HasPart(s, i) THEN <<>>
        ELSE IF HasFrame(s, i)
        THEN LET size == Uint16(s, i + 2)
             IN  <<SubSeq(s, i + 4, i + 3 + size)>> \o found[i + 4 + size]
        ELSE found[i + 1]
  IN  found

Payloads(s) == Found(s)[1]

-----------------------------------------------------------------------------
(* Properties.                                                             *)

(***************************************************************************)
(* How the port cuts the stream into reads does not matter: Push finds the *)
(* frames that one look at the whole stream finds.                         *)
(***************************************************************************)
ChunksDoNotMatter == ~ pushing => frames = Payloads(stream)

(***************************************************************************)
(* Noise never accumulates: between reads the buffer holds less than one   *)
(* frame, whatever the radio sent.                                         *)
(***************************************************************************)
BufferBounded == ~ pushing => Len(buffer) < 4 + MaxFrame

(***************************************************************************)
(* A frame as EncodeFrame writes it is recovered behind any noise without  *)
(* a start, also when the noise ends in a first start byte.                *)
(***************************************************************************)
FrameRecovered ==
  ~ pushing /\ Starts(stream) # {} =>
    LET rest == From(stream, FirstStart(stream))
    IN  \A n \in 1 .. MaxFrame :
          4 + n <= Len(rest) =>
            LET payload == SubSeq(rest, 5, 4 + n)
            IN  SubSeq(rest, 1, 4 + n) = EncodeFrame(payload)
                  => frames # <<>> /\ frames[1] = payload
=============================================================================
