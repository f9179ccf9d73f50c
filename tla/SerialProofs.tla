----------------------------- MODULE SerialProofs -----------------------------
(***************************************************************************)
(* Proofs about Serial and its Framer, for bytes of any size, reads of any *)
(* size and any stream.                                                    *)
(***************************************************************************)
EXTENDS Serial, SequenceTheorems, WellFoundedInduction, TLAPS

-----------------------------------------------------------------------------
(* Facts about the operators.                                              *)

\* A least number with a property, for sets of numbers.
LEMMA Least ==
  ASSUME NEW S \in SUBSET Nat, S # {}
  PROVE  \E i \in S : \A j \in Nat : j < i => j \notin S
<1> DEFINE less == OpToRel(<, Nat)
<1>1. IsWellFoundedOn(less, Nat) /\ \A i, j \in Nat : j < i => <<j, i>> \in less
  BY NatLessThanWellFounded DEF OpToRel
<1> HIDE DEF less
<1>2. PICK i \in S : \A j \in S : ~ (<<j, i>> \in less)
  BY <1>1, WFMin
<1> QED
  BY <1>1, <1>2

\* A buffer that has a start has a first one.
LEMMA FirstStartIn ==
  ASSUME NEW s \in Seq(Bytes), Starts(s) # {}
  PROVE  /\ FirstStart(s) \in 1 .. Len(s)
         /\ FirstStart(s) \in Starts(s)
         /\ \A j \in Starts(s) : FirstStart(s) <= j
<1>1. Starts(s) \subseteq 1 .. Len(s)
  BY DEF Starts
<1>2. Starts(s) \in SUBSET Nat
  BY <1>1
<1>3. \E i \in Starts(s) : \A j \in Starts(s) : i <= j
  BY <1>2, Least
<1>4. FirstStart(s) \in Starts(s) /\ \A j \in Starts(s) : FirstStart(s) <= j
  BY <1>3 DEF FirstStart
<1> QED
  BY <1>1, <1>4

\* The rest of a buffer.
LEMMA FromType ==
  ASSUME NEW s \in Seq(Bytes), NEW i \in 1 .. Len(s) + 1
  PROVE  From(s, i) \in Seq(Bytes) /\ Len(From(s, i)) = Len(s) + 1 - i
<1>1. \A k \in i .. Len(s) : s[k] \in Bytes
  BY ElementOfSeq
<1> QED
  BY <1>1, SubSeqProperties DEF From

LEMMA AlignedType ==
  ASSUME buffer \in Seq(Bytes), Starts(buffer) # {}
  PROVE  Aligned \in Seq(Bytes) /\ Aligned # <<>>
<1>1. FirstStart(buffer) \in 1 .. Len(buffer)
  BY FirstStartIn
<1>2. FirstStart(buffer) \in 1 .. Len(buffer) + 1
  BY <1>1
<1> QED
  BY <1>1, <1>2, FromType, EmptySeq DEF Aligned

LEMMA Uint16Type ==
  ASSUME NEW s \in Seq(Bytes), Len(s) >= 4
  PROVE  Uint16(s, 3) \in Nat
<1>1. s[3] \in Bytes /\ s[4] \in Bytes
  BY ElementOfSeq
<1>2. Radix * s[3] \in Nat
  <2>1. PICK high, radix \in Nat : high = s[3] /\ radix = Radix
    BY <1>1, FramerAssumption DEF Bytes
  <2>2. radix * high \in Nat
    BY ONLY high \in Nat, radix \in Nat
  <2> QED
    BY <2>1, <2>2
<1> QED
  BY <1>1, <1>2 DEF Uint16, Bytes

-----------------------------------------------------------------------------
(* The framer.                                                             *)

\* The framer keeps its types, and its buffer its bound.
FramerInv == TypeOK /\ BufferBounded

LEMMA FramerInvInit == Init => FramerInv
<1> SUFFICES ASSUME Init PROVE FramerInv
  OBVIOUS
<1>1. <<>> \in Seq(Bytes) /\ <<>> \in Seq(Seq(Bytes)) /\ Len(<<>>) = 0 /\ DOMAIN <<>> = {}
  BY EmptySeq
<1>2. BufferBounded
  BY <1>1, FramerAssumption DEF Init, BufferBounded
<1> QED
  BY <1>1, <1>2 DEF Init, FramerInv, TypeOK

LEMMA TakeFrameType ==
  ASSUME TypeOK, TakeFrame
  PROVE  /\ buffer' \in Seq(Bytes)
         /\ frames' \in Seq(Seq(Bytes))
         /\ \A i \in DOMAIN frames' : Len(frames'[i]) \in 1 .. MaxFrame
<1> DEFINE size == Uint16(Aligned, 3)
           payload == SubSeq(Aligned, 5, 4 + size)
<1>1. Aligned \in Seq(Bytes)
  BY AlignedType DEF TypeOK, TakeFrame
<1>2. /\ size \in 1 .. MaxFrame /\ Len(Aligned) >= 4 + size
      /\ frames' = Append(frames, payload)
      /\ buffer' = From(Aligned, 5 + size)
  BY <1>1, Uint16Type DEF TakeFrame, ValidLength
<1>3. payload \in Seq(Bytes) /\ Len(payload) = size
  <2>1. \A i \in 5 .. 4 + size : Aligned[i] \in Bytes
    BY <1>1, <1>2, ElementOfSeq
  <2> QED
    BY <1>2, <2>1, SubSeqProperties
<1>4. 5 + size \in 1 .. Len(Aligned) + 1
  BY <1>1, <1>2
<1>5. buffer' \in Seq(Bytes)
  BY <1>1, <1>2, <1>4, FromType
<1> HIDE DEF payload, size
<1>6. /\ frames \in Seq(Seq(Bytes)) /\ DOMAIN frames = 1 .. Len(frames)
      /\ \A i \in 1 .. Len(frames) : Len(frames[i]) \in 1 .. MaxFrame
  BY DEF TypeOK
<1>7. /\ frames' \in Seq(Seq(Bytes)) /\ Len(frames') = Len(frames) + 1
      /\ frames'[Len(frames) + 1] = payload
      /\ \A i \in 1 .. Len(frames) : frames'[i] = frames[i]
  BY <1>2, <1>3, <1>6, AppendProperties
<1>8. \A i \in 1 .. Len(frames) + 1 : Len(frames'[i]) \in 1 .. MaxFrame
  BY <1>2, <1>3, <1>6, <1>7
<1> QED
  BY <1>5, <1>7, <1>8

\* Each turn of Push, each read and each reconnection keeps them.
LEMMA FramerInvStep == FramerInv /\ [Next]_vars => FramerInv'
<1> SUFFICES ASSUME TypeOK, BufferBounded, [Next]_vars PROVE TypeOK' /\ BufferBounded'
  BY DEF FramerInv
<1>1. ASSUME NEW data \in Chunks, Push(data) PROVE TypeOK' /\ BufferBounded'
  <2>1. data \in Seq(Bytes)
    BY FramerAssumption DEF Chunks
  <2>2. buffer \o data \in Seq(Bytes) /\ stream \o data \in Seq(Bytes)
    BY <2>1, ConcatProperties DEF TypeOK
  <2> QED
    BY <1>1, <2>2 DEF Push, TypeOK, BufferBounded
<1>2. CASE NoStart
  <2>1. <<>> \in Seq(Bytes) /\ Len(<<>>) < 4 + MaxFrame
    BY EmptySeq, FramerAssumption
  <2>2. <<Start1>> \in Seq(Bytes) /\ Len(<<Start1>>) < 4 + MaxFrame
    BY FramerAssumption
  <2>3. buffer' = <<>> \/ buffer' = <<Start1>>
    BY <1>2 DEF NoStart
  <2>4. buffer' \in Seq(Bytes) /\ Len(buffer') < 4 + MaxFrame
    <3>1. CASE buffer' = <<>>
      BY ONLY <2>1, <3>1, Zenon
    <3>2. CASE buffer' = <<Start1>>
      BY ONLY <2>2, <3>2, Zenon
    <3> QED
      BY <2>3, <3>1, <3>2
  <2>5. /\ UNCHANGED <<frames, stream>>
        /\ pushing' = FALSE
    BY <1>2 DEF NoStart
  <2> QED
    BY <2>4, <2>5 DEF TypeOK, BufferBounded
<1>3. CASE Incomplete
  <2>1. Aligned \in Seq(Bytes)
    BY <1>3, AlignedType DEF TypeOK, Incomplete
  <2>2. Len(Aligned) < 4 + MaxFrame
    <3>1. CASE Len(Aligned) >= 4
      BY <1>3, <2>1, <3>1, Uint16Type, FramerAssumption DEF Incomplete, ValidLength
    <3>2. CASE ~ (Len(Aligned) >= 4)
      BY <2>1, <3>2, FramerAssumption
    <3> QED
      BY <3>1, <3>2
  <2> QED
    BY <1>3, <2>1, <2>2 DEF Incomplete, TypeOK, BufferBounded
<1>4. CASE BadLength
  <2>1. Tail(Aligned) \in Seq(Bytes)
    BY <1>4, AlignedType, HeadTailProperties DEF TypeOK, BadLength
  <2> QED
    BY <1>4, <2>1 DEF BadLength, TypeOK, BufferBounded
<1>5. CASE TakeFrame
  BY <1>5, TakeFrameType DEF TakeFrame, TypeOK, BufferBounded
<1>6. CASE Reconnect
  <2>1. Init'
    BY <1>6 DEF Reconnect, Init
  <2>2. FramerInv'
    BY <2>1, FramerInvInit, PTL
  <2> QED
    BY <2>2 DEF FramerInv
<1>7. CASE UNCHANGED vars
  BY <1>7 DEF vars, TypeOK, BufferBounded
<1> QED
  BY <1>1, <1>2, <1>3, <1>4, <1>5, <1>6, <1>7 DEF Next, PushTurn

-----------------------------------------------------------------------------
(* The source.                                                             *)

LEMMA SourceStep == [SerialNext]_serialVars => [Next]_vars
<1> SUFFICES ASSUME [SerialNext]_serialVars PROVE [Next]_vars
  OBVIOUS
<1>1. CASE OpenFails \/ ConnectionLost \/ WriteRequest \/ PortFails
  BY <1>1 DEF OpenFails, ConnectionLost, WriteRequest, PortFails
<1>2. CASE OpenPort \/ Restart
  BY <1>2 DEF OpenPort, Restart, Next
<1>3. ASSUME NEW data \in Chunks, Read(data) PROVE Next
  BY <1>3 DEF Read, Next
<1>4. CASE PushLoop
  BY <1>4 DEF PushLoop, Next
<1>5. CASE Discard \/ HandOn \/ HandlerFails \/ TryAgain \/ ReadDone
  BY <1>5 DEF Discard, HandOn, HandlerFails, TryAgain, ReadDone, ConnectionLost
<1>6. CASE UNCHANGED serialVars
  BY <1>6 DEF serialVars
<1> QED
  BY <1>1, <1>2, <1>3, <1>4, <1>5, <1>6 DEF SerialNext

\* What the source does is what Framer allows, so that the invariants of Framer
\* hold of it.
LEMMA SourceIsFramer == SerialSpec => Spec
<1>1. SerialInit => Init
  BY DEF SerialInit
<1> QED
  BY <1>1, SourceStep, PTL DEF SerialSpec, Spec

LEMMA FramerInvHolds == SerialSpec => []FramerInv
<1>1. FramerInv /\ [Next]_vars => FramerInv'
  BY FramerInvStep
<1> QED
  BY <1>1, FramerInvInit, SourceIsFramer, PTL DEF Spec

\* The buffer never holds a whole frame or more between reads, so that noise
\* cannot fill the memory.
THEOREM BufferStaysBounded == SerialSpec => []BufferBounded
<1>1. FramerInv => BufferBounded
  BY DEF FramerInv
<1> QED
  BY <1>1, FramerInvHolds, PTL

\* Frames are only ever added to those of a connection.
LEMMA FramesGrow ==
  ASSUME TypeOK, PushTurn
  PROVE  Len(frames) <= Len(frames')
<1>1. Len(frames) \in Nat
  BY DEF TypeOK
<1>2. CASE NoStart \/ Incomplete \/ BadLength
  BY <1>1, <1>2 DEF NoStart, Incomplete, BadLength
<1>3. CASE TakeFrame
  BY <1>1, <1>3 DEF TakeFrame, TypeOK
<1> QED
  BY <1>2, <1>3 DEF PushTurn

LEMMA DoubledType ==
  ASSUME backoff \in 1 .. MaxBackoff
  PROVE  Doubled \in 1 .. MaxBackoff
  BY SerialAssumption DEF Doubled

\* The source keeps its types; in particular the wait before the port is opened
\* again its bound, and the frame in hand its place among those of the read.
THEOREM SourceTypeCorrect == SerialSpec => []SerialTypeOK
<1>0. <<>> \in Seq(Seq(Bytes)) /\ Len(<<>>) = 0
  BY EmptySeq
<1>1. SerialInit => SerialTypeOK
  <2> SUFFICES ASSUME SerialInit PROVE SerialTypeOK
    OBVIOUS
  <2>1. TypeOK
    BY FramerInvInit DEF SerialInit, FramerInv
  <2>2. handed \in Seq(Seq(Bytes)) /\ Len(frames) = 0 /\ pushing = FALSE
    BY <1>0 DEF SerialInit, Init
  <2>3. /\ 0 \in 0 .. Request /\ 1 \in 1 .. MaxBackoff
        /\ 1 \in 1 .. Len(frames) + 1
    BY <2>2, SerialAssumption
  <2> QED
    BY <2>1, <2>2, <2>3 DEF SerialInit, SerialTypeOK, Places
<1>2. FramerInv' /\ SerialTypeOK /\ [SerialNext]_serialVars => SerialTypeOK'
  <2> SUFFICES ASSUME TypeOK', SerialTypeOK, [SerialNext]_serialVars PROVE SerialTypeOK'
    BY DEF FramerInv
  <2> USE DEF SerialTypeOK, Places
  <2>0. Len(frames) \in Nat /\ TypeOK
    BY DEF TypeOK
  <2>1. CASE OpenFails
    BY <2>1, DoubledType DEF OpenFails, vars
  <2>2. CASE OpenPort \/ Restart
    <3>1. handed' \in Seq(Seq(Bytes)) /\ Len(frames') = 0 /\ pushing' = FALSE
      BY <1>0, <2>2 DEF OpenPort, Restart, Reconnect
    <3>2. /\ at' \in Places /\ written' = 0 /\ broken' = FALSE /\ next' = 1
          /\ backoff' = 1
      BY <2>2 DEF OpenPort, Restart
    <3>3. /\ 0 \in 0 .. Request /\ 1 \in 1 .. MaxBackoff
          /\ 1 \in 1 .. Len(frames') + 1
      BY <3>1, SerialAssumption
    <3> QED
      BY <3>1, <3>2, <3>3
  <2>3. CASE ConnectionLost /\ ~ pushing
    BY <2>3, DoubledType DEF ConnectionLost, vars
  <2>4. CASE WriteRequest
    BY <2>4 DEF WriteRequest, vars
  <2>5. CASE PortFails
    BY <2>3, <2>5 DEF PortFails
  <2>6. ASSUME NEW data \in Chunks, Read(data) PROVE SerialTypeOK'
    BY <2>6 DEF Read, Push
  <2>7. CASE PushLoop
    <3>1. Len(frames) <= Len(frames') /\ Len(frames') \in Nat
      BY <2>0, <2>7, FramesGrow DEF PushLoop, TypeOK
    <3>2. pushing /\ UNCHANGED source
      BY <2>7 DEF PushLoop, PushTurn, NoStart, Incomplete, BadLength, TakeFrame
    <3> QED
      BY <2>0, <3>1, <3>2 DEF source
  <2>8. ASSUME InHand
        PROVE  Current \in Seq(Bytes) /\ next + 1 \in 1 .. Len(frames) + 1
    <3>1. next \in 1 .. Len(frames)
      BY <2>0, <2>8 DEF InHand
    <3> QED
      BY <2>0, <3>1, ElementOfSeq DEF Current, TypeOK
  <2>9. CASE Discard
    BY <2>8, <2>9 DEF Discard, vars
  <2>10. CASE HandOn
    <3>1. handed' \in Seq(Seq(Bytes))
      BY <2>8, <2>10, AppendProperties DEF HandOn
    <3> QED
      BY <2>8, <2>10, <3>1 DEF HandOn, vars
  <2>11. CASE HandlerFails \/ TryAgain
    BY <2>11 DEF HandlerFails, TryAgain, InHand, vars
  <2>12. CASE ReadDone
    <3>1. CASE broken
      BY <2>3, <2>12, <3>1 DEF ReadDone
    <3>2. CASE ~ broken
      BY <2>12, <3>2 DEF ReadDone, vars
    <3> QED
      BY <3>1, <3>2
  <2>13. CASE UNCHANGED serialVars
    BY <2>13 DEF serialVars, source, vars
  <2> QED
    BY <2>1, <2>2, <2>4, <2>5, <2>6, <2>7, <2>9, <2>10, <2>11, <2>12, <2>13 DEF SerialNext
<1> QED
  BY <1>1, <1>2, FramerInvHolds, PTL DEF SerialSpec

-----------------------------------------------------------------------------
(* The end of a read: the part of ReadsAgain that speaks of single steps.  *)

\* A turn of Push that does not end its loop takes bytes from the buffer: a
\* corrupt length at least its first start byte, a frame at least its header.
LEMMA TurnShortens ==
  ASSUME TypeOK, PushTurn, pushing'
  PROVE  Len(buffer) \in Nat /\ Len(buffer') \in Nat /\ Len(buffer') < Len(buffer)
<1>1. buffer \in Seq(Bytes) /\ Len(buffer) \in Nat
  BY DEF TypeOK
<1>2. BadLength \/ TakeFrame
  BY DEF PushTurn, NoStart, Incomplete
<1>3. Starts(buffer) # {}
  BY <1>2 DEF BadLength, TakeFrame
<1>4. FirstStart(buffer) \in 1 .. Len(buffer) + 1
  BY <1>1, <1>3, FirstStartIn
<1>5. /\ Aligned \in Seq(Bytes) /\ Aligned # <<>>
      /\ Len(Aligned) \in Nat /\ Len(Aligned) <= Len(buffer)
  BY <1>1, <1>3, <1>4, AlignedType, FromType DEF Aligned
<1>6. CASE BadLength
  <2>1. Len(Tail(Aligned)) = Len(Aligned) - 1 /\ Len(Aligned) > 0
    BY <1>5, HeadTailProperties, EmptySeq
  <2> QED
    BY <1>1, <1>5, <1>6, <2>1 DEF BadLength
<1>7. CASE TakeFrame
  <2>1. PICK size \in Nat : /\ size = Uint16(Aligned, 3)
                            /\ Len(Aligned) >= 4 + size
                            /\ buffer' = From(Aligned, 5 + size)
    BY <1>5, <1>7, Uint16Type DEF TakeFrame
  <2>2. 5 + size \in 1 .. Len(Aligned) + 1
    BY <1>5, <2>1
  <2>3. Len(buffer') = Len(Aligned) + 1 - (5 + size)
    BY <1>5, <2>1, <2>2, FromType
  <2> QED
    BY <1>1, <1>5, <2>1, <2>3
<1> QED
  BY <1>2, <1>6, <1>7

\* The loop of Push ends, or has a shorter buffer; behind it, one frame less
\* of the read is in hand, and none is added.
NearerToTheEnd ==
  \/ pushing /\ ~ pushing'
  \/ pushing /\ pushing' /\ Len(buffer') < Len(buffer)
  \/ ~ pushing /\ ~ pushing' /\ frames' = frames /\ next' \in (next + 1) .. (Len(frames) + 1)

\* Whatever the radio sent, each step that consume makes with a read in hand,
\* the refusals of the Handler apart, brings it nearer to the next read: the
\* loop of Push cannot turn for ever, and no frame is gone through twice.
THEOREM ReadComesToItsEnd ==
  SerialSpec => [][PushLoop \/ Discard \/ HandOn => NearerToTheEnd]_serialVars
<1>1. ASSUME SerialTypeOK PROVE [PushLoop \/ Discard \/ HandOn => NearerToTheEnd]_serialVars
  <2> SUFFICES ASSUME PushLoop \/ Discard \/ HandOn PROVE NearerToTheEnd
    OBVIOUS
  <2>0. /\ TypeOK /\ Len(frames) \in Nat /\ next \in 1 .. Len(frames) + 1
        /\ pushing \in BOOLEAN
    BY <1>1 DEF SerialTypeOK, TypeOK
  <2>1. CASE PushLoop
    <3>1. pushing /\ PushTurn
      BY <2>1 DEF PushLoop, PushTurn, NoStart, Incomplete, BadLength, TakeFrame
    <3> QED
      BY <2>0, <3>1, TurnShortens DEF NearerToTheEnd
  <2>2. CASE Discard \/ HandOn
    <3>1. /\ ~ pushing /\ ~ pushing' /\ frames' = frames
          /\ next <= Len(frames) /\ next' = next + 1
      BY <2>2 DEF Discard, HandOn, InHand, vars
    <3> QED
      BY <2>0, <3>1 DEF NearerToTheEnd
  <2> QED
    BY <2>1, <2>2
<1> QED
  BY <1>1, SourceTypeCorrect, PTL
=============================================================================
