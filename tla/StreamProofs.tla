----------------------------- MODULE StreamProofs -----------------------------
(***************************************************************************)
(* Proofs that nothing of the stream is lost: Push, turn by turn and read  *)
(* by read, finds the frames that the whole stream contains, and Source    *)
(* hands each of its messages on, for any stream and any reads.            *)
(***************************************************************************)
EXTENDS SerialProofs

-----------------------------------------------------------------------------
(* The frames of a stream, by position.                                    *)

LEMMA LengthType ==
  ASSUME NEW s \in Seq(Bytes), NEW i \in 1 .. Len(s), i + 3 <= Len(s)
  PROVE  Uint16(s, i + 2) \in Nat
<1>1. s[i + 2] \in Bytes /\ s[(i + 2) + 1] \in Bytes
  <2>1. i + 2 \in 1 .. Len(s) /\ (i + 2) + 1 \in 1 .. Len(s)
    OBVIOUS
  <2> QED
    BY <2>1, ElementOfSeq
<1>2. Radix * s[i + 2] \in Nat
  <2>1. PICK high, radix \in Nat : high = s[i + 2] /\ radix = Radix
    BY <1>1, FramerAssumption DEF Bytes
  <2>2. radix * high \in Nat
    BY ONLY high \in Nat, radix \in Nat
  <2> QED
    BY <2>1, <2>2
<1> QED
  BY <1>1, <1>2 DEF Uint16, Bytes

\* The position behind the frame at i.
Behind(s, i) == i + 4 + Uint16(s, i + 2)

\* The payload of the frame at i.
PayloadAt(s, i) == SubSeq(s, i + 4, i + 3 + Uint16(s, i + 2))

LEMMA FrameBounds ==
  ASSUME NEW s \in Seq(Bytes), NEW i \in 1 .. Len(s) + 1, HasFrame(s, i)
  PROVE  /\ Behind(s, i) \in (i + 1) .. (Len(s) + 1)
         /\ PayloadAt(s, i) \in Seq(Bytes)
<1>1. i + 3 <= Len(s) /\ i + 3 + Uint16(s, i + 2) <= Len(s)
  BY DEF HasFrame
<1>2. Uint16(s, i + 2) \in Nat
  BY <1>1, LengthType
<1>3. \A k \in (i + 4) .. (i + 3 + Uint16(s, i + 2)) : s[k] \in Bytes
  BY <1>1, <1>2, ElementOfSeq
<1>4. PayloadAt(s, i) \in Seq(Bytes)
  BY <1>2, <1>3, SubSeqProperties DEF PayloadAt
<1> QED
  BY <1>1, <1>2, <1>4 DEF Behind

\* What Found says of a position, given what it says of the later ones.
FoundAt(s, found, i) ==
  IF i > Len(s) \/ HasPart(s, i) THEN <<>>
  ELSE IF HasFrame(s, i) THEN <<PayloadAt(s, i)>> \o found[Behind(s, i)]
  ELSE found[i + 1]

\* Found is well defined: from the end of the stream backwards.
LEMMA FoundExists ==
  ASSUME NEW s \in Seq(Bytes)
  PROVE  \E f : f = [i \in 1 .. (Len(s) + 1) |-> FoundAt(s, f, i)]
<1> DEFINE n == Len(s) + 1
           Positions(k) == (n - k) .. n
           Partly(k, f) == f = [i \in Positions(k) |-> FoundAt(s, f, i)]
           Bad == {k \in 0 .. (n - 1) : ~ \E f : Partly(k, f)}
<1>0. n \in Nat \ {0} /\ Len(s) \in Nat
  OBVIOUS
<1>1. Bad = {}
  <2> SUFFICES ASSUME Bad # {} PROVE FALSE
    OBVIOUS
  <2>1. PICK k \in Bad : \A j \in Nat : j < k => j \notin Bad
    <3>1. Bad \in SUBSET Nat
      BY <1>0
    <3> HIDE DEF Bad
    <3> QED
      BY <3>1, Least
  <2>2. k \in 0 .. (n - 1) /\ ~ \E f : Partly(k, f)
    OBVIOUS
  <2>3. k # 0
    <3> SUFFICES ASSUME k = 0 PROVE \E f : Partly(k, f)
      BY <2>2
    <3>1. Positions(k) = {n}
      BY <1>0
    <3> DEFINE f == [i \in {n} |-> <<>>]
    <3>2. \A i \in {n} : FoundAt(s, f, i) = <<>>
      BY <1>0 DEF FoundAt
    <3>3. f = [i \in {n} |-> FoundAt(s, f, i)]
      BY <3>2
    <3> QED
      BY <3>1, <3>3
  <2>4. PICK g : Partly(k - 1, g)
    <3>1. k - 1 \in Nat /\ k - 1 < k /\ k - 1 \in 0 .. (n - 1)
      BY <1>0, <2>2, <2>3
    <3> QED
      BY <2>1, <3>1
  <2> DEFINE f == [i \in Positions(k) |-> IF i = n - k THEN FoundAt(s, g, i) ELSE g[i]]
  <2>5. \A i \in Positions(k - 1) : i \in Positions(k) /\ f[i] = g[i]
    BY <1>0, <2>2
  <2>6. ASSUME NEW i \in Positions(k)
        PROVE  FoundAt(s, f, i) = FoundAt(s, g, i)
    <3>1. i \in 1 .. n
      BY <1>0, <2>2
    <3>2. CASE i > Len(s) \/ HasPart(s, i)
      BY <3>2 DEF FoundAt
    <3>3. CASE ~ (i > Len(s) \/ HasPart(s, i)) /\ HasFrame(s, i)
      <4>1. Behind(s, i) \in (i + 1) .. n
        BY <3>1, <3>3, FrameBounds
      <4>2. Behind(s, i) \in Positions(k - 1)
        BY <1>0, <2>2, <4>1
      <4> QED
        BY <2>5, <3>3, <4>2 DEF FoundAt
    <3>4. CASE ~ (i > Len(s) \/ HasPart(s, i)) /\ ~ HasFrame(s, i)
      <4>1. i + 1 \in Positions(k - 1)
        BY <1>0, <2>2, <3>1, <3>4
      <4> QED
        BY <2>5, <3>4, <4>1 DEF FoundAt
    <3> QED
      BY <3>2, <3>3, <3>4
  <2>7. \A i \in Positions(k) : f[i] = FoundAt(s, f, i)
    <3> SUFFICES ASSUME NEW i \in Positions(k) PROVE f[i] = FoundAt(s, g, i)
      BY <2>6
    <3>1. CASE i = n - k
      BY <3>1
    <3>2. CASE i # n - k
      <4>1. i \in Positions(k - 1)
        BY <1>0, <2>2, <3>2
      <4>2. g[i] = FoundAt(s, g, i)
        BY <2>4, <4>1
      <4> QED
        BY <2>5, <4>1, <4>2
    <3> QED
      BY <3>1, <3>2
  <2>8. Partly(k, f)
    <3>1. f = [i \in Positions(k) |-> f[i]]
      OBVIOUS
    <3> HIDE DEF f, Positions
    <3> QED
      BY <2>7, <3>1
  <2> QED
    BY <2>2, <2>8
<1>2. n - 1 \in 0 .. (n - 1) /\ Positions(n - 1) = 1 .. n
  BY <1>0
<1>3. \E f : Partly(n - 1, f)
  BY <1>1, <1>2
<1> QED
  BY <1>2, <1>3

LEMMA FoundDef ==
  ASSUME NEW s \in Seq(Bytes)
  PROVE  /\ Found(s) = [i \in 1 .. (Len(s) + 1) |-> FoundAt(s, Found(s), i)]
         /\ \A i \in 1 .. (Len(s) + 1) : Found(s)[i] = FoundAt(s, Found(s), i)
<1>1. Found(s) = CHOOSE f : f = [i \in 1 .. (Len(s) + 1) |-> FoundAt(s, f, i)]
  BY DEF Found, FoundAt, PayloadAt, Behind
<1>2. Found(s) = [i \in 1 .. (Len(s) + 1) |-> FoundAt(s, Found(s), i)]
  BY <1>1, FoundExists
<1> HIDE DEF Found
<1> QED
  BY <1>2

\* Found, read off a position.
LEMMA FoundCases ==
  ASSUME NEW s \in Seq(Bytes), NEW i \in 1 .. Len(s) + 1
  PROVE  /\ i = Len(s) + 1 \/ HasPart(s, i) => Found(s)[i] = <<>>
         /\ HasFrame(s, i) => Found(s)[i] = <<PayloadAt(s, i)>> \o Found(s)[Behind(s, i)]
         /\ i <= Len(s) /\ ~ HasPart(s, i) /\ ~ HasFrame(s, i) => Found(s)[i] = Found(s)[i + 1]
<1>1. Found(s)[i] = FoundAt(s, Found(s), i)
  BY FoundDef
<1>2. HasFrame(s, i) => ~ HasPart(s, i) /\ i <= Len(s)
  BY DEF HasFrame, HasPart
<1> QED
  BY <1>1, <1>2 DEF FoundAt

LEMMA FoundAtEnd ==
  ASSUME NEW s \in Seq(Bytes)
  PROVE  Found(s)[Len(s) + 1] = <<>>
<1>1. PICK i : i = Len(s) + 1
  OBVIOUS
<1>2. i \in 1 .. Len(s) + 1
  BY <1>1
<1>3. Found(s)[i] = <<>>
  BY <1>1, <1>2, FoundCases
<1> QED
  BY <1>1, <1>3

LEMMA FoundType ==
  ASSUME NEW s \in Seq(Bytes), NEW i \in 1 .. Len(s) + 1
  PROVE  Found(s)[i] \in Seq(Seq(Bytes))
<1> DEFINE n == Len(s) + 1
           Bad == {k \in 0 .. (n - 1) : Found(s)[n - k] \notin Seq(Seq(Bytes))}
<1>0. n \in Nat \ {0} /\ Len(s) \in Nat
  OBVIOUS
<1>1. Bad = {}
  <2> SUFFICES ASSUME Bad # {} PROVE FALSE
    OBVIOUS
  <2>1. PICK k \in Bad : \A j \in Nat : j < k => j \notin Bad
    <3>1. Bad \in SUBSET Nat
      BY <1>0
    <3> HIDE DEF Bad
    <3> QED
      BY <3>1, Least
  <2>2. PICK m : m = n - k
    OBVIOUS
  <2>3. m \in 1 .. n /\ Found(s)[m] \notin Seq(Seq(Bytes))
    BY <1>0, <2>2
  <2>4. \A j \in (m + 1) .. n : Found(s)[j] \in Seq(Seq(Bytes))
    <3> SUFFICES ASSUME NEW j \in (m + 1) .. n PROVE Found(s)[j] \in Seq(Seq(Bytes))
      OBVIOUS
    <3>1. n - j \in Nat /\ n - j < k /\ n - j \in 0 .. (n - 1) /\ n - (n - j) = j
      BY <1>0, <2>2, <2>3
    <3> QED
      BY <2>1, <3>1
  <2>5. CASE m = n \/ HasPart(s, m)
    BY <2>3, <2>5, FoundCases, EmptySeq
  <2>6. CASE HasFrame(s, m)
    <3>1. Behind(s, m) \in (m + 1) .. n /\ PayloadAt(s, m) \in Seq(Bytes)
      BY <2>3, <2>6, FrameBounds
    <3>2. <<PayloadAt(s, m)>> \in Seq(Seq(Bytes))
      BY <3>1
    <3>3. Found(s)[Behind(s, m)] \in Seq(Seq(Bytes))
      BY <2>4, <3>1
    <3> DEFINE first == <<PayloadAt(s, m)>>
               others == Found(s)[Behind(s, m)]
    <3>4. first \o others \in Seq(Seq(Bytes))
      <4>1. first \in Seq(Seq(Bytes)) /\ others \in Seq(Seq(Bytes))
        BY <3>2, <3>3
      <4> HIDE DEF first, others
      <4> QED
        BY <4>1, ConcatProperties
    <3>5. HasFrame(s, m) => Found(s)[m] = first \o others
      BY <2>3, FoundCases
    <3> HIDE DEF first, others
    <3> QED
      BY <2>3, <2>6, <3>4, <3>5
  <2>7. CASE ~ (m = n \/ HasPart(s, m)) /\ ~ HasFrame(s, m)
    <3>1. m <= Len(s) /\ m + 1 \in (m + 1) .. n
      BY <1>0, <2>3, <2>7
    <3> QED
      BY <2>3, <2>4, <2>7, <3>1, FoundCases
  <2> QED
    BY <2>5, <2>6, <2>7
<1>2. n - i \in 0 .. (n - 1) /\ n - (n - i) = i
  BY <1>0
<1> QED
  BY <1>1, <1>2

\* Noise contains no frame.
LEMMA SkipNoise ==
  ASSUME NEW s \in Seq(Bytes), NEW i \in 1 .. Len(s) + 1, NEW j \in i .. Len(s) + 1,
         \A k \in i .. (j - 1) : ~ IsStart(s, k)
  PROVE  Found(s)[i] = Found(s)[j]
<1> DEFINE Bad == {k \in 0 .. (j - i) : Found(s)[j - k] # Found(s)[j]}
<1>0. Len(s) \in Nat /\ i \in Nat /\ j \in Nat
  OBVIOUS
<1>1. Bad = {}
  <2> SUFFICES ASSUME Bad # {} PROVE FALSE
    OBVIOUS
  <2>1. PICK k \in Bad : \A l \in Nat : l < k => l \notin Bad
    <3>1. Bad \in SUBSET Nat
      BY <1>0
    <3> HIDE DEF Bad
    <3> QED
      BY <3>1, Least
  <2>2. PICK m : m = j - k
    OBVIOUS
  <2>3. m \in i .. (j - 1) /\ Found(s)[m] # Found(s)[j]
    <3>1. k # 0
      BY <1>0
    <3> QED
      BY <1>0, <2>2, <3>1
  <2>4. Found(s)[m + 1] = Found(s)[j]
    <3>1. k - 1 \in Nat /\ k - 1 < k /\ k - 1 \in 0 .. (j - i) /\ j - (k - 1) = m + 1
      BY <1>0, <2>2, <2>3
    <3> QED
      BY <2>1, <3>1
  <2>5. ~ HasPart(s, m) /\ ~ HasFrame(s, m) /\ m \in 1 .. Len(s) + 1 /\ m <= Len(s)
    BY <1>0, <2>3 DEF HasPart, HasFrame
  <2> QED
    BY <2>3, <2>4, <2>5, FoundCases
<1>2. PICK k : k = j - i
  OBVIOUS
<1>3. k \in 0 .. (j - i) /\ j - k = i
  BY <1>0, <1>2
<1>4. Found(s)[j - k] = Found(s)[j]
  BY <1>1, <1>3
<1> QED
  BY <1>3, <1>4

\* What more bytes do not change.
LEMMA Extended ==
  ASSUME NEW s \in Seq(Bytes), NEW rest \in Seq(Bytes)
  PROVE  /\ s \o rest \in Seq(Bytes)
         /\ Len(s \o rest) = Len(s) + Len(rest)
         /\ \A k \in 1 .. Len(s) : (s \o rest)[k] = s[k]
         /\ \A k \in 1 .. (Len(s) - 1) : IsStart(s \o rest, k) <=> IsStart(s, k)
<1>1. /\ s \o rest \in Seq(Bytes)
      /\ Len(s \o rest) = Len(s) + Len(rest)
      /\ \A k \in 1 .. Len(s) : (s \o rest)[k] = s[k]
  BY ConcatProperties
<1>2. \A k \in 1 .. (Len(s) - 1) :
        /\ k + 1 \in DOMAIN s /\ k + 1 \in DOMAIN (s \o rest)
        /\ (s \o rest)[k] = s[k] /\ (s \o rest)[k + 1] = s[k + 1]
  BY <1>1
<1> QED
  BY <1>1, <1>2 DEF IsStart

LEMMA ExtendedFrame ==
  ASSUME NEW s \in Seq(Bytes), NEW rest \in Seq(Bytes), NEW i \in 1 .. Len(s) + 1,
         HasFrame(s, i)
  PROVE  /\ HasFrame(s \o rest, i)
         /\ Behind(s \o rest, i) = Behind(s, i)
         /\ PayloadAt(s \o rest, i) = PayloadAt(s, i)
<1> DEFINE w == s \o rest
           size == Uint16(s, i + 2)
<1>1. /\ w \in Seq(Bytes) /\ Len(w) = Len(s) + Len(rest) /\ Len(rest) \in Nat
      /\ \A k \in 1 .. Len(s) : w[k] = s[k]
      /\ \A k \in 1 .. (Len(s) - 1) : IsStart(w, k) <=> IsStart(s, k)
  BY Extended
<1>2. i + 3 <= Len(s) /\ i + 3 + size <= Len(s) /\ IsStart(s, i) /\ ValidLength(size)
  BY DEF HasFrame
<1>3. size \in Nat
  BY <1>2, LengthType
<1>4. Uint16(w, i + 2) = size
  <2>1. i + 2 \in 1 .. Len(s) /\ (i + 2) + 1 \in 1 .. Len(s)
    BY <1>2
  <2> QED
    BY <1>1, <2>1 DEF Uint16
<1> HIDE DEF w
<1>5. IsStart(w, i)
  BY <1>1, <1>2
<1>6. i + 3 <= Len(w) /\ i + 3 + size <= Len(w)
  BY <1>1, <1>2, <1>3
<1>7. HasFrame(w, i) /\ Behind(w, i) = Behind(s, i)
  BY <1>2, <1>4, <1>5, <1>6 DEF HasFrame, Behind
<1>8. PayloadAt(w, i) = PayloadAt(s, i)
  <2>1. /\ PayloadAt(s, i) = SubSeq(s, i + 4, i + 3 + size)
        /\ PayloadAt(w, i) = SubSeq(w, i + 4, i + 3 + size)
    BY <1>4 DEF PayloadAt
  <2>2. \A k \in (i + 4) .. (i + 3 + size) : s[k] \in Bytes /\ w[k] = s[k]
    BY <1>1, <1>2, <1>3, ElementOfSeq
  <2> HIDE DEF size
  <2>3. /\ SubSeq(s, i + 4, i + 3 + size) = [k \in 1 .. size |-> s[i + 3 + k]]
        /\ SubSeq(w, i + 4, i + 3 + size) = [k \in 1 .. size |-> w[i + 3 + k]]
    BY <1>3, SMTT(30)
  <2>4. \A k \in 1 .. size : w[i + 3 + k] = s[i + 3 + k]
    BY <1>3, <2>2
  <2> QED
    BY <2>1, <2>3, <2>4
<1> QED
  BY <1>7, <1>8 DEF w

-----------------------------------------------------------------------------
(* The framer.                                                             *)

\* Where the buffer begins in the stream.
Position == Len(stream) + 1 - Len(buffer)

\* The buffer is the end of the stream.
InStream ==
  /\ Len(buffer) <= Len(stream)
  /\ \A k \in 1 .. Len(buffer) : buffer[k] = stream[Position - 1 + k]

\* Whatever comes behind the stream, the frames taken so far and those from the
\* buffer on are the frames of the whole.
NothingLost ==
  \A rest \in Seq(Bytes) :
    Found(stream \o rest)[1] = frames \o Found(stream \o rest)[Position]

\* Between reads no frame is left in the buffer.
NothingLeft == ~ pushing => Found(stream)[Position] = <<>>

StreamInv == TypeOK /\ InStream /\ NothingLost /\ NothingLeft

\* The first start of the buffer, in the stream.
StartPosition == Position + FirstStart(buffer) - 1

LEMMA AlignedAt ==
  ASSUME TypeOK, InStream, Starts(buffer) # {}
  PROVE  /\ Position \in 1 .. Len(stream)
         /\ StartPosition \in Position .. (Len(stream) - 1)
         /\ IsStart(stream, StartPosition)
         /\ \A k \in Position .. (StartPosition - 1) : ~ IsStart(stream, k)
         /\ Aligned \in Seq(Bytes)
         /\ Len(Aligned) = Len(stream) + 1 - StartPosition
         /\ \A k \in 1 .. Len(Aligned) : Aligned[k] = stream[StartPosition - 1 + k]
<1> DEFINE first == FirstStart(buffer)
<1>1. /\ buffer \in Seq(Bytes) /\ stream \in Seq(Bytes)
      /\ Len(buffer) \in Nat /\ Len(stream) \in Nat /\ Len(buffer) <= Len(stream)
      /\ \A k \in 1 .. Len(buffer) : buffer[k] = stream[Position - 1 + k]
  BY DEF TypeOK, InStream
<1>2. /\ first \in 1 .. Len(buffer) /\ first + 1 \in 1 .. Len(buffer)
      /\ \A j \in Starts(buffer) : first <= j
      /\ IsStart(buffer, first)
  <2>1. first \in 1 .. Len(buffer) /\ first \in Starts(buffer)
        /\ \A j \in Starts(buffer) : first <= j
    BY <1>1, FirstStartIn
  <2> HIDE DEF first
  <2> QED
    BY <1>1, <2>1 DEF Starts, IsStart
<1>3. /\ Position \in 1 .. Len(stream)
      /\ StartPosition \in Position .. (Len(stream) - 1)
      /\ StartPosition = Position - 1 + first
  BY <1>1, <1>2 DEF Position, StartPosition
<1>4. \A k \in 1 .. (Len(buffer) - 1) : IsStart(stream, Position - 1 + k) <=> IsStart(buffer, k)
  <2> SUFFICES ASSUME NEW k \in 1 .. (Len(buffer) - 1)
               PROVE  IsStart(stream, Position - 1 + k) <=> IsStart(buffer, k)
    OBVIOUS
  <2>1. /\ k \in 1 .. Len(buffer) /\ k + 1 \in 1 .. Len(buffer)
        /\ Position - 1 + k \in 1 .. Len(stream)
        /\ Position - 1 + (k + 1) \in 1 .. Len(stream)
        /\ (Position - 1 + k) + 1 = Position - 1 + (k + 1)
    BY <1>1, <1>3 DEF Position
  <2>2. buffer[k] = stream[Position - 1 + k] /\ buffer[k + 1] = stream[(Position - 1 + k) + 1]
    BY <1>1, <2>1
  <2> QED
    BY <1>1, <2>1, <2>2 DEF IsStart
<1>5. IsStart(stream, StartPosition)
  BY <1>1, <1>2, <1>3, <1>4
<1>6. ASSUME NEW k \in Position .. (StartPosition - 1) PROVE ~ IsStart(stream, k)
  <2>1. PICK j : j = k - Position + 1
    OBVIOUS
  <2>2. j \in 1 .. (Len(buffer) - 1) /\ j < first /\ k = Position - 1 + j
    BY <1>1, <1>2, <1>3, <2>1
  <2>3. j \notin Starts(buffer)
    BY <1>2, <1>3, <2>2
  <2>4. ~ IsStart(buffer, j)
    BY <1>1, <2>2, <2>3 DEF Starts
  <2> QED
    BY <1>4, <2>2, <2>4
<1>7. /\ Aligned \in Seq(Bytes)
      /\ Len(Aligned) = Len(stream) + 1 - StartPosition
      /\ \A k \in 1 .. Len(Aligned) : Aligned[k] = stream[StartPosition - 1 + k]
  <2>1. \A k \in first .. Len(buffer) : buffer[k] \in Bytes
    BY <1>1, <1>2, ElementOfSeq
  <2>2. Aligned = SubSeq(buffer, first, Len(buffer))
    BY DEF Aligned, From
  <2> HIDE DEF first
  <2>3. /\ Aligned \in Seq(Bytes)
        /\ Len(Aligned) = Len(buffer) - first + 1
        /\ \A k \in 1 .. (Len(buffer) - first + 1) : Aligned[k] = buffer[first + k - 1]
    BY <1>1, <1>2, <2>1, <2>2, SubSeqProperties
  <2>4. Len(Aligned) = Len(stream) + 1 - StartPosition
    BY <1>1, <1>2, <1>3, <2>3 DEF Position
  <2>5. ASSUME NEW k \in 1 .. Len(Aligned)
        PROVE  Aligned[k] = stream[StartPosition - 1 + k]
    <3>1. PICK j : j = first + k - 1
      OBVIOUS
    <3>2. j \in 1 .. Len(buffer) /\ Position - 1 + j = StartPosition - 1 + k
      BY <1>1, <1>2, <1>3, <2>3, <3>1
    <3> QED
      BY <1>1, <2>3, <3>1, <3>2
  <2> QED
    BY <2>3, <2>4, <2>5
<1> QED
  BY <1>3, <1>5, <1>6, <1>7

\* Concatenation, as a name that the provers do not look behind.
Joined(s, t) == s \o t

LEMMA JoinedAssociates ==
  ASSUME NEW S, NEW s \in Seq(S), NEW t \in Seq(S), NEW u \in Seq(S)
  PROVE  Joined(s, Joined(t, u)) = Joined(Joined(s, t), u)
  BY DEF Joined

\* When the buffer moves on over noise or over one frame, nothing is lost.
LEMMA MovedOn ==
  ASSUME TypeOK, NothingLost, NEW added \in Seq(Seq(Bytes)),
         stream' = stream, frames' = frames \o added,
         Position \in 1 .. Len(stream) + 1, Position' \in 1 .. Len(stream) + 1,
         \A rest \in Seq(Bytes) :
           Found(stream \o rest)[Position] = added \o Found(stream \o rest)[Position']
  PROVE  NothingLost'
<1> SUFFICES ASSUME NEW rest \in Seq(Bytes)
             PROVE  Found(stream \o rest)[1] = frames' \o Found(stream \o rest)[Position']
  BY DEF NothingLost
<1>1. Found(stream \o rest)[Position'] \in Seq(Seq(Bytes))
  <2>1. /\ stream \o rest \in Seq(Bytes)
        /\ Len(stream \o rest) = Len(stream) + Len(rest)
    BY Extended DEF TypeOK
  <2>2. Position' \in 1 .. Len(stream \o rest) + 1
    BY <2>1 DEF TypeOK
  <2> QED
    BY <2>1, <2>2, FoundType
<1>2. PICK taken, others \in Seq(Seq(Bytes)) :
        taken = frames /\ others = Found(stream \o rest)[Position']
  BY <1>1 DEF TypeOK
<1>3. Found(stream \o rest)[1] = taken \o (added \o others)
  BY <1>2 DEF NothingLost
<1>4. Joined(taken, Joined(added, others)) = Joined(Joined(taken, added), others)
  BY JoinedAssociates
<1>5. taken \o (added \o others) = (taken \o added) \o others
  BY ONLY <1>4 DEF Joined
<1> QED
  BY <1>2, <1>3, <1>5

LEMMA SkippedNoise ==
  ASSUME TypeOK, NothingLost, stream' = stream, frames' = frames,
         Position \in 1 .. Len(stream) + 1, Position' \in Position .. Len(stream) + 1,
         \A k \in Position .. (Position' - 1) :
           \/ k < Len(stream) /\ ~ IsStart(stream, k)
           \/ k = Len(stream) /\ stream[k] # Start1
  PROVE  NothingLost'
<1> SUFFICES ASSUME NEW rest \in Seq(Bytes)
             PROVE  Found(stream \o rest)[Position] = Found(stream \o rest)[Position']
  BY DEF NothingLost
<1>1. PICK w : w = stream \o rest
  OBVIOUS
<1>2. /\ w \in Seq(Bytes) /\ Len(w) >= Len(stream) /\ Len(w) \in Nat /\ Len(stream) \in Nat
      /\ \A k \in 1 .. Len(stream) : w[k] = stream[k]
      /\ \A k \in 1 .. (Len(stream) - 1) : IsStart(w, k) <=> IsStart(stream, k)
  BY <1>1, Extended DEF TypeOK
<1>3. PICK i, j : i = Position /\ j = Position'
  OBVIOUS
<1>4. i \in 1 .. Len(w) + 1 /\ j \in i .. Len(w) + 1 /\ i \in 1 .. Len(stream) + 1
      /\ j \in i .. Len(stream) + 1
  BY <1>2, <1>3
<1>5. ASSUME NEW k \in i .. (j - 1) PROVE ~ IsStart(w, k)
  <2>1. k \in 1 .. Len(stream)
    BY <1>2, <1>4
  <2>2. CASE k < Len(stream) /\ ~ IsStart(stream, k)
    BY <1>2, <2>1, <2>2
  <2>3. CASE k = Len(stream) /\ stream[k] # Start1
    BY <1>2, <2>1, <2>3 DEF IsStart
  <2> QED
    BY <1>3, <2>2, <2>3
<1>6. Found(w)[i] = Found(w)[j]
  BY <1>2, <1>4, <1>5, SkipNoise
<1> QED
  BY <1>1, <1>3, <1>6

LEMMA PushStep ==
  ASSUME StreamInv, NEW data \in Seq(Bytes), Push(data)
  PROVE  (InStream /\ NothingLost /\ NothingLeft)'
<1>1. /\ buffer \in Seq(Bytes) /\ stream \in Seq(Bytes)
      /\ Len(buffer) \in Nat /\ Len(stream) \in Nat /\ Len(buffer) <= Len(stream)
      /\ \A k \in 1 .. Len(buffer) : buffer[k] = stream[Position - 1 + k]
  BY DEF StreamInv, TypeOK, InStream
<1>2. /\ buffer' = buffer \o data /\ stream' = stream \o data /\ pushing'
      /\ UNCHANGED frames
  BY DEF Push
<1>3. /\ Len(buffer') = Len(buffer) + Len(data) /\ Len(stream') = Len(stream) + Len(data)
      /\ Len(data) \in Nat
      /\ \A k \in 1 .. Len(buffer') :
           buffer'[k] = IF k <= Len(buffer) THEN buffer[k] ELSE data[k - Len(buffer)]
      /\ \A k \in 1 .. Len(stream') :
           stream'[k] = IF k <= Len(stream) THEN stream[k] ELSE data[k - Len(stream)]
  BY <1>1, <1>2, ConcatProperties
<1>4. Position' = Position /\ Position \in 1 .. Len(stream) + 1
  BY <1>1, <1>3 DEF Position
<1>5. InStream'
  <2>1. ASSUME NEW k \in 1 .. Len(buffer')
        PROVE  buffer'[k] = stream'[Position - 1 + k]
    <3>1. PICK j : j = Position - 1 + k
      OBVIOUS
    <3>2. /\ j \in 1 .. Len(stream')
          /\ j - Len(stream) = k - Len(buffer)
          /\ k <= Len(buffer) <=> j <= Len(stream)
      BY <1>1, <1>3, <3>1 DEF Position
    <3>3. CASE k <= Len(buffer)
      BY <1>1, <1>3, <3>1, <3>2, <3>3
    <3>4. CASE ~ (k <= Len(buffer))
      BY <1>3, <3>1, <3>2, <3>4
    <3> QED
      BY <3>3, <3>4
  <2> QED
    BY <1>1, <1>3, <1>4, <2>1 DEF InStream
<1>6. NothingLost'
  <2> SUFFICES ASSUME NEW rest \in Seq(Bytes)
               PROVE  Found(stream' \o rest)[1] = frames \o Found(stream' \o rest)[Position]
    BY <1>2, <1>4 DEF NothingLost
  <2>1. stream' \o rest = stream \o (data \o rest)
    <3>1. Joined(stream, Joined(data, rest)) = Joined(Joined(stream, data), rest)
      BY <1>1, JoinedAssociates
    <3> QED
      BY <1>2, <3>1 DEF Joined
  <2>2. data \o rest \in Seq(Bytes)
    BY ConcatProperties
  <2> QED
    BY <2>1, <2>2 DEF StreamInv, NothingLost
<1> QED
  BY <1>2, <1>5, <1>6 DEF NothingLeft

LEMMA NoStartStep ==
  ASSUME StreamInv, NoStart
  PROVE  (InStream /\ NothingLost /\ NothingLeft)'
<1>1. /\ TypeOK /\ NothingLost
      /\ buffer \in Seq(Bytes) /\ stream \in Seq(Bytes)
      /\ Len(buffer) \in Nat /\ Len(stream) \in Nat /\ Len(buffer) <= Len(stream)
      /\ \A k \in 1 .. Len(buffer) : buffer[k] = stream[Position - 1 + k]
  BY DEF StreamInv, TypeOK, InStream
<1>2. /\ Starts(buffer) = {} /\ UNCHANGED <<frames, stream>>
      /\ buffer' = IF buffer # <<>> /\ buffer[Len(buffer)] = Start1 THEN <<Start1>> ELSE <<>>
  BY DEF NoStart
<1>3. Position \in 1 .. Len(stream) + 1
  BY <1>1 DEF Position
<1>4. ASSUME NEW k \in Position .. (Len(stream) - 1) PROVE ~ IsStart(stream, k)
  <2>1. PICK j : j = k - Position + 1
    OBVIOUS
  <2>2. /\ j \in 1 .. Len(buffer) /\ j + 1 \in 1 .. Len(buffer)
        /\ k = Position - 1 + j /\ k + 1 = Position - 1 + (j + 1)
    BY <1>1, <1>3, <2>1 DEF Position
  <2>3. ~ IsStart(buffer, j)
    BY <1>1, <1>2, <2>2 DEF Starts
  <2>4. buffer[j] = stream[k] /\ buffer[j + 1] = stream[k + 1]
    BY <1>1, <2>2
  <2> QED
    BY <1>1, <2>2, <2>3, <2>4 DEF IsStart
<1>5. CASE buffer # <<>> /\ buffer[Len(buffer)] = Start1
  <2>1. Len(buffer) \in 1 .. Len(buffer) /\ buffer' = <<Start1>>
    BY <1>1, <1>2, <1>5, EmptySeq
  <2>2. stream[Len(stream)] = Start1
    <3>1. Position - 1 + Len(buffer) = Len(stream)
      BY <1>1 DEF Position
    <3> QED
      BY <1>1, <1>5, <2>1, <3>1
  <2>3. /\ Len(buffer') = 1 /\ buffer'[1] = Start1
        /\ Position' = Len(stream) /\ stream' = stream
        /\ Position' \in Position .. Len(stream)
    <3>1. Len(buffer') = 1 /\ buffer'[1] = Start1
      BY <2>1
    <3> QED
      BY <1>1, <1>2, <2>1, <3>1 DEF Position
  <2>4. InStream'
    <3>1. \A k \in 1 .. Len(buffer') : k = 1 /\ Position' - 1 + k = Len(stream)
      BY <1>1, <2>3
    <3> QED
      BY <1>1, <2>1, <2>2, <2>3, <3>1 DEF InStream
  <2>5. NothingLost'
    <3>1. \A k \in Position .. (Position' - 1) : k < Len(stream) /\ ~ IsStart(stream, k)
      BY <1>1, <1>3, <1>4, <2>3
    <3> QED
      BY <1>1, <1>2, <1>3, <2>3, <3>1, SkippedNoise
  <2>6. Found(stream)[Len(stream)] = <<>>
    <3>1. PICK i : i = Len(stream)
      OBVIOUS
    <3>2. i \in 1 .. Len(stream) + 1 /\ i <= Len(stream)
      BY <1>1, <2>1, <3>1
    <3>3. ~ IsStart(stream, i)
      BY <1>1, <3>1 DEF IsStart
    <3>4. ~ HasFrame(stream, i) /\ ~ HasPart(stream, i)
      BY <3>3 DEF HasFrame, HasPart
    <3>5. Found(stream)[i] = Found(stream)[i + 1]
      BY <1>1, <3>2, <3>4, FoundCases
    <3> QED
      BY <1>1, <3>1, <3>5, FoundAtEnd
  <2> QED
    BY <2>3, <2>4, <2>5, <2>6 DEF NothingLeft
<1>6. CASE ~ (buffer # <<>> /\ buffer[Len(buffer)] = Start1)
  <2>1. /\ Len(buffer') = 0 /\ stream' = stream /\ Position' = Len(stream) + 1
        /\ Position' \in Position .. Len(stream) + 1
    BY <1>1, <1>2, <1>3, <1>6, EmptySeq DEF Position
  <2>2. InStream'
    BY <1>1, <2>1 DEF InStream
  <2>3. NothingLost'
    <3>1. ASSUME NEW k \in Position .. (Position' - 1)
          PROVE  \/ k < Len(stream) /\ ~ IsStart(stream, k)
                 \/ k = Len(stream) /\ stream[k] # Start1
      <4>1. CASE k < Len(stream)
        BY <1>1, <1>3, <1>4, <2>1, <4>1
      <4>2. CASE ~ (k < Len(stream))
        <5>1. k = Len(stream) /\ Len(buffer) \in 1 .. Len(buffer)
              /\ Position - 1 + Len(buffer) = Len(stream)
          BY <1>1, <1>3, <2>1, <4>2 DEF Position
        <5>2. buffer # <<>>
          BY <5>1, EmptySeq
        <5> QED
          BY <1>1, <1>6, <5>1, <5>2
      <4> QED
        BY <4>1, <4>2
    <3> QED
      BY <1>1, <1>2, <1>3, <2>1, <3>1, SkippedNoise
  <2>4. Found(stream)[Len(stream) + 1] = <<>>
    BY <1>1, FoundAtEnd
  <2> QED
    BY <2>1, <2>2, <2>3, <2>4 DEF NothingLeft
<1> QED
  BY <1>5, <1>6

\* Up to its first start the buffer holds noise.
LEMMA ToStart ==
  ASSUME TypeOK, InStream, Starts(buffer) # {}, NEW rest \in Seq(Bytes)
  PROVE  Found(stream \o rest)[Position] = Found(stream \o rest)[StartPosition]
<1>1. PICK w, i, j : w = stream \o rest /\ i = Position /\ j = StartPosition
  OBVIOUS
<1>2. /\ w \in Seq(Bytes) /\ Len(w) >= Len(stream) /\ Len(w) \in Nat /\ Len(stream) \in Nat
      /\ \A k \in 1 .. (Len(stream) - 1) : IsStart(w, k) <=> IsStart(stream, k)
  BY <1>1, Extended DEF TypeOK
<1>3. /\ i \in 1 .. Len(stream) /\ j \in i .. (Len(stream) - 1)
      /\ \A k \in i .. (j - 1) : ~ IsStart(stream, k)
  BY <1>1, AlignedAt
<1>4. \A k \in i .. (j - 1) : ~ IsStart(w, k)
  BY <1>2, <1>3
<1>5. i \in 1 .. Len(w) + 1 /\ j \in i .. Len(w) + 1
  BY <1>2, <1>3
<1>6. Found(w)[i] = Found(w)[j]
  BY <1>2, <1>4, <1>5, SkipNoise
<1> QED
  BY <1>1, <1>6

\* The length the buffer announces is the one the stream announces.
LEMMA AlignedLength ==
  ASSUME TypeOK, InStream, Starts(buffer) # {}
  PROVE  /\ Len(Aligned) >= 4 <=> StartPosition + 3 <= Len(stream)
         /\ Len(Aligned) >= 4 =>
              /\ Uint16(Aligned, 3) = Uint16(stream, StartPosition + 2)
              /\ Uint16(stream, StartPosition + 2) \in Nat
<1>1. PICK i : i = StartPosition
  OBVIOUS
<1>2. /\ i \in 1 .. Len(stream) /\ Len(stream) \in Nat /\ stream \in Seq(Bytes)
      /\ Len(Aligned) = Len(stream) + 1 - i
      /\ \A k \in 1 .. Len(Aligned) : Aligned[k] = stream[i - 1 + k]
  <2>1. /\ Position \in 1 .. Len(stream) /\ i \in Position .. (Len(stream) - 1)
        /\ Len(Aligned) = Len(stream) + 1 - i
        /\ \A k \in 1 .. Len(Aligned) : Aligned[k] = stream[i - 1 + k]
    BY <1>1, AlignedAt
  <2>2. Len(stream) \in Nat /\ stream \in Seq(Bytes)
    BY DEF TypeOK
  <2> QED
    BY <2>1, <2>2
<1>3. ASSUME Len(Aligned) >= 4
      PROVE  Uint16(Aligned, 3) = Uint16(stream, i + 2) /\ Uint16(stream, i + 2) \in Nat
  <2>1. 3 \in 1 .. Len(Aligned) /\ 4 \in 1 .. Len(Aligned) /\ i + 3 <= Len(stream)
    BY <1>2, <1>3
  <2>2. Aligned[3] = stream[i - 1 + 3] /\ Aligned[4] = stream[i - 1 + 4]
    BY <1>2, <2>1
  <2>3. i - 1 + 3 = i + 2 /\ i - 1 + 4 = (i + 2) + 1 /\ 3 + 1 = 4
    BY <1>2
  <2>4. Uint16(Aligned, 3) = Uint16(stream, i + 2)
    BY <2>2, <2>3 DEF Uint16
  <2> QED
    BY <1>2, <2>1, <2>4, LengthType
<1> QED
  BY <1>1, <1>2, <1>3

LEMMA IncompleteStep ==
  ASSUME StreamInv, Incomplete
  PROVE  (InStream /\ NothingLost /\ NothingLeft)'
<1>1. /\ TypeOK /\ InStream /\ NothingLost /\ Starts(buffer) # {}
      /\ stream \in Seq(Bytes) /\ Len(stream) \in Nat
  BY DEF StreamInv, TypeOK, Incomplete
<1>2. PICK i : i = StartPosition
  OBVIOUS
<1>3. /\ Position \in 1 .. Len(stream) /\ i \in Position .. (Len(stream) - 1)
      /\ IsStart(stream, i)
      /\ \A k \in Position .. (i - 1) : ~ IsStart(stream, k)
      /\ Len(Aligned) = Len(stream) + 1 - i
      /\ \A k \in 1 .. Len(Aligned) : Aligned[k] = stream[i - 1 + k]
  BY <1>1, <1>2, AlignedAt
<1>4. buffer' = Aligned /\ UNCHANGED <<frames, stream>>
  BY DEF Incomplete
<1>5. Position' = i
  BY <1>1, <1>3, <1>4 DEF Position
<1>6. InStream'
  BY <1>1, <1>3, <1>4, <1>5 DEF InStream
<1>7. NothingLost'
  <2>1. /\ Position \in 1 .. Len(stream) + 1 /\ Position' \in Position .. Len(stream) + 1
        /\ \A k \in Position .. (Position' - 1) : k < Len(stream) /\ ~ IsStart(stream, k)
    BY <1>1, <1>3, <1>5
  <2> QED
    BY <1>1, <1>4, <2>1, SkippedNoise
<1>8. Found(stream)[i] = <<>>
  <2>1. HasPart(stream, i)
    <3>1. ASSUME i + 3 <= Len(stream)
          PROVE  ValidLength(Uint16(stream, i + 2)) /\ ~ HasFrame(stream, i)
      <4>1. /\ Len(Aligned) >= 4
            /\ Uint16(Aligned, 3) = Uint16(stream, i + 2) /\ Uint16(stream, i + 2) \in Nat
        BY <1>1, <1>2, <3>1, AlignedLength
      <4>2. ValidLength(Uint16(stream, i + 2)) /\ Len(Aligned) < 4 + Uint16(stream, i + 2)
        BY <4>1 DEF Incomplete
      <4>3. ~ (i + 3 + Uint16(stream, i + 2) <= Len(stream))
        BY <1>1, <1>3, <4>1, <4>2
      <4> QED
        BY <4>2, <4>3 DEF HasFrame
    <3> QED
      BY <1>3, <3>1 DEF HasPart
  <2>2. i \in 1 .. Len(stream) + 1
    BY <1>1, <1>3
  <2> QED
    BY <1>1, <2>1, <2>2, FoundCases
<1> QED
  BY <1>4, <1>5, <1>6, <1>7, <1>8 DEF NothingLeft

LEMMA BadLengthStep ==
  ASSUME StreamInv, BadLength
  PROVE  (InStream /\ NothingLost /\ NothingLeft)'
<1>1. /\ TypeOK /\ InStream /\ NothingLost /\ Starts(buffer) # {}
      /\ stream \in Seq(Bytes) /\ Len(stream) \in Nat
  BY DEF StreamInv, TypeOK, BadLength
<1>2. PICK i : i = StartPosition
  OBVIOUS
<1>3. /\ Position \in 1 .. Len(stream) /\ i \in Position .. (Len(stream) - 1)
      /\ IsStart(stream, i)
      /\ Aligned \in Seq(Bytes)
      /\ Len(Aligned) = Len(stream) + 1 - i
      /\ \A k \in 1 .. Len(Aligned) : Aligned[k] = stream[i - 1 + k]
  BY <1>1, <1>2, AlignedAt
<1>4. /\ buffer' = Tail(Aligned) /\ UNCHANGED <<frames, stream>> /\ pushing' = TRUE
      /\ Len(Aligned) >= 4
  BY DEF BadLength
<1>5. /\ Len(buffer') = Len(Aligned) - 1
      /\ \A k \in 1 .. Len(buffer') : buffer'[k] = Aligned[k + 1]
  BY <1>3, <1>4, HeadTailProperties, EmptySeq
<1>6. Position' = i + 1
  <2>1. stream' = stream
    BY <1>4
  <2> QED
    BY <1>1, <1>3, <1>5, <2>1 DEF Position
<1>7. InStream'
  <2>1. ASSUME NEW k \in 1 .. Len(buffer') PROVE buffer'[k] = stream[(i + 1) - 1 + k]
    <3>1. /\ k + 1 \in 1 .. Len(Aligned) /\ i - 1 + (k + 1) = (i + 1) - 1 + k
      BY <1>1, <1>3, <1>5
    <3> QED
      BY <1>3, <1>5, <3>1
  <2> QED
    BY <1>1, <1>3, <1>4, <1>5, <1>6, <2>1 DEF InStream
<1>8. NothingLost'
  <2> SUFFICES ASSUME NEW rest \in Seq(Bytes)
               PROVE  Found(stream \o rest)[Position] = Found(stream \o rest)[i + 1]
    BY <1>1, <1>4, <1>6 DEF NothingLost
  <2>1. Found(stream \o rest)[Position] = Found(stream \o rest)[i]
    BY <1>1, <1>2, ToStart
  <2>2. PICK w : w = stream \o rest
    OBVIOUS
  <2>3. /\ w \in Seq(Bytes) /\ Len(w) >= Len(stream) /\ Len(w) \in Nat
        /\ \A k \in 1 .. Len(stream) : w[k] = stream[k]
    BY <1>1, <2>2, Extended
  <2>4. i \in 1 .. Len(w) + 1 /\ i + 3 <= Len(w) /\ i <= Len(w)
    BY <1>1, <1>3, <1>4, <2>3
  <2>5. ~ ValidLength(Uint16(w, i + 2))
    <3>1. /\ Uint16(Aligned, 3) = Uint16(stream, i + 2) /\ i + 3 <= Len(stream)
      BY <1>1, <1>2, <1>4, AlignedLength
    <3>2. i + 2 \in 1 .. Len(stream) /\ (i + 2) + 1 \in 1 .. Len(stream)
      BY <1>1, <1>3, <3>1
    <3>3. Uint16(w, i + 2) = Uint16(stream, i + 2)
      BY <2>3, <3>2 DEF Uint16
    <3> QED
      BY <3>1, <3>3 DEF BadLength
  <2>6. ~ HasFrame(w, i) /\ ~ HasPart(w, i)
    BY <2>4, <2>5 DEF HasFrame, HasPart
  <2>7. Found(w)[i] = Found(w)[i + 1]
    BY <2>3, <2>4, <2>6, FoundCases
  <2> QED
    BY <2>1, <2>2, <2>7
<1> QED
  BY <1>4, <1>7, <1>8 DEF NothingLeft

\* What TakeFrame takes is the frame of the stream at the start.
LEMMA TakenFrame ==
  ASSUME TypeOK, InStream, TakeFrame
  PROVE  /\ HasFrame(stream, StartPosition)
         /\ frames' = frames \o <<PayloadAt(stream, StartPosition)>>
         /\ Position' = Behind(stream, StartPosition)
         /\ InStream'
<1>1. /\ Starts(buffer) # {} /\ stream' = stream
      /\ stream \in Seq(Bytes) /\ Len(stream) \in Nat
  BY DEF TypeOK, TakeFrame
<1>2. PICK i, size : i = StartPosition /\ size = Uint16(Aligned, 3)
  OBVIOUS
<1>3. /\ Position \in 1 .. Len(stream) /\ i \in Position .. (Len(stream) - 1)
      /\ IsStart(stream, i)
      /\ Aligned \in Seq(Bytes)
      /\ Len(Aligned) = Len(stream) + 1 - i
      /\ \A k \in 1 .. Len(Aligned) : Aligned[k] = stream[i - 1 + k]
  BY <1>1, <1>2, AlignedAt
<1>4. /\ ValidLength(size) /\ Len(Aligned) >= 4 /\ Len(Aligned) >= 4 + size
      /\ frames' = Append(frames, SubSeq(Aligned, 5, 4 + size))
      /\ buffer' = From(Aligned, 5 + size)
  BY <1>2 DEF TakeFrame
<1>5. size = Uint16(stream, i + 2) /\ size \in Nat /\ i + 3 <= Len(stream)
  BY <1>1, <1>2, <1>4, AlignedLength
<1>6. /\ i \in 1 .. Len(stream) /\ size \in Nat /\ Len(stream) \in Nat
      /\ i + 3 + size <= Len(stream)
      /\ Len(Aligned) = Len(stream) + 1 - i
  <2>1. Len(Aligned) >= 4 + size
    BY <1>4
  <2> QED
    BY <1>1, <1>3, <1>5, <2>1
<1>7. HasFrame(stream, i)
  BY <1>3, <1>4, <1>5, <1>6 DEF HasFrame
<1>8. SubSeq(Aligned, 5, 4 + size) = PayloadAt(stream, i)
  <2>1. PICK taken, there :
          taken = SubSeq(Aligned, 5, 4 + size) /\ there = SubSeq(stream, i + 4, i + 3 + size)
    OBVIOUS
  <2>2. \A k \in 5 .. (4 + size) : Aligned[k] \in Bytes
    BY <1>3, <1>6, ElementOfSeq
  <2>3. \A k \in (i + 4) .. (i + 3 + size) : stream[k] \in Bytes
    BY <1>1, <1>6, ElementOfSeq
  <2>4. /\ taken \in Seq(Bytes) /\ Len(taken) = size
        /\ \A k \in 1 .. size : taken[k] = Aligned[5 + k - 1]
    <3>1. PICK last : last = 4 + size
      OBVIOUS
    <3>2. /\ taken = SubSeq(Aligned, 5, last) /\ last \in Int /\ 5 \in Int
          /\ \A k \in 5 .. last : Aligned[k] \in Bytes
      BY <1>6, <2>1, <2>2, <3>1
    <3>3. /\ taken \in Seq(Bytes) /\ Len(taken) = IF 5 <= last THEN last - 5 + 1 ELSE 0
          /\ \A k \in 1 .. (last - 5 + 1) : taken[k] = Aligned[5 + k - 1]
      BY <3>2, SubSeqProperties
    <3> QED
      BY <1>6, <3>1, <3>3
  <2>5. /\ there \in Seq(Bytes) /\ Len(there) = size
        /\ \A k \in 1 .. size : there[k] = stream[i + 4 + k - 1]
    <3>1. i + 4 \in Int /\ i + 3 + size \in Int
      BY <1>6
    <3> QED
      BY <1>6, <2>1, <2>3, <3>1, SubSeqProperties
  <2>6. \A k \in 1 .. size : taken[k] = there[k]
    <3> SUFFICES ASSUME NEW k \in 1 .. size PROVE taken[k] = there[k]
      OBVIOUS
    <3>1. /\ 5 + k - 1 \in 1 .. Len(Aligned)
          /\ i - 1 + (5 + k - 1) = i + 4 + k - 1
      BY <1>6
    <3> QED
      BY <1>3, <2>4, <2>5, <3>1
  <2>7. taken = there
    BY <2>4, <2>5, <2>6, SeqEqual
  <2> QED
    BY <1>5, <2>1, <2>7 DEF PayloadAt
<1>9. frames' = frames \o <<PayloadAt(stream, i)>>
  <2>1. PICK payload : payload = PayloadAt(stream, i)
    OBVIOUS
  <2>2. PICK Payload : Payload = Seq(Bytes)
    OBVIOUS
  <2>3. frames \in Seq(Payload) /\ payload \in Payload
    BY <1>1, <1>3, <1>7, <2>1, <2>2, FrameBounds DEF TypeOK
  <2>4. Append(frames, payload) = frames \o <<payload>>
    BY ONLY <2>3
  <2> QED
    BY <1>4, <1>8, <2>1, <2>4
<1>10. /\ Len(buffer') = Len(Aligned) - 4 - size
      /\ \A k \in 1 .. Len(buffer') : buffer'[k] = Aligned[4 + size + k]
  <2>1. \A k \in (5 + size) .. Len(Aligned) : Aligned[k] \in Bytes
    BY <1>3, <1>6, ElementOfSeq
  <2>2. PICK left : left = buffer'
    OBVIOUS
  <2>3. left = SubSeq(Aligned, 5 + size, Len(Aligned)) /\ Len(Aligned) \in Nat
    BY <1>3, <1>4, <2>2 DEF From
  <2>4. /\ Len(left) = Len(Aligned) - 4 - size
        /\ \A k \in 1 .. (Len(Aligned) - (5 + size) + 1) : left[k] = Aligned[5 + size + k - 1]
    <3>1. PICK begin, last : begin = 5 + size /\ last = Len(Aligned)
      OBVIOUS
    <3>2. /\ left = SubSeq(Aligned, begin, last) /\ last \in Int /\ begin \in Int
          /\ \A k \in begin .. last : Aligned[k] \in Bytes
      BY <1>6, <2>1, <2>3, <3>1
    <3>3. /\ Len(left) = IF begin <= last THEN last - begin + 1 ELSE 0
          /\ \A k \in 1 .. (last - begin + 1) : left[k] = Aligned[begin + k - 1]
      BY <3>2, SubSeqProperties
    <3>4. last \in Nat /\ begin \in Nat /\ begin <= last + 1
      BY <1>6, <3>1
    <3>5. Len(left) = last - begin + 1
      BY <3>3, <3>4
    <3>6. last - begin + 1 = Len(Aligned) - 4 - size
      BY <1>6, <3>1
    <3> QED
      BY <3>1, <3>3, <3>5, <3>6
  <2>5. \A k \in 1 .. Len(left) : left[k] = Aligned[4 + size + k]
    <3> SUFFICES ASSUME NEW k \in 1 .. Len(left) PROVE left[k] = Aligned[4 + size + k]
      OBVIOUS
    <3>1. k \in 1 .. (Len(Aligned) - (5 + size) + 1) /\ 5 + size + k - 1 = 4 + size + k
      BY <1>6, <2>4
    <3> QED
      BY <2>4, <3>1
  <2> QED
    BY <2>2, <2>4, <2>5
<1>11. Position' = Behind(stream, i) /\ Behind(stream, i) = i + 4 + size
  <2>1. Len(stream') = Len(stream)
    BY <1>1
  <2>2. Position' = i + 4 + size
    BY <1>6, <1>10, <2>1 DEF Position
  <2> QED
    BY <1>5, <2>2 DEF Behind
<1>12. InStream'
  <2>1. ASSUME NEW k \in 1 .. Len(buffer')
        PROVE  buffer'[k] = stream[(i + 4 + size) - 1 + k]
    <3>1. /\ 4 + size + k \in 1 .. Len(Aligned)
          /\ i - 1 + (4 + size + k) = (i + 4 + size) - 1 + k
      BY <1>6, <1>10
    <3> QED
      BY <1>3, <1>10, <3>1
  <2>2. Len(buffer') <= Len(stream)
    BY <1>6, <1>10
  <2> QED
    BY <1>1, <1>11, <2>1, <2>2 DEF InStream
<1> QED
  BY <1>2, <1>7, <1>9, <1>11, <1>12

LEMMA TakeFrameStep ==
  ASSUME StreamInv, TakeFrame
  PROVE  (InStream /\ NothingLost /\ NothingLeft)'
<1>1. /\ TypeOK /\ InStream /\ NothingLost /\ Starts(buffer) # {}
      /\ stream' = stream /\ pushing' = TRUE
      /\ stream \in Seq(Bytes) /\ Len(stream) \in Nat
  BY DEF StreamInv, TypeOK, TakeFrame
<1>2. PICK i, payload : i = StartPosition /\ payload = PayloadAt(stream, i)
  OBVIOUS
<1>3. /\ HasFrame(stream, i) /\ frames' = frames \o <<payload>>
      /\ Position' = Behind(stream, i) /\ InStream'
  BY <1>1, <1>2, TakenFrame
<1>4. Position \in 1 .. Len(stream) + 1 /\ i \in 1 .. Len(stream) + 1
  <2>1. Position \in 1 .. Len(stream) /\ i \in Position .. (Len(stream) - 1)
    BY <1>1, <1>2, AlignedAt
  <2> QED
    BY <1>1, <2>1
<1>5. payload \in Seq(Bytes) /\ Position' \in (i + 1) .. (Len(stream) + 1)
  BY <1>1, <1>2, <1>3, <1>4, FrameBounds
<1>6. PICK added : added = <<payload>>
  OBVIOUS
<1>7. added \in Seq(Seq(Bytes))
  BY <1>5, <1>6
<1>8. ASSUME NEW rest \in Seq(Bytes)
      PROVE  Found(stream \o rest)[Position] = added \o Found(stream \o rest)[Position']
  <2>1. Found(stream \o rest)[Position] = Found(stream \o rest)[i]
    BY <1>1, <1>2, ToStart
  <2>2. PICK w : w = stream \o rest
    OBVIOUS
  <2>3. /\ HasFrame(w, i) /\ Behind(w, i) = Behind(stream, i)
        /\ PayloadAt(w, i) = payload
    BY <1>1, <1>2, <1>3, <1>4, <2>2, ExtendedFrame
  <2>4. w \in Seq(Bytes) /\ i \in 1 .. Len(w) + 1
    BY <1>1, <1>4, <2>2, Extended
  <2>5. Found(w)[i] = added \o Found(w)[Position']
    BY <1>3, <1>6, <2>3, <2>4, FoundCases
  <2> QED
    BY <2>1, <2>2, <2>5
<1>9. NothingLost'
  <2>1. Position' \in 1 .. Len(stream) + 1 /\ frames' = frames \o added
    BY <1>3, <1>4, <1>5, <1>6
  <2> QED
    BY <1>1, <1>4, <1>7, <1>8, <2>1, MovedOn
<1> QED
  BY <1>1, <1>3, <1>9 DEF NothingLeft

LEMMA StreamInvInit == Init => StreamInv
<1> SUFFICES ASSUME Init PROVE StreamInv
  OBVIOUS
<1>1. TypeOK
  BY FramerInvInit DEF FramerInv
<1>2. /\ buffer = <<>> /\ frames = <<>> /\ stream = <<>>
      /\ Len(stream) = 0 /\ Len(buffer) = 0 /\ stream \in Seq(Bytes)
  BY EmptySeq DEF Init
<1>3. Position = 1 /\ InStream
  BY <1>2 DEF Position, InStream
<1>4. NothingLeft
  <2>1. Found(stream)[Len(stream) + 1] = <<>>
    BY <1>2, FoundAtEnd
  <2> QED
    BY <1>2, <1>3, <2>1 DEF NothingLeft
<1>5. NothingLost
  <2> SUFFICES ASSUME NEW rest \in Seq(Bytes)
               PROVE  Found(stream \o rest)[1] = frames \o Found(stream \o rest)[1]
    BY <1>3 DEF NothingLost
  <2>1. PICK w : w = stream \o rest
    OBVIOUS
  <2>2. w \in Seq(Bytes) /\ 1 \in 1 .. Len(w) + 1
    BY <1>2, <2>1, Extended
  <2>3. PICK found : found = Found(w)[1]
    OBVIOUS
  <2>4. found \in Seq(Seq(Bytes))
    BY <2>2, <2>3, FoundType
  <2>5. <<>> \o found = found
    BY ONLY <2>4, ConcatEmptySeq
  <2>6. found = frames \o found
    BY <1>2, <2>5, Zenon
  <2> QED
    BY <2>1, <2>3, <2>6, Zenon
<1> QED
  BY <1>1, <1>3, <1>4, <1>5 DEF StreamInv

LEMMA StreamInvStep == StreamInv /\ FramerInv' /\ [Next]_vars => StreamInv'
<1> SUFFICES ASSUME StreamInv, FramerInv', [Next]_vars
             PROVE  (InStream /\ NothingLost /\ NothingLeft)'
  BY DEF StreamInv, FramerInv
<1>1. ASSUME NEW data \in Chunks, Push(data)
      PROVE  (InStream /\ NothingLost /\ NothingLeft)'
  <2>1. data \in Seq(Bytes)
    BY FramerAssumption DEF Chunks
  <2> QED
    BY <1>1, <2>1, PushStep
<1>2. CASE Reconnect
  <2>1. Init'
    BY <1>2 DEF Reconnect, Init
  <2>2. StreamInv'
    BY <2>1, StreamInvInit, PTL
  <2> QED
    BY <2>2 DEF StreamInv
<1>3. CASE UNCHANGED vars
  BY <1>3 DEF vars, StreamInv, InStream, NothingLost, NothingLeft, Position
<1> QED
  BY <1>1, <1>2, <1>3, NoStartStep, IncompleteStep, BadLengthStep, TakeFrameStep
  DEF Next, PushTurn

LEMMA StreamInvHolds == SerialSpec => []StreamInv
<1>1. StreamInv /\ FramerInv' /\ [Next]_vars => StreamInv'
  BY StreamInvStep
<1> QED
  BY <1>1, StreamInvInit, FramerInvHolds, SourceIsFramer, PTL DEF Spec

\* Between reads the frames taken are those of the stream.
LEMMA FramesFound ==
  ASSUME StreamInv, ~ pushing
  PROVE  frames = Payloads(stream)
<1>1. stream \in Seq(Bytes) /\ frames \in Seq(Seq(Bytes)) /\ <<>> \in Seq(Bytes)
  BY EmptySeq DEF StreamInv, TypeOK
<1>2. stream \o <<>> = stream
  BY <1>1, ConcatEmptySeq
<1>3. Found(stream)[1] = frames \o Found(stream)[Position]
  BY <1>1, <1>2 DEF StreamInv, NothingLost
<1>4. Found(stream)[Position] = <<>>
  BY DEF StreamInv, NothingLeft
<1>5. PICK Payload : Payload = Seq(Bytes)
  OBVIOUS
<1>6. frames \in Seq(Payload)
  BY <1>1, <1>5
<1>7. frames \o <<>> = frames
  BY ONLY <1>6, ConcatEmptySeq
<1> QED
  BY <1>3, <1>4, <1>7 DEF Payloads

(***************************************************************************)
(* How the port cuts the stream into reads does not matter: at the end of  *)
(* each Push the frames handed on are those of the whole stream, for any   *)
(* stream, with any noise and any corrupt lengths in it.                   *)
(***************************************************************************)
THEOREM ReadsDoNotMatter == SerialSpec => []ChunksDoNotMatter
<1>1. StreamInv => ChunksDoNotMatter
  BY FramesFound DEF ChunksDoNotMatter
<1> QED
  BY <1>1, StreamInvHolds, PTL

\* A part of the rest of a sequence.
LEMMA PartOfRest ==
  ASSUME NEW s \in Seq(Bytes), NEW i \in 1 .. Len(s) + 1,
         NEW a \in Nat \ {0}, NEW b \in Nat, b <= Len(s) + 1 - i
  PROVE  SubSeq(From(s, i), a, b) = SubSeq(s, i + a - 1, i + b - 1)
<1>1. PICK rest : rest = From(s, i)
  OBVIOUS
<1>2. /\ rest \in Seq(Bytes) /\ Len(rest) = Len(s) + 1 - i
      /\ \A k \in 1 .. Len(rest) : rest[k] = s[i + k - 1]
  <2>1. \A k \in i .. Len(s) : s[k] \in Bytes
    BY ElementOfSeq
  <2> QED
    BY <1>1, <2>1, FromType, SubSeqProperties DEF From
<1>3. PICK first, last : first = i + a - 1 /\ last = i + b - 1
  OBVIOUS
<1>4. first \in Nat \ {0} /\ last \in Nat /\ last <= Len(s)
  BY <1>3
<1>5. PICK part, there : part = SubSeq(rest, a, b) /\ there = SubSeq(s, first, last)
  OBVIOUS
<1>6. /\ part \in Seq(Bytes) /\ Len(part) = IF a <= b THEN b - a + 1 ELSE 0
      /\ \A k \in 1 .. (b - a + 1) : part[k] = rest[a + k - 1]
  <2>1. \A k \in a .. b : rest[k] \in Bytes
    BY <1>2, ElementOfSeq
  <2> QED
    BY <1>5, <2>1, SubSeqProperties
<1>7. /\ there \in Seq(Bytes) /\ Len(there) = IF first <= last THEN last - first + 1 ELSE 0
      /\ \A k \in 1 .. (last - first + 1) : there[k] = s[first + k - 1]
  <2>1. \A k \in first .. last : s[k] \in Bytes
    BY <1>4, ElementOfSeq
  <2> QED
    BY <1>4, <1>5, <2>1, SubSeqProperties
<1>8. Len(part) = Len(there)
  BY <1>3, <1>6, <1>7
<1>9. \A k \in 1 .. Len(part) : part[k] = there[k]
  <2> SUFFICES ASSUME NEW k \in 1 .. Len(part) PROVE part[k] = there[k]
    OBVIOUS
  <2>1. k \in 1 .. (b - a + 1) /\ k \in 1 .. (last - first + 1)
    BY <1>3, <1>6
  <2>2. a + k - 1 \in 1 .. Len(rest) /\ i + (a + k - 1) - 1 = first + k - 1
    BY <1>2, <1>3, <2>1
  <2> QED
    BY <1>2, <1>6, <1>7, <2>1, <2>2
<1>10. part = there
  BY <1>6, <1>7, <1>8, <1>9, SeqEqual
<1> QED
  BY <1>1, <1>3, <1>5, <1>10

\* The length EncodeFrame writes is the length Push reads.
LEMMA LengthRead ==
  ASSUME NEW payload \in Seq(Bytes)
  PROVE  /\ Len(EncodeFrame(payload)) = 4 + Len(payload)
         /\ Radix * EncodeFrame(payload)[3] + EncodeFrame(payload)[4] = Len(payload)
<1>1. PICK n, radix : n = Len(payload) /\ radix = Radix
  OBVIOUS
<1>2. n \in Nat /\ radix \in Nat \ {0}
  BY <1>1, FramerAssumption
<1>3. /\ Len(EncodeFrame(payload)) = 4 + n
      /\ EncodeFrame(payload)[3] = n \div radix
      /\ EncodeFrame(payload)[4] = n % radix
  BY <1>1, <1>2 DEF EncodeFrame
<1>4. radix * (n \div radix) + (n % radix) = n
  BY ONLY <1>2
<1> QED
  BY <1>1, <1>3, <1>4

\* A frame as EncodeFrame writes it, at the first start of the stream, is the
\* first of its frames.
LEMMA EncodedFrame ==
  ASSUME NEW s \in Seq(Bytes), Starts(s) # {},
         NEW n \in 1 .. MaxFrame, 4 + n <= Len(From(s, FirstStart(s))),
         NEW payload, payload = SubSeq(From(s, FirstStart(s)), 5, 4 + n),
         SubSeq(From(s, FirstStart(s)), 1, 4 + n) = EncodeFrame(payload)
  PROVE  Payloads(s) # <<>> /\ Payloads(s)[1] = payload
<1>1. PICK i : i = FirstStart(s)
  OBVIOUS
<1>2. /\ i \in 1 .. Len(s) /\ IsStart(s, i) /\ Len(s) \in Nat
      /\ \A j \in Starts(s) : i <= j
  BY <1>1, FirstStartIn DEF Starts
<1>3. PICK rest : rest = From(s, i)
  OBVIOUS
<1>4. rest \in Seq(Bytes) /\ Len(rest) = Len(s) + 1 - i
  BY <1>2, <1>3, FromType
<1>5. n \in Nat /\ 1 <= n /\ n <= MaxFrame /\ 4 + n <= Len(s) + 1 - i
  BY <1>1, <1>3, <1>4, FramerAssumption
<1>6. payload = SubSeq(s, i + 4, i + 3 + n)
  <2>1. PICK a, b : a = 5 /\ b = 4 + n
    OBVIOUS
  <2>2. /\ i \in 1 .. Len(s) + 1 /\ a \in Nat \ {0} /\ b \in Nat /\ b <= Len(s) + 1 - i
        /\ i + a - 1 = i + 4 /\ i + b - 1 = i + 3 + n
    BY <1>2, <1>5, <2>1
  <2>3. SubSeq(From(s, i), a, b) = SubSeq(s, i + a - 1, i + b - 1)
    BY <2>2, PartOfRest
  <2> QED
    BY <1>1, <2>1, <2>2, <2>3
<1>7. payload \in Seq(Bytes) /\ Len(payload) = n
  <2>1. PICK a, b : a = i + 4 /\ b = i + 3 + n
    OBVIOUS
  <2>2. a \in Int /\ b \in Int /\ a <= b /\ b - a + 1 = n /\ a >= 1 /\ b <= Len(s)
    BY <1>2, <1>5, <2>1
  <2>3. \A k \in a .. b : s[k] \in Bytes
    BY <1>2, <2>2, ElementOfSeq
  <2>4. payload = SubSeq(s, a, b)
    BY <1>6, <2>1
  <2>5. payload \in Seq(Bytes) /\ Len(payload) = IF a <= b THEN b - a + 1 ELSE 0
    BY ONLY <2>2, <2>3, <2>4, SubSeqProperties
  <2> QED
    BY <2>2, <2>5
<1>8. PICK code : code = EncodeFrame(payload)
  OBVIOUS
<1>9. Radix * code[3] + code[4] = n
  BY <1>7, <1>8, LengthRead
<1>10. code[3] = s[i + 2] /\ code[4] = s[i + 3]
  <2>1. PICK b : b = i + 3 + n
    OBVIOUS
  <2>2. code = SubSeq(s, i, b)
    <3>1. PICK a, c : a = 1 /\ c = 4 + n
      OBVIOUS
    <3>2. /\ i \in 1 .. Len(s) + 1 /\ a \in Nat \ {0} /\ c \in Nat /\ c <= Len(s) + 1 - i
          /\ i + a - 1 = i /\ i + c - 1 = b
      BY <1>2, <1>5, <2>1, <3>1
    <3>3. SubSeq(From(s, i), a, c) = SubSeq(s, i + a - 1, i + c - 1)
      BY <3>2, PartOfRest
    <3> QED
      BY <1>1, <1>8, <3>1, <3>2, <3>3
  <2>3. i \in Int /\ b \in Int /\ b - i + 1 = n + 4 /\ b <= Len(s) /\ b >= i + 4
    BY <1>2, <1>5, <2>1
  <2>4. \A k \in i .. b : s[k] \in Bytes
    BY <1>2, <2>3, ElementOfSeq
  <2>5. \A k \in 1 .. (b - i + 1) : code[k] = s[i + k - 1]
    BY <2>2, <2>3, <2>4, SubSeqProperties
  <2>6. 3 \in 1 .. (b - i + 1) /\ 4 \in 1 .. (b - i + 1) /\ i + 3 - 1 = i + 2 /\ i + 4 - 1 = i + 3
    BY <2>3
  <2> QED
    BY <2>5, <2>6
<1>11. Uint16(s, i + 2) = n
  <2>1. (i + 2) + 1 = i + 3
    BY <1>2
  <2> QED
    BY <1>9, <1>10, <2>1 DEF Uint16
<1>12. HasFrame(s, i)
  <2>1. i + 3 <= Len(s) /\ i + 3 + n <= Len(s) /\ n # 0
    BY <1>2, <1>5
  <2> QED
    BY <1>2, <1>5, <1>11, <2>1 DEF HasFrame, ValidLength
<1>13. PayloadAt(s, i) = payload
  BY <1>6, <1>11 DEF PayloadAt
<1>14. Found(s)[1] = Found(s)[i]
  <2>1. \A k \in 1 .. (i - 1) : ~ IsStart(s, k)
    <3> SUFFICES ASSUME NEW k \in 1 .. (i - 1), IsStart(s, k) PROVE FALSE
      OBVIOUS
    <3>1. k \in 1 .. Len(s) /\ k < i
      BY <1>2
    <3>2. k \in Starts(s)
      BY <3>1 DEF Starts
    <3> QED
      BY <1>2, <3>1, <3>2
  <2>2. PICK one : one = 1
    OBVIOUS
  <2>3. one \in 1 .. Len(s) + 1 /\ i \in one .. Len(s) + 1
    BY <1>2, <2>2
  <2>4. Found(s)[one] = Found(s)[i]
    BY <2>1, <2>2, <2>3, SkipNoise
  <2> QED
    BY <2>2, <2>4
<1>15. PICK others : others = Found(s)[Behind(s, i)]
  OBVIOUS
<1>16. Found(s)[i] = <<payload>> \o others
  <2>1. i \in 1 .. Len(s) + 1
    BY <1>2
  <2>2. HasFrame(s, i) => Found(s)[i] = <<PayloadAt(s, i)>> \o Found(s)[Behind(s, i)]
    BY <2>1, FoundCases
  <2> QED
    BY <1>12, <1>13, <1>15, <2>2
<1>17. others \in Seq(Seq(Bytes))
  <2>1. Behind(s, i) \in 1 .. Len(s) + 1
    BY <1>2, <1>12, FrameBounds
  <2> QED
    BY <1>15, <2>1, FoundType
<1>18. <<payload>> \o others # <<>> /\ (<<payload>> \o others)[1] = payload
  <2>1. PICK Payload : Payload = Seq(Bytes)
    OBVIOUS
  <2>2. payload \in Payload /\ others \in Seq(Payload)
    BY <1>7, <1>17, <2>1
  <2> QED
    BY ONLY <2>2
<1> QED
  BY <1>14, <1>16, <1>18 DEF Payloads

(***************************************************************************)
(* What EncodeFrame writes, Push reads: a frame that arrives behind noise  *)
(* without a start is the first one handed on, for a payload of any length *)
(* a frame may have, any bytes in it, and any reads.                       *)
(***************************************************************************)
THEOREM EncodedFrameIsRead == SerialSpec => []FrameRecovered
<1>1. StreamInv => FrameRecovered
  <2> SUFFICES ASSUME StreamInv, ~ pushing, Starts(stream) # {},
                      NEW n \in 1 .. MaxFrame,
                      4 + n <= Len(From(stream, FirstStart(stream))),
                      NEW payload,
                      payload = SubSeq(From(stream, FirstStart(stream)), 5, 4 + n),
                      SubSeq(From(stream, FirstStart(stream)), 1, 4 + n) = EncodeFrame(payload)
               PROVE  frames # <<>> /\ frames[1] = payload
    BY DEF FrameRecovered
  <2>1. stream \in Seq(Bytes)
    BY DEF StreamInv, TypeOK
  <2>2. Payloads(stream) # <<>> /\ Payloads(stream)[1] = payload
    BY <2>1, EncodedFrame
  <2> QED
    BY <2>2, FramesFound
<1> QED
  BY <1>1, StreamInvHolds, PTL

-----------------------------------------------------------------------------
(* The source.                                                             *)

\* What Decoded says of a number of payloads, given what it says of fewer.
DecodedAt(ps, decoded, i) ==
  IF i = 0 THEN <<>>
  ELSE IF Decodes(ps[i]) THEN Append(decoded[i - 1], ps[i])
  ELSE decoded[i - 1]

\* Decoded is well defined: from the first payload on.
LEMMA DecodedExists ==
  ASSUME NEW ps, NEW n \in Nat
  PROVE  \E f : f = [i \in 0 .. n |-> DecodedAt(ps, f, i)]
<1> DEFINE Partly(k, f) == f = [i \in 0 .. k |-> DecodedAt(ps, f, i)]
           Bad == {k \in Nat : ~ \E f : Partly(k, f)}
<1>1. Bad = {}
  <2> SUFFICES ASSUME Bad # {} PROVE FALSE
    OBVIOUS
  <2>1. PICK k \in Bad : \A j \in Nat : j < k => j \notin Bad
    <3>1. Bad \in SUBSET Nat
      OBVIOUS
    <3> HIDE DEF Bad
    <3> QED
      BY <3>1, Least
  <2>2. k \in Nat /\ ~ \E f : Partly(k, f)
    OBVIOUS
  <2>3. k # 0
    <3> SUFFICES ASSUME k = 0 PROVE \E f : Partly(k, f)
      BY <2>2
    <3> DEFINE f == [i \in {0} |-> <<>>]
    <3>1. 0 .. k = {0}
      OBVIOUS
    <3>2. f = [i \in {0} |-> DecodedAt(ps, f, i)]
      BY DEF DecodedAt
    <3> QED
      BY <3>1, <3>2
  <2>4. PICK g : Partly(k - 1, g)
    <3>1. k - 1 \in Nat /\ k - 1 < k
      BY <2>2, <2>3
    <3> QED
      BY <2>1, <3>1
  <2> DEFINE f == [i \in 0 .. k |-> IF i = k THEN DecodedAt(ps, g, i) ELSE g[i]]
  <2>5. \A i \in 0 .. (k - 1) : i \in 0 .. k /\ f[i] = g[i]
    BY <2>2
  <2>6. ASSUME NEW i \in 0 .. k
        PROVE  DecodedAt(ps, f, i) = DecodedAt(ps, g, i)
    <3>1. CASE i = 0
      BY <3>1 DEF DecodedAt
    <3>2. CASE i # 0
      <4>1. i - 1 \in 0 .. (k - 1)
        BY <2>2, <3>2
      <4>2. f[i - 1] = g[i - 1]
        BY <2>5, <4>1
      <4> HIDE DEF f
      <4> QED
        BY <4>2 DEF DecodedAt
    <3> QED
      BY <3>1, <3>2
  <2>7. \A i \in 0 .. k : f[i] = DecodedAt(ps, f, i)
    <3> SUFFICES ASSUME NEW i \in 0 .. k PROVE f[i] = DecodedAt(ps, g, i)
      BY <2>6
    <3>1. CASE i = k
      BY <3>1
    <3>2. CASE i # k
      <4>1. i \in 0 .. (k - 1)
        BY <2>2, <3>2
      <4>2. g[i] = DecodedAt(ps, g, i)
        BY <2>4, <4>1
      <4> QED
        BY <2>5, <4>1, <4>2
    <3> QED
      BY <3>1, <3>2
  <2>8. Partly(k, f)
    <3>1. f = [i \in 0 .. k |-> f[i]]
      OBVIOUS
    <3> HIDE DEF f
    <3> QED
      BY <2>7, <3>1
  <2> QED
    BY <2>2, <2>8
<1> QED
  BY <1>1

LEMMA DecodedDef ==
  ASSUME NEW ps, Len(ps) \in Nat
  PROVE  /\ Decoded(ps)[0] = <<>>
         /\ \A i \in 1 .. Len(ps) :
              Decoded(ps)[i] = IF Decodes(ps[i]) THEN Append(Decoded(ps)[i - 1], ps[i])
                               ELSE Decoded(ps)[i - 1]
<1>1. Decoded(ps) = CHOOSE f : f = [i \in 0 .. Len(ps) |-> DecodedAt(ps, f, i)]
  BY DEF Decoded, DecodedAt
<1>2. Decoded(ps) = [i \in 0 .. Len(ps) |-> DecodedAt(ps, Decoded(ps), i)]
  BY <1>1, DecodedExists
<1>3. PICK d : d = Decoded(ps)
  OBVIOUS
<1>4. \A i \in 0 .. Len(ps) : d[i] = DecodedAt(ps, d, i)
  BY <1>2, <1>3
<1>5. 0 \in 0 .. Len(ps) /\ \A i \in 1 .. Len(ps) : i \in 0 .. Len(ps) /\ i # 0
  OBVIOUS
<1> QED
  BY <1>3, <1>4, <1>5 DEF DecodedAt

\* Further payloads do not change what the first ones are.
LEMMA DecodedGrows ==
  ASSUME NEW ps, NEW qs, Len(ps) \in Nat, Len(qs) \in Nat, Len(ps) <= Len(qs),
         \A i \in 1 .. Len(ps) : qs[i] = ps[i]
  PROVE  \A i \in 0 .. Len(ps) : Decoded(qs)[i] = Decoded(ps)[i]
<1> DEFINE Bad == {i \in 0 .. Len(ps) : Decoded(qs)[i] # Decoded(ps)[i]}
<1>1. Bad = {}
  <2> SUFFICES ASSUME Bad # {} PROVE FALSE
    OBVIOUS
  <2>1. PICK k \in Bad : \A j \in Nat : j < k => j \notin Bad
    <3>1. Bad \in SUBSET Nat
      OBVIOUS
    <3> HIDE DEF Bad
    <3> QED
      BY <3>1, Least
  <2>2. k # 0
    BY DecodedDef
  <2>3. k \in 1 .. Len(ps) /\ k \in 1 .. Len(qs) /\ qs[k] = ps[k]
    BY <2>2
  <2>4. Decoded(qs)[k - 1] = Decoded(ps)[k - 1]
    <3>1. k - 1 \in Nat /\ k - 1 < k /\ k - 1 \in 0 .. Len(ps)
      BY <2>3
    <3> QED
      BY <2>1, <3>1
  <2> QED
    BY <2>3, <2>4, DecodedDef
<1> QED
  BY <1>1

(***************************************************************************)
(* The messages accepted are those of the frames dealt with so far, and no *)
(* frame is left over whenever the source is not busy with a read.         *)
(***************************************************************************)
HandedInv ==
  /\ handed = Decoded(frames)[next - 1]
  /\ at \in {"open", "write", "read"} => next = Len(frames) + 1 /\ ~ pushing

\* Nothing is handed on before the first frame.
LEMMA NothingHanded ==
  frames = <<>> /\ next = 1 /\ handed = <<>> /\ pushing = FALSE => HandedInv
<1> SUFFICES ASSUME frames = <<>>, next = 1, handed = <<>>, pushing = FALSE PROVE HandedInv
  OBVIOUS
<1>1. Len(frames) = 0
  BY EmptySeq
<1>2. Decoded(frames)[0] = <<>>
  BY <1>1, DecodedDef
<1> QED
  BY <1>1, <1>2 DEF HandedInv

\* A turn of Push at most adds a frame.
LEMMA FramesKept ==
  ASSUME TypeOK, PushTurn
  PROVE  /\ Len(frames) \in Nat /\ Len(frames') \in Nat /\ Len(frames) <= Len(frames')
         /\ \A i \in 1 .. Len(frames) : frames'[i] = frames[i]
<1>1. Len(frames) \in Nat
  BY DEF TypeOK
<1>2. CASE NoStart \/ Incomplete \/ BadLength
  BY <1>1, <1>2 DEF NoStart, Incomplete, BadLength
<1>3. CASE TakeFrame
  <2>1. PICK Payload : Payload = Seq(Bytes)
    OBVIOUS
  <2>2. frames \in Seq(Payload)
    BY <2>1 DEF TypeOK
  <2>3. PICK payload : frames' = Append(frames, payload)
    BY <1>3 DEF TakeFrame
  <2> QED
    BY ONLY <2>2, <2>3
<1> QED
  BY <1>2, <1>3 DEF PushTurn

LEMMA HandedStep ==
  ASSUME SerialTypeOK, HandedInv, [SerialNext]_serialVars
  PROVE  HandedInv'
<1>1. /\ handed = Decoded(frames)[next - 1]
      /\ at \in {"open", "write", "read"} => next = Len(frames) + 1 /\ ~ pushing
      /\ Len(frames) \in Nat /\ next \in 1 .. Len(frames) + 1
      /\ pushing => at = "hand"
      /\ TypeOK
  BY DEF SerialTypeOK, TypeOK, HandedInv
<1>2. CASE OpenFails \/ PortFails \/ WriteRequest \/ HandlerFails \/ TryAgain \/ ReadDone
  <2>1. UNCHANGED <<frames, next, handed, pushing>>
    BY <1>2 DEF OpenFails, PortFails, WriteRequest, HandlerFails, TryAgain, ReadDone,
       ConnectionLost, vars
  <2>2. at' \in {"open", "write", "read"} => next = Len(frames) + 1 /\ ~ pushing
    BY <1>1, <1>2 DEF OpenFails, PortFails, WriteRequest, HandlerFails, TryAgain, ReadDone,
       ConnectionLost
  <2> QED
    BY <1>1, <2>1, <2>2 DEF HandedInv
<1>3. CASE OpenPort \/ Restart
  <2>1. (frames = <<>> /\ next = 1 /\ handed = <<>> /\ pushing = FALSE)'
    BY <1>3 DEF OpenPort, Restart, Reconnect
  <2> QED
    BY <2>1, NothingHanded, PTL
<1>4. ASSUME NEW data \in Chunks, Read(data)
      PROVE  HandedInv'
  <2>1. UNCHANGED <<frames, next, handed>> /\ at' = "hand"
    BY <1>4 DEF Read, Push
  <2> QED
    BY <1>1, <2>1 DEF HandedInv
<1>5. CASE PushLoop
  <2>1. UNCHANGED <<at, next, handed>> /\ pushing /\ PushTurn
    BY <1>5 DEF PushLoop, source, PushTurn, NoStart, Incomplete, BadLength, TakeFrame
  <2>2. \A i \in 0 .. Len(frames) : Decoded(frames')[i] = Decoded(frames)[i]
    BY <1>1, <2>1, FramesKept, DecodedGrows
  <2>3. next - 1 \in 0 .. Len(frames)
    BY <1>1
  <2>4. at = "hand"
    BY <1>1, <2>1
  <2> QED
    BY <1>1, <2>1, <2>2, <2>3, <2>4 DEF HandedInv
<1>6. ASSUME InHand
      PROVE  /\ at = "hand" /\ next \in 1 .. Len(frames)
             /\ Decoded(frames)[next] = IF Decodes(Current) THEN Append(handed, Current) ELSE handed
  <2>1. at = "hand" /\ next \in 1 .. Len(frames)
    BY <1>1, <1>6 DEF InHand
  <2> QED
    BY <1>1, <2>1, DecodedDef DEF Current
<1>7. CASE Discard
  <2>1. /\ InHand /\ ~ Decodes(Current) /\ next' = next + 1
        /\ UNCHANGED <<at, handed, frames>>
    BY <1>7 DEF Discard, vars
  <2>2. next' - 1 = next
    BY <1>1, <2>1
  <2> QED
    BY <1>6, <2>1, <2>2 DEF HandedInv
<1>8. CASE HandOn
  <2>1. /\ InHand /\ Decodes(Current) /\ next' = next + 1
        /\ handed' = Append(handed, Current)
        /\ UNCHANGED <<at, frames>>
    BY <1>8 DEF HandOn, vars
  <2>2. next' - 1 = next
    BY <1>1, <2>1
  <2> QED
    BY <1>6, <2>1, <2>2 DEF HandedInv
<1>9. CASE UNCHANGED serialVars
  BY <1>1, <1>9 DEF serialVars, source, vars, HandedInv
<1> QED
  BY <1>2, <1>3, <1>4, <1>5, <1>7, <1>8, <1>9 DEF SerialNext

(***************************************************************************)
(* No message is lost, doubled or reordered between the port and the       *)
(* Handler: whenever the source is to read or to reconnect, the Handler    *)
(* has accepted the decodable payloads of the stream of this connection,   *)
(* however often it failed and whatever error came with the last read.     *)
(***************************************************************************)
THEOREM MessagesHandedOn == SerialSpec => []EachMessageHandedOn
<1>1. SerialInit => HandedInv
  BY NothingHanded DEF SerialInit, Init
<1>2. SerialTypeOK /\ HandedInv /\ [SerialNext]_serialVars => HandedInv'
  BY HandedStep
<1>3. StreamInv /\ HandedInv /\ SerialTypeOK => EachMessageHandedOn
  <2> SUFFICES ASSUME StreamInv, HandedInv, SerialTypeOK, at \in {"read", "open"}
               PROVE  handed = Messages(Payloads(stream))
    BY DEF EachMessageHandedOn
  <2>1. /\ handed = Decoded(frames)[next - 1] /\ next = Len(frames) + 1 /\ ~ pushing
        /\ Len(frames) \in Nat
    BY DEF HandedInv, StreamInv, TypeOK
  <2>2. next - 1 = Len(frames)
    BY <2>1
  <2>3. frames = Payloads(stream)
    BY <2>1, FramesFound
  <2> QED
    BY <2>1, <2>2, <2>3 DEF Messages
<1> QED
  BY <1>1, <1>2, <1>3, StreamInvHolds, SourceTypeCorrect, PTL DEF SerialSpec

(***************************************************************************)
(* What the Handler has accepted so far, at any moment of a connection, is *)
(* the messages among the first next - 1 payloads of the stream, and of    *)
(* whatever stream the radio may make of it by sending more.               *)
(***************************************************************************)
HandedForGood ==
  \A rest \in Seq(Bytes) :
    LET all == Payloads(stream \o rest)
    IN  next - 1 <= Len(all) /\ handed = Decoded(all)[next - 1]

(***************************************************************************)
(* In the middle of Push, between two calls of the Handler and while it is *)
(* waited for, too: no message is handed on that a later byte could show   *)
(* to have been none, or another one.                                      *)
(***************************************************************************)
THEOREM HandedNeverRegretted == SerialSpec => []HandedForGood
<1>1. SerialInit => HandedInv
  BY NothingHanded DEF SerialInit, Init
<1>2. SerialTypeOK /\ HandedInv /\ [SerialNext]_serialVars => HandedInv'
  BY HandedStep
<1>3. StreamInv /\ HandedInv /\ SerialTypeOK => HandedForGood
  <2> SUFFICES ASSUME StreamInv, HandedInv, SerialTypeOK, NEW rest \in Seq(Bytes)
               PROVE  LET all == Payloads(stream \o rest)
                      IN  next - 1 <= Len(all) /\ handed = Decoded(all)[next - 1]
    BY DEF HandedForGood
  <2>1. /\ handed = Decoded(frames)[next - 1] /\ next - 1 \in 0 .. Len(frames)
        /\ frames \in Seq(Seq(Bytes)) /\ Len(frames) \in Nat
        /\ stream \in Seq(Bytes) /\ buffer \in Seq(Bytes)
        /\ Len(buffer) <= Len(stream)
    BY DEF HandedInv, SerialTypeOK, StreamInv, InStream, TypeOK
  <2>2. PICK all, later, w : /\ w = stream \o rest
                             /\ all = Payloads(w) /\ later = Found(w)[Position]
    OBVIOUS
  <2>3. all = frames \o later
    BY <2>2 DEF StreamInv, NothingLost, Payloads
  <2>4. w \in Seq(Bytes) /\ Position \in 1 .. Len(w) + 1
    BY <2>1, <2>2, Extended DEF Position
  <2>5. later \in Seq(Seq(Bytes))
    BY <2>2, <2>4, FoundType
  <2>6. PICK Payload : Payload = Seq(Bytes)
    OBVIOUS
  <2>7. frames \in Seq(Payload) /\ later \in Seq(Payload)
    BY <2>1, <2>5, <2>6
  <2>8. /\ Len(all) = Len(frames) + Len(later) /\ Len(later) \in Nat
        /\ \A i \in 1 .. Len(frames) : all[i] = frames[i]
    BY ONLY <2>3, <2>7, ConcatProperties
  <2>9. Len(all) \in Nat /\ Len(frames) <= Len(all)
    BY <2>1, <2>8
  <2>10. Decoded(all)[next - 1] = Decoded(frames)[next - 1]
    BY <2>1, <2>8, <2>9, DecodedGrows
  <2> QED
    BY <2>1, <2>2, <2>9, <2>10
<1> QED
  BY <1>1, <1>2, <1>3, StreamInvHolds, SourceTypeCorrect, PTL DEF SerialSpec
=============================================================================
