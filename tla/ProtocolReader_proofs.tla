------------------------ MODULE ProtocolReader_proofs ------------------------
(***************************************************************************)
(* Proofs, for any number of sockets that share a reader, any streams of   *)
(* frames and any cut of them by the network, that buffers stay framed,    *)
(* that consumers of responses run once and requests are answered in their *)
(* order, and that the reader keeps the promise of FrameDelivery.          *)
(***************************************************************************)
EXTENDS ProtocolReader, QueueLemmas

-----------------------------------------------------------------------------
(* Bits and bytes.                                                         *)

\* A quotient is not less for more bits.
LEMMA MoreBits ==
  ASSUME NEW b \in Nat \ {0}, NEW p \in Int, NEW q \in Int, p < q
  PROVE  b * p + b <= b * q
<1>1. PICK d \in Nat : q = p + 1 + d
  <2>1. q - p - 1 \in Nat /\ q = p + 1 + (q - p - 1)
    OBVIOUS
  <2> QED BY <2>1
<1>2. b * q = b * p + b + b * d
  BY <1>1
<1>3. b * d >= 0
  OBVIOUS
<1>4. b * p \in Int /\ b * q \in Int /\ b * d \in Int
  OBVIOUS
<1> QED BY <1>2, <1>3, <1>4

\* Division with remainder.
LEMMA Division ==
  ASSUME NEW b \in Nat \ {0}, NEW x \in Nat
  PROVE  /\ x \div b \in Nat /\ x % b \in 0 .. b - 1
         /\ x = b * (x \div b) + (x % b)
BY Z3

\* An offset of whole bytes is divided without a rest.
LEMMA WholeBytes ==
  ASSUME NEW q \in Nat
  PROVE  /\ BitsPerByte * q \in Nat
         /\ (BitsPerByte * q) \div BitsPerByte = q /\ (BitsPerByte * q) % BitsPerByte = 0
<1>1. BitsPerByte \in Nat \ {0}
  BY ReaderAssumption
<1>2. BitsPerByte * q \in Nat
  BY <1>1
<1> DEFINE d == (BitsPerByte * q) \div BitsPerByte
           r == (BitsPerByte * q) % BitsPerByte
<1>3. d \in Nat /\ r \in 0 .. BitsPerByte - 1 /\ BitsPerByte * q = BitsPerByte * d + r
  BY <1>1, <1>2, Division
<1> HIDE DEF d, r
<1>4. ~ (d < q) /\ ~ (q < d)
  <2>1. d < q => BitsPerByte * d + BitsPerByte <= BitsPerByte * q
    BY <1>1, <1>3, MoreBits
  <2>2. q < d => BitsPerByte * q + BitsPerByte <= BitsPerByte * d
    BY <1>1, <1>3, MoreBits
  <2>3. BitsPerByte * d \in Nat /\ BitsPerByte * q \in Nat
    BY <1>1, <1>3
  <2> QED BY <1>1, <1>3, <2>1, <2>2, <2>3
<1>5. d = q
  BY <1>3, <1>4
<1>6. r = 0
  BY <1>1, <1>2, <1>3, <1>5
<1> QED BY <1>2, <1>5, <1>6 DEF d, r

\* Rounding up: a number of bytes holds the bits when it is not less.
LEMMA RoundedUp ==
  ASSUME NEW bits \in Nat
  PROVE  /\ BitsToBytes(bits) \in Nat
         /\ \A n \in Nat : BitsPerByte * n >= bits <=> n >= BitsToBytes(bits)
<1>1. BitsPerByte \in Nat \ {0} /\ bits + BitsPerByte - 1 \in Nat
  BY ReaderAssumption
<1> DEFINE y == BitsToBytes(bits)
           r == (bits + BitsPerByte - 1) % BitsPerByte
<1>2. y \in Nat /\ r \in 0 .. BitsPerByte - 1 /\ bits + BitsPerByte - 1 = BitsPerByte * y + r
  BY <1>1, Division DEF BitsToBytes
<1> HIDE DEF y, r
<1>3. ASSUME NEW n \in Nat PROVE BitsPerByte * n >= bits <=> n >= y
  <2>1. BitsPerByte * y \in Nat /\ BitsPerByte * n \in Nat
    BY <1>1, <1>2
  <2>2. n < y => BitsPerByte * n + BitsPerByte <= BitsPerByte * y
    BY <1>1, <1>2, MoreBits
  <2>3. y < n => BitsPerByte * y + BitsPerByte <= BitsPerByte * n
    BY <1>1, <1>2, MoreBits
  <2> QED BY <1>1, <1>2, <2>1, <2>2, <2>3
<1> QED BY <1>2, <1>3 DEF y

\* Whole bytes in front are not rounded.
LEMMA RoundedBehind ==
  ASSUME NEW q \in Nat, NEW bits \in Nat
  PROVE  BitsToBytes(BitsPerByte * q + bits) = q + BitsToBytes(bits)
<1>1. BitsPerByte \in Nat \ {0} /\ BitsPerByte * q + bits \in Nat
  BY ReaderAssumption
<1> DEFINE y == BitsToBytes(bits)
           z == BitsToBytes(BitsPerByte * q + bits)
<1>2. y \in Nat /\ z \in Nat
  BY <1>1, RoundedUp
<1>3. \A n \in Nat : /\ BitsPerByte * n >= bits <=> n >= y
                     /\ BitsPerByte * n >= BitsPerByte * q + bits <=> n >= z
  BY <1>1, RoundedUp
<1> HIDE DEF y, z
<1>4. BitsPerByte * (q + y) = BitsPerByte * q + BitsPerByte * y
  BY <1>1, <1>2
<1>5. q + y >= z
  <2>1. BitsPerByte * y >= bits
    BY <1>2, <1>3
  <2>2. BitsPerByte * y \in Nat /\ BitsPerByte * q \in Nat
    BY <1>1, <1>2
  <2>3. BitsPerByte * (q + y) >= BitsPerByte * q + bits
    BY <1>4, <2>1, <2>2
  <2> QED BY <1>2, <1>3, <2>3
<1>6. z >= q + y
  <2>1. BitsPerByte * z >= BitsPerByte * q + bits
    BY <1>2, <1>3
  <2>2. BitsPerByte * z \in Nat /\ BitsPerByte * q \in Nat
    BY <1>1, <1>2
  <2>3. ~ (z < q)
    <3>1. z < q => BitsPerByte * z + BitsPerByte <= BitsPerByte * q
      BY <1>1, <1>2, MoreBits
    <3> QED BY <1>1, <2>1, <2>2, <3>1
  <2>4. PICK n \in Nat : z = q + n
    <3>1. z - q \in Nat /\ z = q + (z - q)
      BY <1>2, <2>3
    <3> QED BY <3>1
  <2>5. BitsPerByte * z = BitsPerByte * q + BitsPerByte * n
    BY <1>1, <2>4
  <2>6. BitsPerByte * n >= bits
    <3>1. BitsPerByte * n \in Nat
      BY <1>1
    <3> QED BY <2>1, <2>2, <2>5, <3>1
  <2>7. n >= y
    BY <1>3, <2>6
  <2> QED BY <1>2, <2>4, <2>7
<1>7. z = q + y
  BY <1>2, <1>5, <1>6
<1> QED BY <1>7 DEF y, z

-----------------------------------------------------------------------------
(* Streams.                                                                *)

\* The position of the first byte behind h frames.
Position(frames, h) == IF h < Len(frames) THEN frames[h + 1].first ELSE StreamLength(frames) + 1

\* Every frame has an identifier, and ends where the next one begins.
LEMMA FramesOfStream ==
  ASSUME NEW frames \in Streams, NEW k \in 1 .. Len(frames)
  PROVE  /\ frames[k] \in Frames /\ frames[k].first \in Nat
         /\ BitsToBytes(frames[k].bits) \in Nat
         /\ frames[k].bits \in Nat /\ frames[k].seq \in Nat
         /\ BitsToBytes(frames[k].bits) >= IdentifierBytes
         /\ After(frames[k]) = frames[k].first + BitsToBytes(frames[k].bits)
         /\ After(frames[k]) \in Nat /\ frames[k].first < After(frames[k])
         /\ frames[k].first = IF k = 1 THEN 1 ELSE After(frames[k - 1])
         /\ Len(frames) \in Nat
<1>1. frames \in Seq(Frames) /\ LaidOut(frames)
  BY ReaderAssumption
<1>2. Len(frames) \in Nat /\ DOMAIN frames = 1 .. Len(frames)
  BY <1>1, LenProperties
<1>3. frames[k] \in Frames
  BY <1>1, <1>2, ElementOfSeq
<1>4. /\ frames[k].bits \in Nat /\ frames[k].first \in Nat /\ frames[k].seq \in Nat
      /\ frames[k].bits >= BitsPerByte * IdentifierBytes
  BY <1>3, ReaderAssumption
<1>5. BitsToBytes(frames[k].bits) \in Nat /\ BitsToBytes(frames[k].bits) >= IdentifierBytes
  <2> DEFINE y == BitsToBytes(frames[k].bits)
             x == frames[k].bits
  <2>1. y \in Nat /\ \A n \in Nat : BitsPerByte * n >= x <=> n >= y
    BY <1>4, RoundedUp
  <2>2. x \in Nat /\ x >= BitsPerByte * IdentifierBytes /\ IdentifierBytes \in Nat /\ BitsPerByte \in Nat \ {0}
    BY <1>4, ReaderAssumption
  <2> HIDE DEF x, y
  <2>3. BitsPerByte * y >= x
    BY <2>1
  <2>4. y < IdentifierBytes => BitsPerByte * y + BitsPerByte <= BitsPerByte * IdentifierBytes
    BY <2>1, <2>2, MoreBits
  <2>5. BitsPerByte * y \in Nat /\ BitsPerByte * IdentifierBytes \in Nat
    BY <2>1, <2>2
  <2>6. y >= IdentifierBytes
    BY <2>1, <2>2, <2>3, <2>4, <2>5
  <2> QED BY <2>1, <2>6 DEF y
<1>6. frames[k].first = IF k = 1 THEN 1 ELSE After(frames[k - 1])
  BY <1>1 DEF LaidOut
<1>7. /\ After(frames[k]) = frames[k].first + BitsToBytes(frames[k].bits)
      /\ After(frames[k]) \in Nat /\ frames[k].first < After(frames[k])
  <2>1. IdentifierBytes \in Nat \ {0}
    BY ReaderAssumption
  <2> QED BY <1>4, <1>5, <2>1 DEF After
<1> QED BY <1>2, <1>3, <1>4, <1>5, <1>6, <1>7

\* Frames do not overlap.
LEMMA FramesApart ==
  ASSUME NEW frames \in Streams, NEW j \in 1 .. Len(frames), NEW k \in 1 .. Len(frames), j < k
  PROVE  After(frames[j]) <= frames[k].first
<1> DEFINE N == Len(frames)
           D == {i \in 1 .. N : j < i /\ ~ (After(frames[j]) <= frames[i].first)}
<1>1. N \in Nat /\ After(frames[j]) \in Nat
  BY FramesOfStream
<1>2. ASSUME D # {} PROVE FALSE
  <2>1. PICK i \in D : \A m \in D : i <= m
    <3>1. D \in SUBSET (1 .. N)
      OBVIOUS
    <3> HIDE DEF D, N
    <3> QED BY <1>1, <1>2, <3>1, SmallestElement
  <2>2. /\ i \in 1 .. Len(frames) /\ j < i /\ ~ (After(frames[j]) <= frames[i].first)
        /\ i - 1 \in 1 .. Len(frames) /\ i # 1 /\ i - 1 < i
    BY <1>1
  <2>3. frames[i].first = After(frames[i - 1])
    BY <2>2, FramesOfStream
  <2>4. i - 1 # j
    BY <1>1, <2>2, <2>3
  <2>5. i - 1 \notin D
    BY <1>1, <2>1, <2>2
  <2>6. After(frames[j]) <= frames[i - 1].first
    BY <1>1, <2>2, <2>4, <2>5
  <2>7. /\ frames[i - 1].first \in Nat /\ BitsToBytes(frames[i - 1].bits) \in Nat
        /\ After(frames[i - 1]) = frames[i - 1].first + BitsToBytes(frames[i - 1].bits)
    BY <2>2, FramesOfStream
  <2> QED BY <1>1, <2>2, <2>3, <2>6, <2>7
<1> QED BY <1>2

\* A frame is found by the position of its first byte.
LEMMA FramesDiffer ==
  ASSUME NEW frames \in Streams, NEW j \in 1 .. Len(frames), NEW k \in 1 .. Len(frames),
         frames[j].first = frames[k].first
  PROVE  j = k
<1>1. IdentifierBytes \in Nat \ {0}
  BY ReaderAssumption
<1>2. ASSUME NEW a \in 1 .. Len(frames), NEW b \in 1 .. Len(frames), a < b
      PROVE  frames[a].first < frames[b].first
  <2>1. /\ frames[a].first \in Nat /\ frames[b].first \in Nat
        /\ BitsToBytes(frames[a].bits) \in Nat /\ BitsToBytes(frames[a].bits) >= IdentifierBytes
        /\ After(frames[a]) = frames[a].first + BitsToBytes(frames[a].bits)
    BY FramesOfStream
  <2>2. After(frames[a]) <= frames[b].first
    BY <1>2, FramesApart
  <2> QED BY <1>1, <2>1, <2>2
<1>3. frames[j].first \in Nat /\ Len(frames) \in Nat
  BY FramesOfStream
<1>4. ~ (j < k) /\ ~ (k < j)
  BY <1>2, <1>3
<1> QED BY <1>3, <1>4

\* How far a reader is after h frames.
LEMMA PositionMoves ==
  ASSUME NEW frames \in Streams
  PROVE  /\ Len(frames) \in Nat /\ StreamLength(frames) \in Nat
         /\ Position(frames, 0) = 1
         /\ \A h \in 0 .. Len(frames) - 1 : Position(frames, h + 1) = After(frames[h + 1])
         /\ \A h \in 0 .. Len(frames) :
              /\ Position(frames, h) \in Nat
              /\ 1 <= Position(frames, h) /\ Position(frames, h) <= StreamLength(frames) + 1
<1>1. Len(frames) \in Nat /\ frames \in Seq(Frames) /\ (frames = <<>> <=> Len(frames) = 0)
  <2>1. frames \in Seq(Frames)
    BY ReaderAssumption
  <2> QED BY <2>1, LenProperties, EmptySeq
<1>3. \A k \in 1 .. Len(frames) :
        /\ frames[k].first \in Nat
        /\ After(frames[k]) \in Nat /\ frames[k].first < After(frames[k])
        /\ frames[k].first = IF k = 1 THEN 1 ELSE After(frames[k - 1])
  BY FramesOfStream
<1>4. StreamLength(frames) \in Nat
      /\ (Len(frames) # 0 => StreamLength(frames) + 1 = After(frames[Len(frames)]))
  <2>1. CASE Len(frames) = 0
    BY <1>1, <2>1 DEF StreamLength
  <2>2. CASE Len(frames) # 0
    <3>1. Len(frames) \in 1 .. Len(frames)
      BY <1>1, <2>2
    <3>2. After(frames[Len(frames)]) \in Nat /\ After(frames[Len(frames)]) >= 1
      BY <1>3, <3>1
    <3> QED BY <1>1, <2>2, <3>2 DEF StreamLength
  <2> QED BY <2>1, <2>2
<1>5. Position(frames, 0) = 1
  <2>1. CASE Len(frames) = 0
    BY <1>1, <2>1 DEF Position, StreamLength
  <2>2. CASE Len(frames) # 0
    <3>1. 1 \in 1 .. Len(frames) /\ 0 < Len(frames) /\ 0 + 1 = 1
      BY <1>1, <2>2
    <3>2. frames[1].first = 1
      BY <1>3, <3>1
    <3> QED BY <3>1, <3>2 DEF Position
  <2> QED BY <2>1, <2>2
<1>6. ASSUME NEW h \in 0 .. Len(frames) - 1
      PROVE  Position(frames, h + 1) = After(frames[h + 1])
  <2>1. CASE h + 1 = Len(frames)
    BY <1>1, <1>4, <2>1 DEF Position
  <2>2. CASE h + 1 # Len(frames)
    <3>1. h + 2 \in 1 .. Len(frames) /\ h + 1 < Len(frames) /\ (h + 1) + 1 = h + 2 /\ (h + 2) - 1 = h + 1 /\ h + 2 # 1
      BY <1>1, <2>2
    <3>2. frames[h + 2].first = After(frames[h + 1])
      BY <1>3, <3>1
    <3> QED BY <3>1, <3>2 DEF Position
  <2> QED BY <2>1, <2>2
<1>7. ASSUME NEW h \in 0 .. Len(frames)
      PROVE  /\ Position(frames, h) \in Nat
             /\ 1 <= Position(frames, h) /\ Position(frames, h) <= StreamLength(frames) + 1
  <2>1. CASE h = Len(frames)
    BY <1>1, <1>4, <2>1 DEF Position
  <2>2. CASE h # Len(frames)
    <3>1. h + 1 \in 1 .. Len(frames) /\ Len(frames) \in 1 .. Len(frames) /\ h < Len(frames)
      BY <1>1, <2>2
    <3>2. Position(frames, h) = frames[h + 1].first
      BY <3>1 DEF Position
    <3>3. frames[h + 1].first >= 1
      <4>1. CASE h = 0
        BY <1>3, <3>1, <4>1
      <4>2. CASE h # 0
        <5>1. h \in 1 .. Len(frames) /\ h + 1 # 1 /\ (h + 1) - 1 = h
          BY <1>1, <4>2
        <5>2. frames[h + 1].first = After(frames[h]) /\ After(frames[h]) >= 1
          BY <1>3, <3>1, <5>1
        <5> QED BY <5>2
      <4> QED BY <4>1, <4>2
    <3>4. frames[h + 1].first <= StreamLength(frames) + 1
      <4>1. CASE h + 1 = Len(frames)
        <5>1. StreamLength(frames) + 1 = After(frames[h + 1])
          BY <1>4, <3>1, <4>1
        <5> QED BY <1>3, <3>1, <5>1
      <4>2. CASE h + 1 # Len(frames)
        <5>1. After(frames[h + 1]) <= frames[Len(frames)].first
          BY <1>1, <3>1, <4>2, FramesApart
        <5>2. frames[h + 1].first < After(frames[h + 1]) /\ After(frames[h + 1]) \in Nat
          BY <1>3, <3>1
        <5>3. frames[Len(frames)].first < After(frames[Len(frames)]) /\ After(frames[Len(frames)]) \in Nat
          BY <1>3, <3>1
        <5>4. StreamLength(frames) + 1 = After(frames[Len(frames)])
          BY <1>4, <3>1
        <5>5. frames[h + 1].first \in Nat /\ frames[Len(frames)].first \in Nat
          BY <1>3, <3>1
        <5> QED BY <5>1, <5>2, <5>3, <5>4, <5>5
      <4> QED BY <4>1, <4>2
    <3> QED BY <1>3, <3>1, <3>2, <3>3, <3>4
  <2> QED BY <2>1, <2>2
<1> QED BY <1>1, <1>4, <1>5, <1>6, <1>7

-----------------------------------------------------------------------------
(* The inductive invariant.                                                *)

\* A buffer ends with the last byte that was delivered, and has no gap.
Buffered(s) ==
  /\ Len(inboundBytes[s]) <= delivered[s]
  /\ \A b \in 1 .. Len(inboundBytes[s]) :
       inboundBytes[s][b] = delivered[s] - Len(inboundBytes[s]) + b

\* Nobody reads a socket: its buffer begins with the first byte that was not
\* consumed, and lacks some of the frame there.
Waits(s) ==
  /\ delivered[s] + 1 - Len(inboundBytes[s]) = Unread(s)
  /\ Len(handled[s]) < Len(stream[s]) =>
       delivered[s] + 1 < After(stream[s][Len(handled[s]) + 1])

Framed == \A s \in open : Buffered(s) /\ (s # reading => Waits(s))

\* The offset of a read is at the first byte that was not consumed.
AtOffset(q) ==
  /\ inboundBitsOffset = BitsPerByte * q
  /\ delivered[reading] + 1 - Len(inboundBytes[reading]) + q = Unread(reading)
OffsetAtFrame ==
  reading # NoSocket =>
    reading \in open /\ \E q \in 0 .. Len(inboundBytes[reading]) : AtOffset(q)

Structure == TypeOK /\ Framed /\ OffsetAtFrame

\* The numbers that the invariant is about.
LEMMA SocketNumbers ==
  ASSUME TypeOK, NEW s \in Sockets
  PROVE  /\ stream[s] \in Streams /\ Len(stream[s]) \in Nat
         /\ handled[s] \in Seq(BOOLEAN) /\ Len(handled[s]) \in 0 .. Len(stream[s])
         /\ delivered[s] \in Nat /\ delivered[s] <= StreamLength(stream[s])
         /\ StreamLength(stream[s]) \in Nat
         /\ inboundBytes[s] \in Seq(Nat) /\ Len(inboundBytes[s]) \in Nat
         /\ Unread(s) = Position(stream[s], Len(handled[s]))
         /\ Unread(s) \in Nat /\ 1 <= Unread(s) /\ Unread(s) <= StreamLength(stream[s]) + 1
<1>1. /\ stream[s] \in Streams /\ handled[s] \in Seq(BOOLEAN) /\ Len(handled[s]) <= Len(stream[s])
      /\ delivered[s] \in Nat /\ delivered[s] <= StreamLength(stream[s])
      /\ inboundBytes[s] \in Seq(Nat)
  BY DEF TypeOK
<1>2. Len(stream[s]) \in Nat /\ StreamLength(stream[s]) \in Nat
  BY <1>1, PositionMoves
<1>3. Len(handled[s]) \in 0 .. Len(stream[s]) /\ Len(inboundBytes[s]) \in Nat
  BY <1>1, <1>2, LenProperties
<1>4. Unread(s) = Position(stream[s], Len(handled[s]))
  BY DEF Unread, Position
<1> QED BY <1>1, <1>2, <1>3, <1>4, PositionMoves

\* What the reader finds at its offset: the next frame of the stream, and
\* whether all of it has come.
LEMMA AtCurrent ==
  ASSUME Structure, reading # NoSocket,
         NEW q \in 0 .. Len(inboundBytes[reading]), AtOffset(q)
  PROVE  /\ reading \in open /\ reading \in Sockets
         /\ inboundBitsOffset \div BitsPerByte = q
         /\ IdentifierReceived =>
              /\ Len(handled[reading]) < Len(stream[reading])
              /\ Current = stream[reading][Len(handled[reading]) + 1]
              /\ Current \in Frames
              /\ CurrentReceived <=> After(Current) <= delivered[reading] + 1
         /\ ~IdentifierReceived /\ Len(handled[reading]) < Len(stream[reading]) =>
              delivered[reading] + 1 < After(stream[reading][Len(handled[reading]) + 1])
<1> DEFINE h == Len(handled[reading])
           n == Len(inboundBytes[reading])
           d == delivered[reading]
           u == Unread(reading)
           frames == stream[reading]
<1>1. reading \in open /\ reading \in Sockets /\ TypeOK /\ Buffered(reading)
  BY DEF Structure, OffsetAtFrame, TypeOK, Framed
<1>2. /\ frames \in Streams /\ Len(frames) \in Nat /\ h \in 0 .. Len(frames)
      /\ d \in Nat /\ d <= StreamLength(frames) /\ StreamLength(frames) \in Nat
      /\ n \in Nat /\ u = Position(frames, h)
  BY <1>1, SocketNumbers
<1>3. BitsPerByte \in Nat \ {0} /\ IdentifierBytes \in Nat \ {0} /\ q \in Nat
  BY <1>2, ReaderAssumption
<1>4. inboundBitsOffset = BitsPerByte * q /\ d + 1 - n + q = u
  BY DEF AtOffset
<1>5. inboundBitsOffset \div BitsPerByte = q
  BY <1>3, <1>4, WholeBytes
<1>6. IdentifierReceived <=> n >= q + IdentifierBytes
  BY <1>5 DEF IdentifierReceived
<1>7. ASSUME h < Len(frames)
      PROVE  /\ h + 1 \in 1 .. Len(frames) /\ u = frames[h + 1].first
             /\ frames[h + 1] \in Frames
             /\ frames[h + 1].bits \in Nat /\ BitsToBytes(frames[h + 1].bits) \in Nat
             /\ BitsToBytes(frames[h + 1].bits) >= IdentifierBytes
             /\ After(frames[h + 1]) = u + BitsToBytes(frames[h + 1].bits)
  <2>1. h + 1 \in 1 .. Len(frames)
    BY <1>2, <1>7
  <2>2. u = frames[h + 1].first
    BY <1>2, <1>7 DEF Position
  <2> QED BY <1>2, <2>1, <2>2, FramesOfStream
<1>8. ASSUME IdentifierReceived
      PROVE  /\ h < Len(frames) /\ Current = frames[h + 1]
             /\ CurrentReceived <=> After(Current) <= d + 1
  <2>1. n >= q + IdentifierBytes
    BY <1>6, <1>8
  <2>2. h < Len(frames)
    <3>1. h = Len(frames) => u = StreamLength(frames) + 1
      BY <1>2 DEF Position
    <3>2. u \in Nat /\ u < d + 1
      BY <1>2, <1>3, <1>4, <2>1, PositionMoves
    <3> QED BY <1>2, <3>1, <3>2
  <2>3. Current = frames[h + 1]
    <3>1. q + 1 \in 1 .. n
      BY <1>2, <1>3, <2>1
    <3>2. inboundBytes[reading][q + 1] = d - n + (q + 1)
      BY <1>1, <3>1 DEF Buffered
    <3>3. inboundBytes[reading][q + 1] = u
      <4>1. d - n + (q + 1) = d + 1 - n + q
        BY <1>2, <1>3
      <4> QED BY <1>4, <3>2, <4>1
    <3> DEFINE Found == {k \in 1 .. Len(frames) : frames[k].first = u}
    <3>4. h + 1 \in Found /\ \A k \in Found : k = h + 1
      BY <1>2, <1>7, <2>2, FramesDiffer
    <3>5. Found # {} /\ (CHOOSE k \in Found : TRUE) = h + 1
      <4> HIDE DEF Found
      <4> QED BY <3>4
    <3>6. Current = IF Found = {} THEN Misread ELSE frames[CHOOSE k \in Found : TRUE]
      <4>1. inboundBytes[reading][inboundBitsOffset \div BitsPerByte + 1] = u
        BY <1>5, <3>3
      <4> QED BY <4>1 DEF Current
    <3> QED BY <3>5, <3>6
  <2>4. CurrentReceived <=> After(Current) <= d + 1
    <3> DEFINE bits == frames[h + 1].bits
               y == BitsToBytes(bits)
    <3>1. bits \in Nat /\ y \in Nat /\ After(Current) = u + y /\ Current.bits = bits
      BY <1>7, <2>2, <2>3
    <3>2. CurrentReceived <=> BitsPerByte * n >= BitsPerByte * q + bits
      BY <1>4, <3>1 DEF CurrentReceived
    <3>3. BitsToBytes(BitsPerByte * q + bits) = q + y
      BY <1>3, <3>1, RoundedBehind
    <3>4. BitsPerByte * q + bits \in Nat
      BY <1>3, <3>1
    <3>5. BitsPerByte * n >= BitsPerByte * q + bits <=> n >= q + y
      BY <1>2, <3>3, <3>4, RoundedUp
    <3> HIDE DEF y, bits
    <3>6. n >= q + y <=> u + y <= d + 1
      BY <1>2, <1>3, <1>4, <3>1
    <3> QED BY <3>1, <3>2, <3>5, <3>6
  <2> QED BY <2>2, <2>3, <2>4
<1>9. ASSUME ~IdentifierReceived, h < Len(frames)
      PROVE  d + 1 < After(frames[h + 1])
  <2>1. n < q + IdentifierBytes
    BY <1>2, <1>3, <1>6, <1>9
  <2>2. PICK y \in Nat : y >= IdentifierBytes /\ After(frames[h + 1]) = u + y
    BY <1>7, <1>9
  <2> QED BY <1>2, <1>3, <1>4, <2>1, <2>2
<1> QED BY <1>1, <1>5, <1>7, <1>8, <1>9

-----------------------------------------------------------------------------
(* Every step keeps the invariant.                                         *)

\* Nothing is delivered or registered at first.
LEMMA StructureInit ==
  ASSUME Init
  PROVE  Structure
<1> USE ReaderAssumption
<1>1. <<>> \in Seq(Nat) /\ <<>> \in Seq(BOOLEAN) /\ Len(<<>>) = 0
  BY EmptySeq
<1>2. \A s \in Sockets :
        /\ stream[s] \in Streams /\ delivered[s] = 0 /\ Len(inboundBytes[s]) = 0
        /\ Len(handled[s]) = 0
  BY <1>1 DEF Init
<1>3. 0 % BitsPerByte = 0
  <2>1. BitsPerByte * 0 = 0
    OBVIOUS
  <2> QED BY <2>1, WholeBytes
<1>4. \A s \in Sockets : delivered[s] <= StreamLength(stream[s]) /\ Len(handled[s]) <= Len(stream[s])
  BY <1>2, PositionMoves
<1>5. TypeOK
  BY <1>1, <1>3, <1>4 DEF Init, TypeOK
<1>6. ASSUME NEW s \in Sockets PROVE Buffered(s) /\ Waits(s)
  <2>1. Buffered(s)
    BY <1>2 DEF Buffered
  <2>2. Unread(s) = 1
    BY <1>2, PositionMoves DEF Unread, Position
  <2>3. ASSUME 0 < Len(stream[s]) PROVE 1 < After(stream[s][1])
    <3>1. 1 \in 1 .. Len(stream[s])
      BY <1>2, <2>3, PositionMoves
    <3>2. stream[s][1].first = 1 /\ stream[s][1].first < After(stream[s][1])
      BY <1>2, <3>1, FramesOfStream
    <3> QED BY <3>2
  <2> QED BY <1>2, <2>1, <2>2, <2>3 DEF Waits
<1>7. Framed /\ OffsetAtFrame
  BY <1>6 DEF Init, Framed, OffsetAtFrame
<1> QED BY <1>5, <1>7 DEF Structure

\* A step that leaves the buffers, what was handled and the read alone.
LEMMA SameBuffers ==
  ASSUME Structure, UNCHANGED <<stream, delivered, inboundBytes, handled, open, reading, inboundBitsOffset>>
  PROVE  Framed' /\ OffsetAtFrame'
BY DEF Structure, Framed, OffsetAtFrame, AtOffset, Buffered, Waits, Unread

\* A socket that a step leaves alone.
LEMMA SameBuffer ==
  ASSUME Structure, NEW s \in open, s # reading,
         stream' = stream, delivered'[s] = delivered[s], inboundBytes'[s] = inboundBytes[s],
         handled'[s] = handled[s]
  PROVE  Buffered(s)' /\ Waits(s)'
<1>1. Buffered(s) /\ Waits(s)
  BY DEF Structure, Framed
<1> QED BY <1>1 DEF Buffered, Waits, Unread

\* Registrations.
LEMMA RegisterKeepsStructure ==
  ASSUME Structure,
         \/ \E id \in MessageRegistrations : RegisterInboundMessageConsumer(id)
         \/ \E id \in RequestRegistrations : RegisterInboundRequestConsumer(id)
         \/ RegisterInboundOneShotResponseConsumer
  PROVE  Structure'
<1>1. UNCHANGED <<stream, delivered, inboundBytes, outboundBytes, sentBytes, handled, open, reading,
                  inboundBitsOffset>>
  BY DEF RegisterInboundMessageConsumer, RegisterInboundRequestConsumer,
         RegisterInboundOneShotResponseConsumer
<1> DEFINE Goal == /\ inboundMessageConsumers' \subseteq MessageRegistrations
                   /\ inboundRequestConsumers' \subseteq RequestRegistrations
                   /\ inboundOneShotResponseConsumers' \subseteq SequenceNumbers
                   /\ sequencer' \in 0 .. MaxRequests
<1>2. Goal
  <2>1. /\ inboundMessageConsumers \subseteq MessageRegistrations
        /\ inboundRequestConsumers \subseteq RequestRegistrations
        /\ inboundOneShotResponseConsumers \subseteq SequenceNumbers
        /\ sequencer \in 0 .. MaxRequests
    BY DEF Structure, TypeOK
  <2>2. ASSUME NEW id \in MessageRegistrations, RegisterInboundMessageConsumer(id) PROVE Goal
    BY <2>1, <2>2 DEF RegisterInboundMessageConsumer
  <2>3. ASSUME NEW id \in RequestRegistrations, RegisterInboundRequestConsumer(id) PROVE Goal
    BY <2>1, <2>3 DEF RegisterInboundRequestConsumer
  <2>4. ASSUME RegisterInboundOneShotResponseConsumer PROVE Goal
    <3>1. /\ sequencer < MaxRequests /\ sequencer' = sequencer + 1
          /\ inboundOneShotResponseConsumers' = inboundOneShotResponseConsumers \cup {sequencer}
          /\ UNCHANGED <<inboundMessageConsumers, inboundRequestConsumers>>
      BY <2>4 DEF RegisterInboundOneShotResponseConsumer
    <3>2. sequencer \in SequenceNumbers /\ sequencer' \in 0 .. MaxRequests
      BY <2>1, <3>1, ReaderAssumption DEF SequenceNumbers
    <3> QED BY <2>1, <3>1, <3>2
  <2> QED BY <2>2, <2>3, <2>4
<1>3. TypeOK'
  BY <1>1, <1>2 DEF Structure, TypeOK
<1> QED BY <1>1, <1>3, SameBuffers DEF Structure

\* Bytes are put behind those of the same socket, and a read begins.
LEMMA ReceiveKeepsStructure ==
  ASSUME Structure, NEW s \in Sockets, ReceiveBytes(s)
  PROVE  Structure'
<1>1. /\ reading = NoSocket /\ s \in open /\ reading' = s /\ inboundBitsOffset' = 0
      /\ UNCHANGED <<stream, outboundBytes, sentBytes, consumers, open, handled>>
  BY DEF ReceiveBytes
<1>2. /\ TypeOK /\ Buffered(s) /\ Waits(s) /\ NoSocket \notin Sockets
  BY <1>1, ReaderAssumption DEF Structure, Framed
<1>3. /\ delivered[s] \in Nat /\ delivered[s] <= StreamLength(stream[s])
      /\ StreamLength(stream[s]) \in Nat
      /\ inboundBytes[s] \in Seq(Nat) /\ Len(inboundBytes[s]) \in Nat
      /\ Unread(s) \in Nat
  BY <1>2, SocketNumbers
<1> DEFINE d == delivered[s]
           m == Len(inboundBytes[s])
<1>4. PICK n \in 1 .. StreamLength(stream[s]) - d :
        /\ inboundBytes' = [inboundBytes EXCEPT ![s] = @ \o [b \in 1 .. n |-> d + b]]
        /\ delivered' = [delivered EXCEPT ![s] = @ + n]
  BY DEF ReceiveBytes
<1>5. n \in Nat /\ d + n <= StreamLength(stream[s])
  BY <1>3, <1>4
<1> DEFINE new == [b \in 1 .. n |-> d + b]
<1>6. new \in Seq(Nat) /\ Len(new) = n /\ \A b \in 1 .. n : new[b] = d + b
  <2>1. new \in Seq(Nat)
    BY <1>3, <1>5, IsASeq
  <2>2. DOMAIN new = 1 .. n
    OBVIOUS
  <2>3. Len(new) = n
    BY <1>5, <2>1, <2>2, LenProperties
  <2> QED BY <2>1, <2>3
<1> HIDE DEF new
<1>7. /\ delivered'[s] = d + n /\ delivered' \in [Sockets -> Nat]
      /\ inboundBytes'[s] = inboundBytes[s] \o new
      /\ \A t \in Sockets : t # s => delivered'[t] = delivered[t] /\ inboundBytes'[t] = inboundBytes[t]
  <2>1. delivered' = [delivered EXCEPT ![s] = d + n] /\ d + n \in Nat
    BY <1>3, <1>4, <1>5
  <2>2. inboundBytes' = [inboundBytes EXCEPT ![s] = inboundBytes[s] \o new]
    BY <1>4 DEF new
  <2>3. delivered \in [Sockets -> Nat] /\ inboundBytes \in [Sockets -> Seq(Nat)]
    BY <1>2 DEF TypeOK
  <2>4. delivered'[s] = d + n /\ delivered' \in [Sockets -> Nat]
    BY <2>1, <2>3
  <2>5. inboundBytes'[s] = inboundBytes[s] \o new
    BY <2>2, <2>3
  <2>6. \A t \in Sockets : t # s => delivered'[t] = delivered[t] /\ inboundBytes'[t] = inboundBytes[t]
    BY <2>1, <2>2, <2>3
  <2> QED BY <2>4, <2>5, <2>6
<1>8. /\ inboundBytes'[s] \in Seq(Nat) /\ Len(inboundBytes'[s]) = m + n
      /\ \A b \in 1 .. m + n :
           inboundBytes'[s][b] = IF b <= m THEN inboundBytes[s][b] ELSE new[b - m]
  <2> DEFINE old == inboundBytes[s]
  <2>1. old \in Seq(Nat) /\ new \in Seq(Nat)
    BY <1>3, <1>6
  <2> HIDE DEF old
  <2>2. /\ old \o new \in Seq(Nat) /\ Len(old \o new) = Len(old) + Len(new)
        /\ \A b \in 1 .. Len(old) + Len(new) :
             (old \o new)[b] = IF b <= Len(old) THEN old[b] ELSE new[b - Len(old)]
    BY <2>1, ConcatProperties
  <2>3. Len(new) = n /\ inboundBytes'[s] = old \o new
    BY <1>6, <1>7 DEF old
  <2> QED BY <2>2, <2>3 DEF old
<1>9. TypeOK'
  <2>1. inboundBytes' \in [Sockets -> Seq(Nat)]
    BY <1>2, <1>4, <1>7, <1>8 DEF TypeOK
  <2>2. \A t \in Sockets : delivered'[t] <= StreamLength(stream'[t]) /\ Len(handled'[t]) <= Len(stream'[t])
    BY <1>1, <1>2, <1>5, <1>7 DEF TypeOK
  <2>3. 0 % BitsPerByte = 0
    <3>1. BitsPerByte * 0 = 0
      BY ReaderAssumption
    <3> QED BY <3>1, WholeBytes
  <2> QED BY <1>1, <1>2, <1>7, <2>1, <2>2, <2>3 DEF TypeOK, consumers
<1>10. Buffered(s)'
  <2>1. m + n <= d + n
    BY <1>2, <1>3, <1>5 DEF Buffered
  <2>2. ASSUME NEW b \in 1 .. m + n PROVE inboundBytes'[s][b] = (d + n) - (m + n) + b
    <3>1. CASE b <= m
      <4>1. b \in 1 .. m
        BY <1>3, <1>5, <3>1
      <4>2. inboundBytes[s][b] = d - m + b
        BY <1>2, <4>1 DEF Buffered
      <4>3. d - m + b = (d + n) - (m + n) + b
        BY <1>3, <1>5
      <4> QED BY <1>8, <3>1, <4>2, <4>3
    <3>2. CASE ~ (b <= m)
      <4>1. b - m \in 1 .. n /\ d + (b - m) = (d + n) - (m + n) + b
        BY <1>3, <1>5, <3>2
      <4> QED BY <1>6, <1>8, <3>2, <4>1
    <3> QED BY <3>1, <3>2
  <2> QED BY <1>7, <1>8, <2>1, <2>2 DEF Buffered
<1>11. Framed'
  <2>1. ASSUME NEW t \in open, t # s PROVE Buffered(t)' /\ Waits(t)'
    <3>1. t \in Sockets /\ t # reading
      BY <1>1, <1>2 DEF TypeOK
    <3> QED BY <1>1, <1>7, <2>1, <3>1, SameBuffer
  <2> QED BY <1>1, <1>10, <2>1 DEF Framed
<1>12. OffsetAtFrame'
  <2>1. Unread(s)' = Unread(s)
    BY <1>1 DEF Unread
  <2>2. d + 1 - m = Unread(s)
    BY <1>2 DEF Waits
  <2>3. (d + n) + 1 - (m + n) + 0 = Unread(s)
    BY <1>3, <1>5, <2>2
  <2>4. BitsPerByte * 0 = 0
    BY ReaderAssumption
  <2>5. AtOffset(0)'
    BY <1>1, <1>7, <1>8, <2>1, <2>3, <2>4 DEF AtOffset
  <2>6. 0 \in 0 .. Len(inboundBytes'[s])
    BY <1>3, <1>5, <1>8
  <2> QED BY <1>1, <2>5, <2>6 DEF OffsetAtFrame
<1> QED BY <1>9, <1>11, <1>12 DEF Structure

\* A frame whose bytes are there is consumed: the reader goes to the next.
LEMMA ConsumeKeepsBuffers ==
  ASSUME Structure, reading # NoSocket, IdentifierReceived, CurrentReceived,
         NEW delivers \in BOOLEAN, Consume(delivers),
         UNCHANGED <<stream, delivered, inboundBytes, open, reading>>
  PROVE  /\ Framed' /\ OffsetAtFrame'
         /\ handled' \in [Sockets -> Seq(BOOLEAN)]
         /\ \A s \in Sockets : Len(handled'[s]) <= Len(stream[s])
         /\ inboundBitsOffset' \in Nat /\ inboundBitsOffset' % BitsPerByte = 0
<1> DEFINE h == Len(handled[reading])
           n == Len(inboundBytes[reading])
           d == delivered[reading]
           frames == stream[reading]
<1>1. PICK q \in 0 .. n : AtOffset(q)
  BY DEF Structure, OffsetAtFrame
<1>2. /\ reading \in open /\ reading \in Sockets /\ h < Len(frames)
      /\ Current = frames[h + 1] /\ After(Current) <= d + 1
  BY <1>1, AtCurrent
<1>3. TypeOK /\ Buffered(reading)
  BY <1>2 DEF Structure, Framed
<1>4. /\ frames \in Streams /\ Len(frames) \in Nat /\ h \in 0 .. Len(frames)
      /\ d \in Nat /\ n \in Nat /\ Unread(reading) = Position(frames, h)
      /\ handled[reading] \in Seq(BOOLEAN)
  BY <1>2, <1>3, SocketNumbers
<1>5. h + 1 \in 1 .. Len(frames) /\ h \in 0 .. Len(frames) - 1
  BY <1>2, <1>4
<1> DEFINE y == BitsToBytes(Current.bits)
<1>6. y \in Nat /\ Current.bits \in Nat /\ After(Current) = Unread(reading) + y /\ Unread(reading) \in Nat
  <2>1. /\ frames[h + 1].first \in Nat /\ BitsToBytes(frames[h + 1].bits) \in Nat
        /\ frames[h + 1].bits \in Nat
        /\ After(frames[h + 1]) = frames[h + 1].first + BitsToBytes(frames[h + 1].bits)
    BY <1>4, <1>5, FramesOfStream
  <2>2. Unread(reading) = frames[h + 1].first
    BY <1>2, <1>4 DEF Position
  <2> QED BY <1>2, <2>1, <2>2
<1>7. inboundBitsOffset' = BitsPerByte * (q + y)
  <2>1. inboundBitsOffset' = BitsPerByte * BitsToBytes(inboundBitsOffset + Current.bits)
    BY DEF Consume
  <2>2. inboundBitsOffset = BitsPerByte * q
    BY <1>1 DEF AtOffset
  <2> QED BY <1>4, <1>6, <2>1, <2>2, RoundedBehind
<1>8. handled' = [handled EXCEPT ![reading] = Append(handled[reading], delivers)]
  BY DEF Consume
<1>9. /\ Append(handled[reading], delivers) \in Seq(BOOLEAN)
      /\ Len(Append(handled[reading], delivers)) = h + 1
  BY <1>4, AppendProperties
<1>10. /\ handled' \in [Sockets -> Seq(BOOLEAN)] /\ Len(handled'[reading]) = h + 1
       /\ \A s \in Sockets : s # reading => handled'[s] = handled[s]
  BY <1>2, <1>3, <1>8, <1>9 DEF TypeOK
<1>11. \A s \in Sockets : Len(handled'[s]) <= Len(stream[s])
  <2>1. Len(handled'[reading]) <= Len(stream[reading])
    BY <1>5, <1>10
  <2>2. \A s \in Sockets : s # reading => Len(handled'[s]) <= Len(stream[s])
    BY <1>3, <1>10 DEF TypeOK
  <2> QED BY <2>1, <2>2
<1>12. inboundBitsOffset' \in Nat /\ inboundBitsOffset' % BitsPerByte = 0
  <2>1. q + y \in Nat
    BY <1>4, <1>6
  <2> QED BY <1>7, <2>1, WholeBytes
<1>13. Unread(reading)' = After(Current)
  <2>1. Unread(reading)' = Position(frames, h + 1)
    <3>1. stream' = stream /\ reading' = reading
      OBVIOUS
    <3>2. Unread(reading)' = IF h + 1 < Len(frames) THEN frames[(h + 1) + 1].first ELSE StreamLength(frames) + 1
      BY <3>1, <1>10 DEF Unread
    <3> QED BY <3>2 DEF Position
  <2>2. Position(frames, h + 1) = After(frames[h + 1])
    BY <1>4, <1>5, PositionMoves
  <2> QED BY <1>2, <2>1, <2>2
<1>14. Framed'
  <2>1. Buffered(reading)'
    BY <1>3 DEF Buffered
  <2>2. ASSUME NEW s \in open, s # reading PROVE Buffered(s)' /\ Waits(s)'
    <3>1. s \in Sockets
      BY <1>3 DEF TypeOK
    <3> QED BY <1>10, <2>2, <3>1, SameBuffer
  <2> QED BY <2>1, <2>2 DEF Framed
<1>15. OffsetAtFrame'
  <2>1. d + 1 - n + q = Unread(reading)
    BY <1>1 DEF AtOffset
  <2>2. d + 1 - n + (q + y) = After(Current) /\ q + y \in 0 .. n
    <3> DEFINE u == Unread(reading)
    <3>1. /\ d \in Nat /\ n \in Nat /\ q \in Nat /\ y \in Nat /\ u \in Nat
          /\ d + 1 - n + q = u /\ u + y <= d + 1 /\ After(Current) = u + y
      BY <1>2, <1>4, <1>6, <2>1
    <3> HIDE DEF d, n, y, u
    <3>2. d + 1 - n + (q + y) = u + y /\ q + y \in 0 .. n
      BY <3>1
    <3> QED BY <3>1, <3>2
  <2>3. PICK r \in 0 .. n : r = q + y
    BY <2>2
  <2>4. AtOffset(r)'
    <3>1. inboundBitsOffset' = BitsPerByte * r /\ d + 1 - n + r = Unread(reading)'
      BY <1>7, <1>13, <2>2, <2>3
    <3> QED BY <3>1 DEF AtOffset
  <2> QED BY <1>2, <2>4 DEF OffsetAtFrame
<1> QED BY <1>10, <1>11, <1>12, <1>14, <1>15

\* Whether a consumer is registered is a truth value.
LEMMA IsBoolean ==
  ASSUME NEW x, NEW S
  PROVE  (x \in S) \in BOOLEAN
OBVIOUS

\* What a protocol changes besides the offset.
LEMMA ReadProtocolKeepsStructure ==
  ASSUME Structure, ReadProtocol
  PROVE  Structure'
<1>1. /\ reading # NoSocket /\ IdentifierReceived /\ CurrentReceived
      /\ UNCHANGED <<stream, delivered, inboundBytes, sentBytes, open, reading>>
  BY DEF ReadProtocol
<1>2. TypeOK /\ reading \in Sockets
  BY <1>1 DEF Structure, TypeOK
<1>3. PICK hasConsumer \in BOOLEAN : Consume(hasConsumer)
  <2>1. CASE ReadInboundMessage
    <3>1. (Current.id \in inboundMessageConsumers) \in BOOLEAN
      BY IsBoolean
    <3> QED BY <2>1, <3>1 DEF ReadInboundMessage
  <2>2. CASE ReadInboundRequest
    <3>1. (Current.id \in inboundRequestConsumers) \in BOOLEAN
      BY IsBoolean
    <3> QED BY <2>2, <3>1 DEF ReadInboundRequest
  <2>3. CASE ReadInboundResponse
    <3>1. (Current.seq \in inboundOneShotResponseConsumers) \in BOOLEAN
      BY IsBoolean
    <3> QED BY <2>3, <3>1 DEF ReadInboundResponse
  <2> QED BY <2>1, <2>2, <2>3 DEF ReadProtocol
<1>4. /\ Framed' /\ OffsetAtFrame'
      /\ handled' \in [Sockets -> Seq(BOOLEAN)]
      /\ \A s \in Sockets : Len(handled'[s]) <= Len(stream[s])
      /\ inboundBitsOffset' \in Nat /\ inboundBitsOffset' % BitsPerByte = 0
  BY <1>1, <1>3, ConsumeKeepsBuffers
<1>5. Current.seq \in Nat
  <2>1. PICK q \in 0 .. Len(inboundBytes[reading]) : AtOffset(q)
    BY <1>1 DEF Structure, OffsetAtFrame
  <2>2. Current \in Frames
    BY <1>1, <2>1, AtCurrent
  <2> QED BY <2>2, ReaderAssumption
<1>6. outboundBytes' \in [Sockets -> Seq(Nat)]
  <2>1. outboundBytes \in [Sockets -> Seq(Nat)]
    BY <1>2 DEF TypeOK
  <2>2. Append(outboundBytes[reading], Current.seq) \in Seq(Nat)
    BY <1>2, <1>5, <2>1, AppendProperties
  <2>3. \/ outboundBytes' = outboundBytes
        \/ outboundBytes' = [outboundBytes EXCEPT ![reading] = Append(outboundBytes[reading], Current.seq)]
    BY DEF ReadProtocol, ReadInboundMessage, ReadInboundRequest, ReadInboundResponse
  <2> QED BY <2>1, <2>2, <2>3
<1>7. /\ inboundMessageConsumers' = inboundMessageConsumers
      /\ inboundRequestConsumers' = inboundRequestConsumers
      /\ inboundOneShotResponseConsumers' \subseteq inboundOneShotResponseConsumers
      /\ sequencer' = sequencer
  BY DEF ReadProtocol, ReadInboundMessage, ReadInboundRequest, ReadInboundResponse, consumers
<1>8. TypeOK'
  <2>1. \A s \in Sockets : delivered'[s] <= StreamLength(stream'[s]) /\ Len(handled'[s]) <= Len(stream'[s])
    BY <1>1, <1>2, <1>4 DEF TypeOK
  <2> QED BY <1>1, <1>2, <1>4, <1>6, <1>7, <2>1 DEF TypeOK
<1> QED BY <1>4, <1>8 DEF Structure

\* What becomes of the next frame of a socket is recorded.
Takes(delivers) == handled' = [handled EXCEPT ![reading] = Append(handled[reading], delivers)]

\* A frame that is handled is the next of its stream.
LEMMA Consumed ==
  ASSUME Structure, reading # NoSocket, IdentifierReceived, CurrentReceived,
         NEW delivers \in BOOLEAN, Takes(delivers)
  PROVE  LET h == Len(handled[reading])
         IN /\ reading \in open /\ reading \in Sockets
            /\ h \in Nat /\ h + 1 \in 1 .. Len(stream[reading]) /\ h + 1 \in 1 .. MaxFrames
            /\ Current = stream[reading][h + 1] /\ Current \in Frames
            /\ Len(handled'[reading]) = h + 1
            /\ handled'[reading][h + 1] = delivers
            /\ \A k \in 1 .. h : handled'[reading][k] = handled[reading][k]
            /\ \A s \in Sockets : s # reading => handled'[s] = handled[s]
<1> DEFINE h == Len(handled[reading])
<1>1. PICK q \in 0 .. Len(inboundBytes[reading]) : AtOffset(q)
  BY DEF Structure, OffsetAtFrame
<1>2. /\ reading \in open /\ reading \in Sockets /\ h < Len(stream[reading])
      /\ Current = stream[reading][h + 1] /\ Current \in Frames /\ TypeOK
  BY <1>1, AtCurrent DEF Structure
<1>3. /\ stream[reading] \in Streams /\ Len(stream[reading]) \in Nat
      /\ h \in 0 .. Len(stream[reading]) /\ handled[reading] \in Seq(BOOLEAN)
  BY <1>2, SocketNumbers
<1>4. Len(stream[reading]) <= MaxFrames /\ MaxFrames \in Nat
  BY <1>3, ReaderAssumption
<1>5. h \in Nat /\ h + 1 \in 1 .. Len(stream[reading]) /\ h + 1 \in 1 .. MaxFrames
  BY <1>2, <1>3, <1>4
<1>6. handled' = [handled EXCEPT ![reading] = Append(handled[reading], delivers)]
  BY DEF Takes
<1>7. /\ handled'[reading] = Append(handled[reading], delivers)
      /\ \A s \in Sockets : s # reading => handled'[s] = handled[s]
  BY <1>2, <1>6 DEF TypeOK
<1>8. /\ Len(handled'[reading]) = h + 1 /\ handled'[reading][h + 1] = delivers
      /\ \A k \in 1 .. h : handled'[reading][k] = handled[reading][k]
  BY <1>3, <1>7, AppendProperties
<1> QED BY <1>2, <1>5, <1>7, <1>8

\* The socket that is read is closed, and no other; its last frame may be a
\* request that was delivered.
LEMMA ThrowKeepsStructure ==
  ASSUME Structure, ReadThrows \/ ResponseThrows
  PROVE  Structure'
<1>1. /\ reading # NoSocket /\ reading' = NoSocket /\ open' = open \ {reading}
      /\ inboundBytes' = [inboundBytes EXCEPT ![reading] = <<>>]
      /\ outboundBytes' = [outboundBytes EXCEPT ![reading] = <<>>]
      /\ UNCHANGED <<stream, delivered, sentBytes, consumers, inboundBitsOffset>>
  BY DEF ReadThrows, ResponseThrows
<1>2. TypeOK /\ reading \in Sockets
  BY <1>1 DEF Structure, TypeOK
<1>3. /\ inboundBytes' \in [Sockets -> Seq(Nat)] /\ outboundBytes' \in [Sockets -> Seq(Nat)]
      /\ \A s \in Sockets : s # reading => inboundBytes'[s] = inboundBytes[s]
  <2>1. <<>> \in Seq(Nat) /\ inboundBytes \in [Sockets -> Seq(Nat)] /\ outboundBytes \in [Sockets -> Seq(Nat)]
    BY <1>2 DEF TypeOK
  <2> QED BY <1>1, <1>2, <2>1
<1>4. /\ handled' \in [Sockets -> Seq(BOOLEAN)]
      /\ \A s \in Sockets : Len(handled'[s]) <= Len(stream[s])
      /\ \A s \in Sockets : s # reading => handled'[s] = handled[s]
  <2>1. CASE ReadThrows
    BY <1>2, <2>1 DEF ReadThrows, TypeOK
  <2>2. CASE ResponseThrows
    <3>1. Takes(TRUE) /\ IdentifierReceived /\ CurrentReceived /\ TRUE \in BOOLEAN
      BY <2>2 DEF ResponseThrows, Takes
    <3>2. /\ Len(handled[reading]) + 1 \in 1 .. Len(stream[reading])
          /\ Len(handled'[reading]) = Len(handled[reading]) + 1
          /\ \A s \in Sockets : s # reading => handled'[s] = handled[s]
      BY <1>1, <3>1, Consumed
    <3>3. Append(handled[reading], TRUE) \in Seq(BOOLEAN)
      BY <1>2, AppendProperties DEF TypeOK
    <3>4. handled' \in [Sockets -> Seq(BOOLEAN)]
      BY <1>2, <3>1, <3>3 DEF Takes, TypeOK
    <3>5. Len(handled'[reading]) <= Len(stream[reading])
      BY <3>2
    <3> QED BY <1>2, <3>2, <3>4, <3>5 DEF TypeOK
  <2> QED BY <2>1, <2>2
<1>5. TypeOK'
  <2>1. \A s \in Sockets : delivered'[s] <= StreamLength(stream'[s]) /\ Len(handled'[s]) <= Len(stream'[s])
    BY <1>1, <1>2, <1>4 DEF TypeOK
  <2> QED BY <1>1, <1>2, <1>3, <1>4, <2>1 DEF TypeOK, consumers
<1>6. Framed'
  <2>1. ASSUME NEW s \in open, s # reading PROVE Buffered(s)' /\ Waits(s)'
    <3>1. s \in Sockets
      BY <1>2 DEF TypeOK
    <3> QED BY <1>1, <1>3, <1>4, <2>1, <3>1, SameBuffer
  <2> QED BY <1>1, <2>1 DEF Framed
<1>7. OffsetAtFrame'
  BY <1>1 DEF OffsetAtFrame
<1> QED BY <1>5, <1>6, <1>7 DEF Structure

\* The bytes in front of the offset are erased, and what is left is too
\* little for the next frame.
LEMMA ReturnKeepsStructure ==
  ASSUME Structure, ReturnFromRead
  PROVE  Structure'
<1> DEFINE n == Len(inboundBytes[reading])
           d == delivered[reading]
           h == Len(handled[reading])
<1>1. /\ reading # NoSocket /\ reading' = NoSocket
      /\ IdentifierReceived => ~CurrentReceived /\ Current.type # "unknown"
      /\ inboundBytes' = [inboundBytes EXCEPT ![reading] =
                            SubSeq(inboundBytes[reading], inboundBitsOffset \div BitsPerByte + 1, n)]
      /\ sentBytes' = [sentBytes EXCEPT ![reading] = sentBytes[reading] \o outboundBytes[reading]]
      /\ outboundBytes' = [outboundBytes EXCEPT ![reading] = <<>>]
      /\ UNCHANGED <<stream, delivered, consumers, open, inboundBitsOffset, handled>>
  BY DEF ReturnFromRead
<1>2. PICK q \in 0 .. n : AtOffset(q)
  BY <1>1 DEF Structure, OffsetAtFrame
<1>3. /\ reading \in open /\ reading \in Sockets /\ inboundBitsOffset \div BitsPerByte = q
      /\ TypeOK /\ Buffered(reading)
  BY <1>1, <1>2, AtCurrent DEF Structure, Framed
<1>4. /\ d \in Nat /\ n \in Nat /\ inboundBytes[reading] \in Seq(Nat) /\ q \in Nat /\ q <= n
      /\ Unread(reading) \in Nat
  BY <1>3, SocketNumbers
<1> DEFINE left == SubSeq(inboundBytes[reading], q + 1, n)
<1>5. left \in Seq(Nat) /\ Len(left) = n - q /\ \A b \in 1 .. n - q : left[b] = inboundBytes[reading][q + b]
  <2>1. q + 1 \in 1 .. n + 1 /\ q + 1 - 1 <= n /\ n \in Nat
    BY <1>4
  <2>2. \A i \in q + 1 .. n : inboundBytes[reading][i] \in Nat
    BY <1>4, ElementOfSeq
  <2>3. left \in Seq(Nat) /\ Len(left) = IF q + 1 <= n THEN n - (q + 1) + 1 ELSE 0
    BY <1>4, <2>1, <2>2, SubSeqProperties
  <2>4. \A b \in 1 .. n - (q + 1) + 1 : left[b] = inboundBytes[reading][q + 1 + b - 1]
    BY <1>4, <2>1, <2>2, SubSeqProperties
  <2> HIDE DEF left
  <2>5. Len(left) = n - q
    BY <1>4, <2>3
  <2>6. ASSUME NEW b \in 1 .. n - q PROVE left[b] = inboundBytes[reading][q + b]
    <3>1. b \in 1 .. n - (q + 1) + 1 /\ q + 1 + b - 1 = q + b
      BY <1>4
    <3> QED BY <2>4, <3>1
  <2> QED BY <2>3, <2>5, <2>6
<1>6. inboundBytes' = [inboundBytes EXCEPT ![reading] = left]
  BY <1>1, <1>3
<1> HIDE DEF left
<1>7. /\ inboundBytes' \in [Sockets -> Seq(Nat)] /\ inboundBytes'[reading] = left
      /\ \A s \in Sockets : s # reading => inboundBytes'[s] = inboundBytes[s]
  <2>1. inboundBytes \in [Sockets -> Seq(Nat)]
    BY <1>3 DEF TypeOK
  <2> QED BY <1>3, <1>5, <1>6, <2>1
<1>8. sentBytes' \in [Sockets -> Seq(Nat)] /\ outboundBytes' \in [Sockets -> Seq(Nat)]
  <2>1. <<>> \in Seq(Nat) /\ outboundBytes \in [Sockets -> Seq(Nat)] /\ sentBytes \in [Sockets -> Seq(Nat)]
    BY <1>3 DEF TypeOK
  <2>2. sentBytes[reading] \o outboundBytes[reading] \in Seq(Nat)
    BY <1>3, <2>1, ConcatProperties
  <2> QED BY <1>1, <1>3, <2>1, <2>2
<1>9. TypeOK'
  <2>1. \A s \in Sockets : delivered'[s] <= StreamLength(stream'[s]) /\ Len(handled'[s]) <= Len(stream'[s])
    BY <1>1, <1>3 DEF TypeOK
  <2> QED BY <1>1, <1>3, <1>7, <1>8, <2>1 DEF TypeOK, consumers
<1>10. Buffered(reading) /\ Len(left) <= d
       /\ \A b \in 1 .. Len(left) : left[b] = d - Len(left) + b
  <2>1. n <= d /\ \A b \in 1 .. n : inboundBytes[reading][b] = d - n + b
    BY <1>3 DEF Buffered
  <2>2. ASSUME NEW b \in 1 .. n - q PROVE left[b] = d - (n - q) + b
    <3>1. q + b \in 1 .. n /\ d - n + (q + b) = d - (n - q) + b
      BY <1>4
    <3> QED BY <1>5, <2>1, <3>1
  <2>3. n - q <= d
    BY <1>4, <2>1
  <2> QED BY <1>3, <1>5, <2>2, <2>3
<1>11. d + 1 - Len(left) = Unread(reading)
  <2>1. d + 1 - n + q = Unread(reading)
    BY <1>2 DEF AtOffset
  <2>2. Len(left) = n - q
    BY <1>5
  <2>3. d + 1 - (n - q) = d + 1 - n + q
    <3>1. d \in Int /\ n \in Int /\ q \in Int
      BY <1>4
    <3> HIDE DEF d, n
    <3> QED BY <3>1
  <2> QED BY <2>1, <2>2, <2>3
<1>12. ASSUME h < Len(stream[reading]) PROVE d + 1 < After(stream[reading][h + 1])
  <2>1. CASE IdentifierReceived
    <3>1. Current = stream[reading][h + 1] /\ (CurrentReceived <=> After(Current) <= d + 1)
      BY <1>1, <1>2, <2>1, AtCurrent
    <3>2. ~ (After(Current) <= d + 1)
      BY <1>1, <2>1, <3>1
    <3>3. After(stream[reading][h + 1]) \in Nat
      <4>1. stream[reading] \in Streams /\ h + 1 \in 1 .. Len(stream[reading])
        BY <1>3, <1>12, SocketNumbers
      <4> QED BY <4>1, FramesOfStream
    <3> QED BY <1>4, <3>1, <3>2, <3>3
  <2>2. CASE ~IdentifierReceived
    BY <1>1, <1>2, <1>12, <2>2, AtCurrent
  <2> QED BY <2>1, <2>2
<1>13. Framed'
  <2>1. ASSUME NEW s \in open, s # reading PROVE Buffered(s)' /\ Waits(s)'
    <3>1. s \in Sockets
      BY <1>3 DEF TypeOK
    <3> QED BY <1>1, <1>7, <2>1, <3>1, SameBuffer
  <2>2. ASSUME NEW s \in open, s = reading PROVE Buffered(s)' /\ Waits(s)'
    <3>1. Buffered(s)'
      BY <1>1, <1>7, <1>10, <2>2 DEF Buffered
    <3>2. Unread(s)' = Unread(s)
      BY <1>1 DEF Unread
    <3>3. Waits(s)'
      BY <1>1, <1>7, <1>11, <1>12, <2>2, <3>2 DEF Waits
    <3> QED BY <3>1, <3>3
  <2> QED BY <1>1, <2>1, <2>2 DEF Framed
<1>14. OffsetAtFrame'
  BY <1>1 DEF OffsetAtFrame
<1> QED BY <1>9, <1>13, <1>14 DEF Structure

\* Every step of the reader keeps the invariant.
LEMMA StructureStep ==
  ASSUME Structure, [Next]_vars
  PROVE  Structure'
<1>1. CASE UNCHANGED vars
  <2>1. TypeOK'
    BY <1>1 DEF Structure, TypeOK, vars, consumers
  <2> QED BY <1>1, <2>1, SameBuffers DEF Structure, vars
<1>2. CASE Next
  <2>1. ASSUME NEW s \in Sockets, ReceiveBytes(s) PROVE Structure'
    BY <2>1, ReceiveKeepsStructure
  <2>2. CASE ReadInboundBytes
    BY <2>2, ReadProtocolKeepsStructure, ThrowKeepsStructure, ReturnKeepsStructure DEF ReadInboundBytes
  <2>3. CASE \/ \E id \in MessageRegistrations : RegisterInboundMessageConsumer(id)
             \/ \E id \in RequestRegistrations : RegisterInboundRequestConsumer(id)
             \/ RegisterInboundOneShotResponseConsumer
    BY <2>3, RegisterKeepsStructure
  <2> QED BY <1>2, <2>1, <2>2, <2>3 DEF Next
<1> QED BY <1>1, <1>2

\* Every byte that was received is in the buffer of its socket until its
\* frame is consumed, whatever the network, the registrations and the other
\* sockets of the reader do.
THEOREM StructureInvariant == Spec => []Structure
<1>1. Init => Structure
  BY StructureInit
<1>2. Structure /\ [Next]_vars => Structure'
  BY StructureStep
<1> QED BY <1>1, <1>2, PTL DEF Spec

\* The variables keep their types; no socket handles more frames than its
\* peer sends.
THEOREM TypeCorrect == Spec => []TypeOK
<1>1. Structure => TypeOK
  BY DEF Structure
<1> QED BY <1>1, StructureInvariant, PTL

\* readInboundBytes erases exactly the bytes of the frames it consumed.
THEOREM BuffersAlwaysFramed == Spec => []BuffersFramed
<1>1. ASSUME Structure PROVE BuffersFramed
  <2> SUFFICES ASSUME NEW s \in open \ {reading}
               PROVE  /\ Unread(s) <= delivered[s] + 1
                      /\ inboundBytes[s] = [b \in 1 .. delivered[s] + 1 - Unread(s) |-> Unread(s) + b - 1]
                      /\ Len(handled[s]) < Len(stream[s]) =>
                           delivered[s] + 1 < After(stream[s][Len(handled[s]) + 1])
    BY DEF BuffersFramed
  <2>1. s \in Sockets /\ TypeOK /\ Buffered(s) /\ Waits(s)
    BY <1>1 DEF Structure, TypeOK, Framed
  <2> DEFINE d == delivered[s]
             n == Len(inboundBytes[s])
             u == Unread(s)
  <2>2. d \in Nat /\ n \in Nat /\ u \in Nat /\ inboundBytes[s] \in Seq(Nat)
    BY <2>1, SocketNumbers
  <2>3. d + 1 - n = u /\ n <= d
    BY <2>1 DEF Waits, Buffered
  <2>4. n = d + 1 - u
    BY <2>2, <2>3
  <2>5. \A b \in 1 .. n : inboundBytes[s][b] = u + b - 1
    <3>1. \A b \in 1 .. n : inboundBytes[s][b] = d - n + b
      BY <2>1 DEF Buffered
    <3>2. \A b \in 1 .. n : d - n + b = u + b - 1
      BY <2>2, <2>3
    <3> QED BY <3>1, <3>2
  <2>6. inboundBytes[s] = [b \in 1 .. n |-> inboundBytes[s][b]]
    BY <2>2, LenProperties
  <2>7. inboundBytes[s] = [b \in 1 .. n |-> u + b - 1]
    BY <2>5, <2>6
  <2> QED BY <2>1, <2>2, <2>3, <2>4, <2>7 DEF Waits
<1> QED BY <1>1, StructureInvariant, PTL

-----------------------------------------------------------------------------
(* What comes of a frame that is handled.                                  *)

\* A protocol that is read is a message, a request or a response, and whether
\* it is delivered depends on the consumers of its kind.
LEMMA ProtocolRead ==
  ASSUME Structure, ReadProtocol
  PROVE  /\ reading # NoSocket /\ IdentifierReceived /\ CurrentReceived
         /\ UNCHANGED <<stream, delivered, inboundBytes, sentBytes, open, reading>>
         /\ UNCHANGED <<inboundMessageConsumers, inboundRequestConsumers, sequencer>>
         /\ \E delivers \in BOOLEAN :
              /\ Takes(delivers)
              /\ \/ /\ Current.type = "message"
                    /\ delivers <=> Current.id \in inboundMessageConsumers
                    /\ UNCHANGED <<outboundBytes, inboundOneShotResponseConsumers>>
                 \/ /\ Current.type = "request"
                    /\ delivers <=> Current.id \in inboundRequestConsumers
                    /\ outboundBytes' = IF delivers
                         THEN [outboundBytes EXCEPT ![reading] = Append(outboundBytes[reading], Current.seq)]
                         ELSE outboundBytes
                    /\ UNCHANGED inboundOneShotResponseConsumers
                 \/ /\ Current.type = "response"
                    /\ delivers <=> Current.seq \in inboundOneShotResponseConsumers
                    /\ inboundOneShotResponseConsumers' =
                         inboundOneShotResponseConsumers \ {Current.seq}
                    /\ UNCHANGED outboundBytes
<1>1. /\ reading # NoSocket /\ IdentifierReceived /\ CurrentReceived
      /\ UNCHANGED <<stream, delivered, inboundBytes, sentBytes, open, reading>>
      /\ UNCHANGED <<inboundMessageConsumers, inboundRequestConsumers, sequencer>>
  BY DEF ReadProtocol, ReadInboundMessage, ReadInboundRequest, ReadInboundResponse, consumers
<1>2. CASE ReadInboundMessage
  <2> DEFINE b == Current.id \in inboundMessageConsumers
  <2>1. b \in BOOLEAN
    BY IsBoolean
  <2>2. Takes(b) /\ Current.type = "message" /\ UNCHANGED <<outboundBytes, inboundOneShotResponseConsumers>>
    BY <1>2 DEF ReadInboundMessage, Consume, Takes, consumers
  <2> QED BY <1>1, <2>1, <2>2
<1>3. CASE ReadInboundRequest
  <2> DEFINE b == Current.id \in inboundRequestConsumers
  <2>1. b \in BOOLEAN
    BY IsBoolean
  <2>2. /\ Takes(b) /\ Current.type = "request" /\ UNCHANGED inboundOneShotResponseConsumers
        /\ outboundBytes' = IF b
             THEN [outboundBytes EXCEPT ![reading] = Append(outboundBytes[reading], Current.seq)]
             ELSE outboundBytes
    BY <1>3 DEF ReadInboundRequest, Consume, Takes, consumers
  <2> QED BY <1>1, <2>1, <2>2
<1>4. CASE ReadInboundResponse
  <2> DEFINE b == Current.seq \in inboundOneShotResponseConsumers
  <2>1. b \in BOOLEAN
    BY IsBoolean
  <2>2. /\ Takes(b) /\ Current.type = "response" /\ UNCHANGED outboundBytes
        /\ inboundOneShotResponseConsumers' = inboundOneShotResponseConsumers \ {Current.seq}
    BY <1>4 DEF ReadInboundResponse, Consume, Takes
  <2> QED BY <1>1, <2>1, <2>2
<1> QED BY <1>2, <1>3, <1>4 DEF ReadProtocol

-----------------------------------------------------------------------------
(* Consumers of responses.                                                 *)

\* Either the consumer of a number still waits or was never registered, and
\* no response to it was delivered, or exactly one was.
OneShot ==
  /\ \A q \in inboundOneShotResponseConsumers : q < sequencer
  /\ \A q \in SequenceNumbers :
       IF q < sequencer /\ q \notin inboundOneShotResponseConsumers
       THEN \E p : DeliveredResponses(q) = {p}
       ELSE DeliveredResponses(q) = {}

\* A response that is consumed is delivered to its own number.
LEMMA ResponsesMove ==
  ASSUME Structure, reading # NoSocket, IdentifierReceived, CurrentReceived,
         NEW delivers \in BOOLEAN, Takes(delivers), stream' = stream, NEW q
  PROVE  DeliveredResponses(q)' =
           IF delivers /\ Current.type = "response" /\ Current.seq = q
           THEN DeliveredResponses(q) \cup {<<reading, Len(handled[reading]) + 1>>}
           ELSE DeliveredResponses(q)
<1> DEFINE h == Len(handled[reading])
           Is(p) == p[2] <= Len(handled[p[1]]) /\ handled[p[1]][p[2]]
                    /\ stream[p[1]][p[2]].type = "response" /\ stream[p[1]][p[2]].seq = q
           IsThen(p) == p[2] <= Len(handled'[p[1]]) /\ handled'[p[1]][p[2]]
                    /\ stream[p[1]][p[2]].type = "response" /\ stream[p[1]][p[2]].seq = q
           P == Sockets \X (1 .. MaxFrames)
           last == <<reading, h + 1>>
           new == delivers /\ Current.type = "response" /\ Current.seq = q
<1>1. /\ reading \in Sockets /\ h \in Nat /\ h + 1 \in 1 .. MaxFrames
      /\ Current = stream[reading][h + 1]
      /\ Len(handled'[reading]) = h + 1
      /\ handled'[reading][h + 1] = delivers
      /\ \A k \in 1 .. h : handled'[reading][k] = handled[reading][k]
      /\ \A s \in Sockets : s # reading => handled'[s] = handled[s]
  BY Consumed
<1>2. DeliveredResponses(q) = {p \in P : Is(p)} /\ DeliveredResponses(q)' = {p \in P : IsThen(p)}
  BY DEF DeliveredResponses
<1>3. last \in P /\ ~Is(last) /\ (IsThen(last) <=> new)
  BY <1>1
<1>4. ASSUME NEW p \in P, p # last PROVE IsThen(p) <=> Is(p)
  <2>1. p = <<p[1], p[2]>> /\ p[1] \in Sockets /\ p[2] \in 1 .. MaxFrames
    OBVIOUS
  <2>2. CASE p[1] # reading
    BY <1>1, <2>1, <2>2
  <2>3. CASE p[1] = reading /\ p[2] <= h
    <3>1. p[2] \in 1 .. h /\ p[2] <= h + 1
      BY <1>1, <2>1, <2>3
    <3> QED BY <1>1, <2>3, <3>1
  <2>4. CASE p[1] = reading /\ ~ (p[2] <= h)
    <3>1. p[2] # h + 1
      BY <1>4, <2>1, <2>4
    <3>2. ~ (p[2] <= h + 1) /\ MaxFrames \in Nat
      BY <1>1, <2>1, <2>4, <3>1, ReaderAssumption
    <3> QED BY <1>1, <2>4, <3>2
  <2> QED BY <2>2, <2>3, <2>4
<1> HIDE DEF P, Is, IsThen, new, last
<1>5. CASE new
  BY <1>2, <1>3, <1>4, <1>5 DEF new, last
<1>6. CASE ~new
  BY <1>2, <1>3, <1>4, <1>6 DEF new, last
<1> QED BY <1>5, <1>6

\* No request was sent and no response delivered at first.
LEMMA OneShotInit ==
  ASSUME Init
  PROVE  OneShot
<1>1. \A q : DeliveredResponses(q) = {}
  <2>1. \A s \in Sockets : Len(handled[s]) = 0
    BY EmptySeq DEF Init
  <2>2. \A p \in Sockets \X (1 .. MaxFrames) : p[1] \in Sockets /\ ~ (p[2] <= 0)
    BY ReaderAssumption
  <2> QED BY <2>1, <2>2 DEF DeliveredResponses
<1>2. \A q \in SequenceNumbers : ~ (q < 0)
  BY ReaderAssumption DEF SequenceNumbers
<1> QED BY <1>1, <1>2 DEF Init, OneShot

\* Each step uses up a consumer of responses at most once.
LEMMA OneShotStep ==
  ASSUME Structure, OneShot, [Next]_vars
  PROVE  OneShot'
<1>1. ASSUME UNCHANGED <<stream, handled, sequencer, inboundOneShotResponseConsumers>>
      PROVE  OneShot'
  <2>1. \A q : DeliveredResponses(q)' = DeliveredResponses(q)
    BY <1>1 DEF DeliveredResponses
  <2> QED BY <1>1, <2>1 DEF OneShot
<1>2. CASE RegisterInboundOneShotResponseConsumer
  <2>1. /\ sequencer' = sequencer + 1
        /\ inboundOneShotResponseConsumers' = inboundOneShotResponseConsumers \cup {sequencer}
        /\ UNCHANGED <<stream, handled>>
    BY <1>2 DEF RegisterInboundOneShotResponseConsumer
  <2>2. \A q : DeliveredResponses(q)' = DeliveredResponses(q)
    BY <2>1 DEF DeliveredResponses
  <2>3. sequencer \in Nat /\ SequenceNumbers \subseteq Nat /\ inboundOneShotResponseConsumers \subseteq Nat
    BY ReaderAssumption DEF Structure, TypeOK, SequenceNumbers
  <2>4. \A q \in inboundOneShotResponseConsumers' : q < sequencer'
    BY <2>1, <2>3 DEF OneShot
  <2>5. ASSUME NEW q \in SequenceNumbers
        PROVE  IF q < sequencer' /\ q \notin inboundOneShotResponseConsumers'
               THEN \E p : DeliveredResponses(q)' = {p} ELSE DeliveredResponses(q)' = {}
    <3>1. CASE q = sequencer
      <4>1. DeliveredResponses(q) = {}
        BY <2>3, <3>1 DEF OneShot
      <4> QED BY <2>1, <2>2, <3>1, <4>1
    <3>2. CASE q # sequencer
      <4>1. /\ q < sequencer' <=> q < sequencer
            /\ q \in inboundOneShotResponseConsumers' <=> q \in inboundOneShotResponseConsumers
        BY <2>1, <2>3, <3>2
      <4> QED BY <2>2, <4>1 DEF OneShot
    <3> QED BY <3>1, <3>2
  <2> QED BY <2>4, <2>5 DEF OneShot
<1>3. CASE ReadProtocol
  <2>1. /\ reading # NoSocket /\ IdentifierReceived /\ CurrentReceived
        /\ UNCHANGED <<stream, reading, sequencer>>
    BY <1>3, ProtocolRead
  <2>2. PICK delivers \in BOOLEAN :
          /\ Takes(delivers)
          /\ \/ Current.type # "response" /\ UNCHANGED inboundOneShotResponseConsumers
             \/ /\ Current.type = "response"
                /\ delivers <=> Current.seq \in inboundOneShotResponseConsumers
                /\ inboundOneShotResponseConsumers' = inboundOneShotResponseConsumers \ {Current.seq}
    BY <1>3, ProtocolRead
  <2>3. \A q : DeliveredResponses(q)' =
           IF delivers /\ Current.type = "response" /\ Current.seq = q
           THEN DeliveredResponses(q) \cup {<<reading, Len(handled[reading]) + 1>>}
           ELSE DeliveredResponses(q)
    BY <2>1, <2>2, ResponsesMove
  <2>4. \A q \in inboundOneShotResponseConsumers' : q < sequencer'
    BY <2>1, <2>2 DEF OneShot
  <2>5. ASSUME NEW q \in SequenceNumbers
        PROVE  IF q < sequencer' /\ q \notin inboundOneShotResponseConsumers'
               THEN \E p : DeliveredResponses(q)' = {p} ELSE DeliveredResponses(q)' = {}
    <3>1. CASE delivers /\ Current.type = "response" /\ Current.seq = q
      <4>1. q \in inboundOneShotResponseConsumers
        BY <2>2, <3>1
      <4>2. DeliveredResponses(q) = {} /\ q < sequencer
        BY <4>1 DEF OneShot
      <4>3. DeliveredResponses(q)' = {<<reading, Len(handled[reading]) + 1>>}
        BY <2>3, <3>1, <4>2
      <4>4. q < sequencer' /\ q \notin inboundOneShotResponseConsumers'
        BY <2>1, <2>2, <3>1, <4>2
      <4> QED BY <4>3, <4>4
    <3>2. CASE ~ (delivers /\ Current.type = "response" /\ Current.seq = q)
      <4>1. q \in inboundOneShotResponseConsumers' <=> q \in inboundOneShotResponseConsumers
        BY <2>2, <3>2
      <4>2. DeliveredResponses(q)' = DeliveredResponses(q)
        BY <2>3, <3>2
      <4> QED BY <2>1, <4>1, <4>2 DEF OneShot
    <3> QED BY <3>1, <3>2
  <2> QED BY <2>4, <2>5 DEF OneShot
<1>4. CASE ReadThrows \/ ReturnFromRead
  BY <1>1, <1>4 DEF ReadThrows, ReturnFromRead, consumers
<1>9. CASE ResponseThrows
  <2>1. /\ reading # NoSocket /\ IdentifierReceived /\ CurrentReceived /\ Current.type = "request"
        /\ Takes(TRUE) /\ TRUE \in BOOLEAN
        /\ UNCHANGED <<stream, sequencer, inboundOneShotResponseConsumers>>
    BY <1>9 DEF ResponseThrows, Takes, consumers
  <2>2. \A q : DeliveredResponses(q)' = DeliveredResponses(q)
    BY <2>1, ResponsesMove
  <2> QED BY <2>1, <2>2 DEF OneShot
<1>5. ASSUME NEW s \in Sockets, ReceiveBytes(s) PROVE OneShot'
  BY <1>1, <1>5 DEF ReceiveBytes, consumers
<1>6. CASE \E id \in MessageRegistrations : RegisterInboundMessageConsumer(id)
  BY <1>1, <1>6 DEF RegisterInboundMessageConsumer
<1>7. CASE \E id \in RequestRegistrations : RegisterInboundRequestConsumer(id)
  BY <1>1, <1>7 DEF RegisterInboundRequestConsumer
<1>8. CASE UNCHANGED vars
  BY <1>1, <1>8 DEF vars, consumers
<1> QED BY <1>2, <1>3, <1>4, <1>5, <1>6, <1>7, <1>8, <1>9 DEF Next, ReadInboundBytes

\* The callback of a request that was sent runs at most once, and only while
\* its consumer is registered.
THEOREM OneShotConsumersRunOnce == Spec => []OneShotConsumers
<1>1. Init => OneShot
  BY OneShotInit
<1>2. Structure /\ OneShot /\ [Next]_vars => OneShot'
  BY OneShotStep
<1>3. OneShot => OneShotConsumers
  <2>1. \A p : Cardinality({p}) = 1
    BY FS_Singleton
  <2>2. Cardinality({}) = 0
    BY FS_EmptySet
  <2> QED BY <2>1, <2>2 DEF OneShot, OneShotConsumers
<1> QED BY <1>1, <1>2, <1>3, StructureInvariant, PTL DEF Spec

-----------------------------------------------------------------------------
(* Answers to requests.                                                    *)

\* The answers so far are those of the first delivered requests.
InOrder(answers, D, frames) ==
  \A k \in D : LET n == Cardinality({j \in D : j <= k})
               IN n <= Len(answers) => answers[n] = frames[k].seq

\* Requests that were delivered are finitely many.
LEMMA PlacesFinite ==
  ASSUME NEW h \in Nat, NEW D \in SUBSET (1 .. h)
  PROVE  IsFiniteSet(D) /\ Cardinality(D) \in Nat /\ h + 1 \notin D
<1>1. 1 \in Int /\ h \in Int
  OBVIOUS
<1>2. IsFiniteSet(1 .. h)
  BY <1>1, FS_Interval
<1>3. IsFiniteSet(D)
  BY <1>2, FS_Subset
<1>4. \A k \in 1 .. h : k # h + 1
  OBVIOUS
<1> QED BY <1>3, <1>4, FS_CardinalityType

\* The place of a request among the delivered ones.
LEMMA Place ==
  ASSUME NEW h \in Nat, NEW D \in SUBSET (1 .. h), NEW k \in D
  PROVE  /\ IsFiniteSet(D) /\ Cardinality(D) \in Nat
         /\ Cardinality({j \in D : j <= k}) \in 1 .. Cardinality(D)
<1>1. IsFiniteSet(D)
  BY PlacesFinite
<1> DEFINE E == {j \in D : j <= k}
<1>2. E \in SUBSET D /\ k \in E
  OBVIOUS
<1>3. IsFiniteSet(E) /\ Cardinality(E) <= Cardinality(D)
  BY <1>1, <1>2, FS_Subset
<1>4. Cardinality(E) # 0
  BY <1>2, <1>3, FS_EmptySet
<1>5. Cardinality(E) \in Nat /\ Cardinality(D) \in Nat
  BY <1>1, <1>3, FS_CardinalityType
<1> QED BY <1>1, <1>3, <1>4, <1>5

\* One more request is delivered and answered.
LEMMA AnswerAppended ==
  ASSUME NEW h \in Nat, NEW D \in SUBSET (1 .. h), NEW answers \in Seq(Nat), NEW frames,
         frames[h + 1].seq \in Nat,
         Len(answers) = Cardinality(D), InOrder(answers, D, frames)
  PROVE  /\ Len(Append(answers, frames[h + 1].seq)) = Cardinality(D \cup {h + 1})
         /\ InOrder(Append(answers, frames[h + 1].seq), D \cup {h + 1}, frames)
<1> DEFINE x == frames[h + 1].seq
           more == Append(answers, x)
           E == D \cup {h + 1}
           m == Len(answers)
<1>1. IsFiniteSet(D) /\ h + 1 \notin D
  BY PlacesFinite
<1>2. Cardinality(E) = Cardinality(D) + 1
  BY <1>1, FS_AddElement
<1>3. /\ m \in Nat /\ Len(more) = m + 1 /\ more[m + 1] = x
      /\ \A i \in 1 .. m : more[i] = answers[i]
  BY AppendProperties, LenProperties
<1>4. ASSUME NEW k \in E
      PROVE  LET n == Cardinality({j \in E : j <= k}) IN n <= Len(more) => more[n] = frames[k].seq
  <2>1. CASE k = h + 1
    <3>1. {j \in E : j <= k} = E
      <4>1. \A j \in 1 .. h : j <= h + 1
        OBVIOUS
      <4>2. h + 1 <= h + 1
        OBVIOUS
      <4> QED BY <2>1, <4>1, <4>2
    <3> QED BY <1>2, <1>3, <2>1, <3>1
  <2>2. CASE k # h + 1
    <3>1. k \in D
      BY <2>2
    <3>2. {j \in E : j <= k} = {j \in D : j <= k}
      <4>1. ~ (h + 1 <= k)
        BY <3>1
      <4> QED BY <4>1
    <3> DEFINE n == Cardinality({j \in D : j <= k})
    <3>3. n \in 1 .. m
      BY <3>1, Place
    <3>4. answers[n] = frames[k].seq
      <4>1. n <= m => answers[n] = frames[k].seq
        BY <3>1 DEF InOrder
      <4> HIDE DEF n
      <4> QED BY <1>3, <3>3, <4>1
    <3>5. more[n] = frames[k].seq
      BY <1>3, <3>3, <3>4
    <3> QED BY <3>2, <3>5
  <2> QED BY <2>1, <2>2
<1>5. InOrder(more, E, frames)
  BY <1>4 DEF InOrder
<1> QED BY <1>2, <1>3, <1>5

\* The answers that were not sent are dropped.
LEMMA AnswersDropped ==
  ASSUME NEW h \in Nat, NEW D \in SUBSET (1 .. h), NEW sent \in Seq(Nat), NEW out \in Seq(Nat),
         NEW frames, Len(sent \o out) <= Cardinality(D), InOrder(sent \o out, D, frames)
  PROVE  Len(sent) <= Cardinality(D) /\ InOrder(sent, D, frames)
<1>1. /\ Len(sent) \in Nat /\ Len(out) \in Nat /\ Len(sent \o out) = Len(sent) + Len(out)
      /\ \A i \in 1 .. Len(sent) : (sent \o out)[i] = sent[i]
  <2>1. Len(sent) \in Nat /\ Len(out) \in Nat
    BY LenProperties
  <2>2. /\ Len(sent \o out) = Len(sent) + Len(out)
        /\ \A i \in 1 .. Len(sent) + Len(out) :
             (sent \o out)[i] = IF i <= Len(sent) THEN sent[i] ELSE out[i - Len(sent)]
    BY ConcatProperties
  <2>3. \A i \in 1 .. Len(sent) : i \in 1 .. Len(sent) + Len(out) /\ i <= Len(sent)
    BY <2>1
  <2> QED BY <2>1, <2>2, <2>3
<1>2. Cardinality(D) \in Nat
  BY PlacesFinite
<1>3. Len(sent) <= Cardinality(D)
  BY <1>1, <1>2
<1>4. ASSUME NEW k \in D
      PROVE  LET n == Cardinality({j \in D : j <= k}) IN n <= Len(sent) => sent[n] = frames[k].seq
  <2> DEFINE n == Cardinality({j \in D : j <= k})
  <2>1. n \in Nat /\ 1 <= n
    <3>1. n \in 1 .. Cardinality(D) /\ Cardinality(D) \in Nat
      BY Place
    <3> HIDE DEF n
    <3> QED BY <3>1
  <2>2. n <= Len(sent \o out) => (sent \o out)[n] = frames[k].seq
    <3>1. \A j \in D : LET m == Cardinality({i \in D : i <= j})
                      IN m <= Len(sent \o out) => (sent \o out)[m] = frames[j].seq
      BY DEF InOrder
    <3> QED BY <3>1
  <2> HIDE DEF n
  <2>3. ASSUME n <= Len(sent) PROVE sent[n] = frames[k].seq
    <3>1. n \in 1 .. Len(sent) /\ n <= Len(sent \o out)
      BY <1>1, <2>1, <2>3
    <3> QED BY <1>1, <2>2, <3>1
  <2> QED BY <2>3 DEF n
<1> QED BY <1>3, <1>4 DEF InOrder

\* The invariant, in the words of RequestsAnswered.
Answered(s) ==
  /\ IF s \in open THEN Len(Answers(s)) = Cardinality(DeliveredRequests(s))
                  ELSE Len(Answers(s)) <= Cardinality(DeliveredRequests(s))
  /\ InOrder(Answers(s), DeliveredRequests(s), stream[s])

\* The answers of a socket are a sequence of numbers.
LEMMA AnswersTyped ==
  ASSUME TypeOK, NEW s \in Sockets
  PROVE  /\ sentBytes[s] \in Seq(Nat) /\ outboundBytes[s] \in Seq(Nat) /\ Answers(s) \in Seq(Nat)
         /\ Len(handled[s]) \in Nat
         /\ DeliveredRequests(s) \in SUBSET (1 .. Len(handled[s]))
<1>1. sentBytes[s] \in Seq(Nat) /\ outboundBytes[s] \in Seq(Nat)
  BY DEF TypeOK
<1>2. Answers(s) \in Seq(Nat)
  BY <1>1, ConcatProperties DEF Answers
<1>3. Len(handled[s]) \in Nat
  BY SocketNumbers
<1> QED BY <1>1, <1>2, <1>3 DEF DeliveredRequests

\* A request that is consumed is delivered behind the others of its socket.
LEMMA RequestsMove ==
  ASSUME Structure, reading # NoSocket, IdentifierReceived, CurrentReceived,
         NEW delivers \in BOOLEAN, Takes(delivers), stream' = stream, NEW s \in Sockets
  PROVE  DeliveredRequests(s)' =
           IF s = reading /\ delivers /\ Current.type = "request"
           THEN DeliveredRequests(s) \cup {Len(handled[s]) + 1} ELSE DeliveredRequests(s)
<1> DEFINE h == Len(handled[reading])
<1>1. /\ reading \in Sockets /\ h \in Nat
      /\ Current = stream[reading][h + 1]
      /\ Len(handled'[reading]) = h + 1
      /\ handled'[reading][h + 1] = delivers
      /\ \A k \in 1 .. h : handled'[reading][k] = handled[reading][k]
      /\ \A t \in Sockets : t # reading => handled'[t] = handled[t]
  BY Consumed
<1>2. DeliveredRequests(s)' = {k \in 1 .. Len(handled'[s]) : handled'[s][k] /\ stream[s][k].type = "request"}
  BY DEF DeliveredRequests
<1>3. CASE s # reading
  BY <1>1, <1>2, <1>3 DEF DeliveredRequests
<1>4. CASE s = reading
  <2> DEFINE new == delivers /\ Current.type = "request"
             OldSet == {k \in 1 .. h : handled[s][k] /\ stream[s][k].type = "request"}
             NewSet == {k \in 1 .. h + 1 : handled'[s][k] /\ stream[s][k].type = "request"}
  <2>1. DeliveredRequests(s) = OldSet /\ DeliveredRequests(s)' = NewSet
    BY <1>1, <1>2, <1>4 DEF DeliveredRequests
  <2>2. \A k \in 1 .. h + 1 : k \in 1 .. h \/ k = h + 1
    BY <1>1
  <2>3. \A k \in 1 .. h : k \in 1 .. h + 1 /\ k # h + 1
    BY <1>1
  <2>4. h + 1 \in 1 .. h + 1
    BY <1>1
  <2>5. \A k \in 1 .. h : k \in NewSet <=> k \in OldSet
    BY <1>1, <1>4, <2>3
  <2>6. h + 1 \in NewSet <=> new
    BY <1>1, <1>4, <2>4
  <2>7. (\A k \in OldSet : k \in 1 .. h) /\ (\A k \in NewSet : k \in 1 .. h + 1)
    OBVIOUS
  <2> HIDE DEF OldSet, NewSet, new
  <2>8. CASE new
    <3>1. NewSet = OldSet \cup {h + 1}
      BY <2>2, <2>3, <2>5, <2>6, <2>7, <2>8
    <3> QED BY <1>4, <2>1, <2>8, <3>1 DEF new
  <2>9. CASE ~new
    <3>1. NewSet = OldSet
      BY <2>2, <2>3, <2>5, <2>6, <2>7, <2>9
    <3> QED BY <1>4, <2>1, <2>9, <3>1 DEF new
  <2> QED BY <2>8, <2>9
<1> QED BY <1>3, <1>4

\* The answer to the next request goes behind those before it.
LEMMA NextAnswer ==
  ASSUME TypeOK, NEW s \in Sockets, s \in open, Answered(s),
         NEW x \in Nat, x = stream[s][Len(handled[s]) + 1].seq
  PROVE  LET more == sentBytes[s] \o Append(outboundBytes[s], x)
             asked == DeliveredRequests(s) \cup {Len(handled[s]) + 1}
         IN /\ Append(outboundBytes[s], x) \in Seq(Nat)
            /\ more = Append(Answers(s), x)
            /\ Len(more) = Cardinality(asked)
            /\ InOrder(more, asked, stream[s])
<1>1. /\ sentBytes[s] \in Seq(Nat) /\ outboundBytes[s] \in Seq(Nat) /\ Answers(s) \in Seq(Nat)
      /\ Len(handled[s]) \in Nat /\ DeliveredRequests(s) \in SUBSET (1 .. Len(handled[s]))
  BY AnswersTyped
<1>2. Append(outboundBytes[s], x) \in Seq(Nat)
  BY <1>1, AppendProperties
<1>3. \A q \in Seq(Nat), r \in Seq(Nat) : q \o Append(r, x) = Append(q \o r, x)
  BY AppendIsConcat, ConcatAssociative, ConcatProperties
<1>4. sentBytes[s] \o Append(outboundBytes[s], x) = Append(Answers(s), x)
  BY <1>1, <1>3 DEF Answers
<1>5. /\ Len(Answers(s)) = Cardinality(DeliveredRequests(s))
      /\ InOrder(Answers(s), DeliveredRequests(s), stream[s])
  BY DEF Answered
<1>6. /\ Len(Append(Answers(s), x)) = Cardinality(DeliveredRequests(s) \cup {Len(handled[s]) + 1})
      /\ InOrder(Append(Answers(s), x), DeliveredRequests(s) \cup {Len(handled[s]) + 1}, stream[s])
  BY <1>1, <1>5, AnswerAppended
<1> QED BY <1>2, <1>4, <1>6

\* A socket whose answers and requests a step leaves alone.
LEMMA SameAnswers ==
  ASSUME NEW s \in Sockets, Answered(s), Answers(s)' = Answers(s), stream' = stream,
         DeliveredRequests(s)' = DeliveredRequests(s), s \in open' <=> s \in open
  PROVE  Answered(s)'
BY DEF Answered

\* Nothing is asked and nothing answered at first.
LEMMA AnsweredInit ==
  ASSUME Init, NEW s \in Sockets
  PROVE  Answered(s)
<1>1. Len(<<>>) = 0 /\ <<>> \o <<>> = <<>>
  BY EmptySeq
<1>2. sentBytes[s] = <<>> /\ outboundBytes[s] = <<>> /\ Len(handled[s]) = 0 /\ s \in open
  BY <1>1 DEF Init
<1>3. DeliveredRequests(s) = {} /\ Answers(s) = <<>>
  BY <1>1, <1>2 DEF DeliveredRequests, Answers
<1>4. Cardinality({}) = 0
  BY FS_EmptySet
<1> QED BY <1>1, <1>3, <1>4 DEF Answered, InOrder

\* Each step keeps the answers of every socket in step with its requests.
LEMMA AnsweredStep ==
  ASSUME Structure, \A s \in Sockets : Answered(s), [Next]_vars, NEW s \in Sockets
  PROVE  Answered(s)'
<1>1. TypeOK /\ Answered(s)
  BY DEF Structure
<1>2. ASSUME UNCHANGED <<stream, handled, open, sentBytes, outboundBytes>> PROVE Answered(s)'
  BY <1>1, <1>2, SameAnswers DEF Answers, DeliveredRequests
<1>3. CASE ReadProtocol
  <2>1. /\ reading # NoSocket /\ IdentifierReceived /\ CurrentReceived
        /\ UNCHANGED <<stream, reading, sentBytes, open>>
    BY <1>3, ProtocolRead
  <2>2. PICK delivers \in BOOLEAN :
          /\ Takes(delivers)
          /\ outboundBytes' = IF delivers /\ Current.type = "request"
                THEN [outboundBytes EXCEPT ![reading] = Append(outboundBytes[reading], Current.seq)]
                ELSE outboundBytes
    BY <1>3, ProtocolRead
  <2>3. DeliveredRequests(s)' =
           IF s = reading /\ delivers /\ Current.type = "request"
           THEN DeliveredRequests(s) \cup {Len(handled[s]) + 1} ELSE DeliveredRequests(s)
    BY <2>1, <2>2, RequestsMove
  <2>4. CASE s = reading /\ delivers /\ Current.type = "request"
    <3> DEFINE x == stream[s][Len(handled[s]) + 1].seq
    <3>1. Current = stream[s][Len(handled[s]) + 1] /\ Current \in Frames /\ s \in open
      BY <2>1, <2>2, <2>4, Consumed
    <3>2. x \in Nat
      BY <3>1, ReaderAssumption
    <3>3. outboundBytes'[s] = Append(outboundBytes[s], x)
      <4>1. outboundBytes' = [outboundBytes EXCEPT ![s] = Append(outboundBytes[s], x)]
        BY <2>2, <2>4, <3>1
      <4>2. outboundBytes \in [Sockets -> Seq(Nat)]
        BY <1>1 DEF TypeOK
      <4> QED BY <4>1, <4>2
    <3>4. /\ sentBytes[s] \o Append(outboundBytes[s], x) = Append(Answers(s), x)
          /\ Len(Append(Answers(s), x)) = Cardinality(DeliveredRequests(s) \cup {Len(handled[s]) + 1})
          /\ InOrder(Append(Answers(s), x), DeliveredRequests(s) \cup {Len(handled[s]) + 1}, stream[s])
      BY <1>1, <3>1, <3>2, NextAnswer
    <3>5. Answers(s)' = Append(Answers(s), x)
      BY <2>1, <3>3, <3>4 DEF Answers
    <3> QED BY <2>1, <2>3, <2>4, <3>1, <3>4, <3>5 DEF Answered
  <2>5. CASE ~ (s = reading /\ delivers /\ Current.type = "request")
    <3>1. outboundBytes'[s] = outboundBytes[s]
      BY <1>1, <2>2, <2>5 DEF TypeOK
    <3> QED BY <1>1, <2>1, <2>3, <2>5, <3>1, SameAnswers DEF Answers
  <2> QED BY <2>4, <2>5
<1>4. CASE ReadThrows
  <2>1. /\ open' = open \ {reading}
        /\ outboundBytes' = [outboundBytes EXCEPT ![reading] = <<>>]
        /\ UNCHANGED <<stream, handled, sentBytes>>
    BY <1>4 DEF ReadThrows
  <2>2. DeliveredRequests(s)' = DeliveredRequests(s)
    BY <2>1 DEF DeliveredRequests
  <2>3. CASE s # reading
    <3>1. outboundBytes'[s] = outboundBytes[s]
      BY <1>1, <2>1, <2>3 DEF TypeOK
    <3> QED BY <1>1, <2>1, <2>2, <2>3, <3>1, SameAnswers DEF Answers
  <2>4. CASE s = reading
    <3>1. sentBytes[s] \in Seq(Nat) /\ outboundBytes[s] \in Seq(Nat)
      BY <1>1, AnswersTyped
    <3>2. Answers(s)' = sentBytes[s]
      <4>1. outboundBytes'[s] = <<>>
        BY <1>1, <2>1, <2>4 DEF TypeOK
      <4>2. sentBytes[s] \o <<>> = sentBytes[s]
        BY <3>1, ConcatEmptySeq
      <4> QED BY <2>1, <4>1, <4>2 DEF Answers
    <3>3. Len(sentBytes[s] \o outboundBytes[s]) <= Cardinality(DeliveredRequests(s))
      <4> DEFINE c == Cardinality(DeliveredRequests(s))
                 a == Len(sentBytes[s] \o outboundBytes[s])
      <4>1. c \in Nat
        BY <1>1, AnswersTyped, PlacesFinite
      <4>2. a = c \/ a <= c
        BY <1>1 DEF Answered, Answers
      <4> HIDE DEF a, c
      <4>3. a <= c
        BY <4>1, <4>2
      <4> QED BY <4>3 DEF a, c
    <3>4. InOrder(sentBytes[s] \o outboundBytes[s], DeliveredRequests(s), stream[s])
      BY <1>1 DEF Answered, Answers
    <3>5. /\ Len(sentBytes[s]) <= Cardinality(DeliveredRequests(s))
          /\ InOrder(sentBytes[s], DeliveredRequests(s), stream[s])
      BY <1>1, <3>1, <3>3, <3>4, AnswersTyped, AnswersDropped
    <3>6. s \notin open'
      BY <2>1, <2>4
    <3> QED BY <2>1, <2>2, <3>2, <3>5, <3>6 DEF Answered
  <2> QED BY <2>3, <2>4
<1>5. CASE ReturnFromRead
  <2>1. /\ sentBytes' = [sentBytes EXCEPT ![reading] = sentBytes[reading] \o outboundBytes[reading]]
        /\ outboundBytes' = [outboundBytes EXCEPT ![reading] = <<>>]
        /\ UNCHANGED <<stream, handled, open>>
    BY <1>5 DEF ReturnFromRead
  <2>2. DeliveredRequests(s)' = DeliveredRequests(s)
    BY <2>1 DEF DeliveredRequests
  <2>3. CASE s # reading
    <3>1. outboundBytes'[s] = outboundBytes[s] /\ sentBytes'[s] = sentBytes[s]
      BY <1>1, <2>1, <2>3 DEF TypeOK
    <3> QED BY <1>1, <2>1, <2>2, <3>1, SameAnswers DEF Answers
  <2>4. CASE s = reading
    <3>1. outboundBytes'[s] = <<>> /\ sentBytes'[s] = sentBytes[s] \o outboundBytes[s]
      BY <1>1, <2>1, <2>4 DEF TypeOK
    <3>2. sentBytes[s] \o outboundBytes[s] \in Seq(Nat)
      BY <1>1, AnswersTyped DEF Answers
    <3>3. (sentBytes[s] \o outboundBytes[s]) \o <<>> = sentBytes[s] \o outboundBytes[s]
      BY <3>2, ConcatEmptySeq
    <3> QED BY <1>1, <2>1, <2>2, <3>1, <3>3, SameAnswers DEF Answers
  <2> QED BY <2>3, <2>4
<1>9. CASE ResponseThrows
  <2>1. /\ reading # NoSocket /\ IdentifierReceived /\ CurrentReceived /\ Current.type = "request"
        /\ Takes(TRUE) /\ TRUE \in BOOLEAN
        /\ open' = open \ {reading}
        /\ outboundBytes' = [outboundBytes EXCEPT ![reading] = <<>>]
        /\ UNCHANGED <<stream, sentBytes>>
    BY <1>9 DEF ResponseThrows, Takes
  <2>2. DeliveredRequests(s)' =
           IF s = reading THEN DeliveredRequests(s) \cup {Len(handled[s]) + 1} ELSE DeliveredRequests(s)
    BY <2>1, RequestsMove
  <2>3. CASE s # reading
    <3>1. outboundBytes'[s] = outboundBytes[s]
      BY <1>1, <2>1, <2>3 DEF TypeOK
    <3> QED BY <1>1, <2>1, <2>2, <2>3, <3>1, SameAnswers DEF Answers
  <2>4. CASE s = reading
    <3> DEFINE x == stream[s][Len(handled[s]) + 1].seq
               asked == DeliveredRequests(s) \cup {Len(handled[s]) + 1}
               out == Append(outboundBytes[s], x)
    <3>1. /\ Current = stream[s][Len(handled[s]) + 1] /\ Current \in Frames /\ s \in open
          /\ Len(handled[s]) + 1 \in 1 .. Len(handled'[s]) /\ Len(handled'[s]) \in Nat
      <4>1. LET h == Len(handled[reading])
            IN /\ h \in Nat /\ Current = stream[reading][h + 1] /\ Current \in Frames
               /\ reading \in open /\ Len(handled'[reading]) = h + 1
        BY <2>1, Consumed
      <4> QED BY <2>4, <4>1
    <3>2. x \in Nat
      BY <3>1, ReaderAssumption
    <3>3. sentBytes[s] \in Seq(Nat)
      BY <1>1, AnswersTyped
    <3>4. /\ out \in Seq(Nat) /\ Len(sentBytes[s] \o out) = Cardinality(asked)
          /\ InOrder(sentBytes[s] \o out, asked, stream[s])
      BY <1>1, <3>1, <3>2, NextAnswer
    <3>5. asked \in SUBSET (1 .. Len(handled'[s]))
      BY <2>2, <2>4 DEF DeliveredRequests
    <3> HIDE DEF asked, out
    <3>6. Cardinality(asked) \in Nat
      BY <3>1, <3>5, PlacesFinite
    <3>7. Len(sentBytes[s] \o out) <= Cardinality(asked)
      BY <3>4, <3>6
    <3>8. Len(sentBytes[s]) <= Cardinality(asked) /\ InOrder(sentBytes[s], asked, stream[s])
      BY <3>1, <3>3, <3>4, <3>5, <3>7, AnswersDropped
    <3>9. Answers(s)' = sentBytes[s]
      <4>1. outboundBytes'[s] = <<>>
        BY <1>1, <2>1, <2>4 DEF TypeOK
      <4>2. sentBytes[s] \o <<>> = sentBytes[s]
        BY <3>3, ConcatEmptySeq
      <4> QED BY <2>1, <4>1, <4>2 DEF Answers
    <3>10. DeliveredRequests(s)' = asked
      BY <2>2, <2>4 DEF asked
    <3>11. s \notin open'
      BY <2>1, <2>4
    <3> QED BY <2>1, <3>8, <3>9, <3>10, <3>11 DEF Answered
  <2> QED BY <2>3, <2>4
<1>6. ASSUME NEW t \in Sockets, ReceiveBytes(t) PROVE Answered(s)'
  BY <1>2, <1>6 DEF ReceiveBytes
<1>7. CASE \/ \E id \in MessageRegistrations : RegisterInboundMessageConsumer(id)
           \/ \E id \in RequestRegistrations : RegisterInboundRequestConsumer(id)
           \/ RegisterInboundOneShotResponseConsumer
  BY <1>2, <1>7 DEF RegisterInboundMessageConsumer, RegisterInboundRequestConsumer,
                    RegisterInboundOneShotResponseConsumer
<1>8. CASE UNCHANGED vars
  BY <1>2, <1>8 DEF vars
<1> QED BY <1>3, <1>4, <1>5, <1>6, <1>7, <1>8, <1>9 DEF Next, ReadInboundBytes

\* A peer gets the answers to its own requests, in the order of the requests;
\* what a socket that failed did not send, it does not send later.
THEOREM RequestsAlwaysAnswered == Spec => []RequestsAnswered
<1> DEFINE AllAnswered == \A s \in Sockets : Answered(s)
<1>1. Init => AllAnswered
  BY AnsweredInit
<1>2. Structure /\ AllAnswered /\ [Next]_vars => AllAnswered'
  BY AnsweredStep
<1>3. AllAnswered => RequestsAnswered
  BY DEF Answered, InOrder, RequestsAnswered
<1> HIDE DEF AllAnswered
<1> QED BY <1>1, <1>2, <1>3, StructureInvariant, PTL DEF Spec

-----------------------------------------------------------------------------
(* The refinement of FrameDelivery.                                        *)

\* A frame that is consumed is handled as FrameDelivery says.
LEMMA ReadHandles ==
  ASSUME Structure, ReadProtocol
  PROVE  Delivery!Handle(reading)
<1>1. /\ reading # NoSocket /\ IdentifierReceived /\ CurrentReceived
      /\ UNCHANGED <<stream, open, inboundMessageConsumers, inboundRequestConsumers>>
  BY ProtocolRead
<1>2. PICK delivers \in BOOLEAN :
        /\ Takes(delivers)
        /\ \/ /\ Current.type = "message"
              /\ delivers <=> Current.id \in inboundMessageConsumers
              /\ UNCHANGED inboundOneShotResponseConsumers
           \/ /\ Current.type = "request"
              /\ delivers <=> Current.id \in inboundRequestConsumers
              /\ UNCHANGED inboundOneShotResponseConsumers
           \/ /\ Current.type = "response"
              /\ delivers <=> Current.seq \in inboundOneShotResponseConsumers
              /\ inboundOneShotResponseConsumers' =
                   inboundOneShotResponseConsumers \ {Current.seq}
  BY ProtocolRead
<1> DEFINE h == Len(handled[reading])
<1>3. /\ reading \in open /\ reading \in Sockets /\ h \in Nat /\ h + 1 \in 1 .. Len(stream[reading])
      /\ Current = stream[reading][h + 1] /\ Current \in Frames
  BY <1>1, <1>2, Consumed
<1>4. Delivery!NextFrame(reading) = Current /\ h < Len(stream[reading])
  <2>1. stream[reading] \in Streams /\ TypeOK
    BY <1>3 DEF Structure, TypeOK
  <2>2. Len(stream[reading]) \in Nat
    BY <2>1, PositionMoves
  <2> QED BY <1>3, <2>2 DEF Delivery!NextFrame
<1>5. MessageIdentifiers \cap RequestIdentifiers = {}
  BY ReaderAssumption
<1>6. Delivery!HasConsumer(Current) \in BOOLEAN /\ (Delivery!HasConsumer(Current) <=> delivers)
  <2> DEFINE consuming == (inboundMessageConsumers \cap MessageIdentifiers)
                            \cup (inboundRequestConsumers \cap RequestIdentifiers)
  <2>1. CASE Current.type = "message"
    <3>1. Current.id \in MessageIdentifiers
      BY <1>3, <2>1 DEF MessageIdentifiers
    <3>2. Delivery!HasConsumer(Current) = (Current.id \in consuming)
      BY <2>1 DEF Delivery!HasConsumer
    <3> QED BY <1>2, <1>5, <2>1, <3>1, <3>2
  <2>2. CASE Current.type = "request"
    <3>1. Current.id \in RequestIdentifiers
      BY <1>3, <2>2 DEF RequestIdentifiers
    <3>2. Delivery!HasConsumer(Current) = (Current.id \in consuming)
      BY <2>2 DEF Delivery!HasConsumer
    <3> QED BY <1>2, <1>5, <2>2, <3>1, <3>2
  <2>3. CASE Current.type = "response"
    <3>1. Delivery!HasConsumer(Current) = (Current.seq \in inboundOneShotResponseConsumers)
      BY <2>3 DEF Delivery!HasConsumer
    <3> QED BY <1>2, <2>3, <3>1
  <2> QED BY <1>2, <2>1, <2>2, <2>3
<1>7. Delivery!HasConsumer(Current) = delivers
  BY <1>6
<1>8. handled' = [handled EXCEPT ![reading] = Append(handled[reading], delivers)]
  BY <1>2 DEF Takes
<1>9. inboundOneShotResponseConsumers' =
        IF Current.type = "response" THEN inboundOneShotResponseConsumers \ {Current.seq}
                                     ELSE inboundOneShotResponseConsumers
  BY <1>2
<1>10. Current.type \in {"message", "request", "response"}
  BY <1>2
<1> QED BY <1>1, <1>3, <1>4, <1>7, <1>8, <1>9, <1>10 DEF Delivery!Handle

\* A frame that cannot be read closes its socket.
LEMMA ThrowFails ==
  ASSUME Structure, ReadThrows
  PROVE  Delivery!Fail(reading)
<1>1. /\ reading # NoSocket /\ IdentifierReceived /\ Current.type \in {"unknown", "corrupt"}
      /\ open' = open \ {reading} /\ UNCHANGED <<stream, handled, consumers>>
  BY DEF ReadThrows
<1>2. PICK q \in 0 .. Len(inboundBytes[reading]) : AtOffset(q)
  BY <1>1 DEF Structure, OffsetAtFrame
<1>3. /\ reading \in open /\ Len(handled[reading]) < Len(stream[reading])
      /\ Current = stream[reading][Len(handled[reading]) + 1]
  BY <1>1, <1>2, AtCurrent
<1> QED BY <1>1, <1>3 DEF Delivery!Fail, Delivery!NextFrame, consumers

\* So does a response that cannot be written, after its request was delivered.
LEMMA ResponseThrowsFails ==
  ASSUME Structure, ResponseThrows
  PROVE  Delivery!HandleAndFail(reading)
<1>1. /\ reading # NoSocket /\ IdentifierReceived /\ CurrentReceived
      /\ Current.type = "request" /\ Current.id \in inboundRequestConsumers
      /\ Takes(TRUE) /\ TRUE \in BOOLEAN
      /\ open' = open \ {reading} /\ UNCHANGED <<stream, consumers>>
  BY DEF ResponseThrows, Takes
<1>2. PICK q \in 0 .. Len(inboundBytes[reading]) : AtOffset(q)
  BY <1>1 DEF Structure, OffsetAtFrame
<1>3. /\ reading \in open /\ Len(handled[reading]) < Len(stream[reading])
      /\ Current = stream[reading][Len(handled[reading]) + 1] /\ Current \in Frames
  BY <1>1, <1>2, AtCurrent
<1>4. Delivery!NextFrame(reading) = Current
  BY <1>3 DEF Delivery!NextFrame
<1>5. Delivery!HasConsumer(Current)
  BY <1>1, <1>3 DEF Delivery!HasConsumer, RequestIdentifiers
<1> QED BY <1>1, <1>3, <1>4, <1>5 DEF Delivery!HandleAndFail, Takes, consumers

\* A registration adds one consumer, or none of a kind that frames have.
LEMMA RegistrationDelivers ==
  ASSUME NEW id, NEW kind \in {MessageIdentifiers, RequestIdentifiers},
         UNCHANGED <<stream, handled, open, inboundOneShotResponseConsumers>>,
         LET consuming == (inboundMessageConsumers \cap MessageIdentifiers)
                            \cup (inboundRequestConsumers \cap RequestIdentifiers)
         IN consuming' = IF id \in kind THEN consuming \cup {id} ELSE consuming
  PROVE  [Delivery!DeliveryNext]_(Delivery!deliveryVars)
<1>1. CASE id \in kind
  <2>1. PICK f \in Frames : f.id = id
    BY <1>1 DEF MessageIdentifiers, RequestIdentifiers
  <2>2. Delivery!ConsumeFrames(f.id)
    BY <1>1, <2>1 DEF Delivery!ConsumeFrames
  <2> QED BY <2>2 DEF Delivery!DeliveryNext
<1>2. CASE id \notin kind
  BY <1>2 DEF Delivery!deliveryVars
<1> QED BY <1>1, <1>2

\* Each step of the reader is one of FrameDelivery or none.
LEMMA DeliveryStep ==
  ASSUME Structure, [Next]_vars
  PROVE  [Delivery!DeliveryNext]_(Delivery!deliveryVars)
<1>1. TypeOK
  BY DEF Structure
<1>2. ASSUME UNCHANGED <<stream, handled, open, consumers>> PROVE UNCHANGED Delivery!deliveryVars
  BY <1>2 DEF Delivery!deliveryVars, consumers, MessageIdentifiers, RequestIdentifiers
<1>3. CASE ReadProtocol
  <2>1. reading \in Sockets
    BY <1>1, <1>3 DEF TypeOK, ReadProtocol
  <2> QED BY <1>3, <2>1, ReadHandles DEF Delivery!DeliveryNext
<1>4. CASE ReadThrows
  <2>1. reading \in Sockets
    BY <1>1, <1>4 DEF TypeOK, ReadThrows
  <2> QED BY <1>4, <2>1, ThrowFails DEF Delivery!DeliveryNext
<1>11. CASE ResponseThrows
  <2>1. reading \in Sockets
    BY <1>1, <1>11 DEF TypeOK, ResponseThrows
  <2> QED BY <1>11, <2>1, ResponseThrowsFails DEF Delivery!DeliveryNext
<1>5. CASE ReturnFromRead
  BY <1>2, <1>5 DEF ReturnFromRead
<1>6. ASSUME NEW s \in Sockets, ReceiveBytes(s)
      PROVE  [Delivery!DeliveryNext]_(Delivery!deliveryVars)
  BY <1>2, <1>6 DEF ReceiveBytes
<1>7. ASSUME NEW id \in MessageRegistrations, RegisterInboundMessageConsumer(id)
      PROVE  [Delivery!DeliveryNext]_(Delivery!deliveryVars)
  <2>1. /\ inboundMessageConsumers' = inboundMessageConsumers \cup {id}
        /\ UNCHANGED <<stream, handled, open, inboundRequestConsumers, inboundOneShotResponseConsumers>>
    BY <1>7 DEF RegisterInboundMessageConsumer
  <2>2. MessageIdentifiers' = MessageIdentifiers /\ RequestIdentifiers' = RequestIdentifiers
    BY DEF MessageIdentifiers, RequestIdentifiers
  <2> QED BY <2>1, <2>2, RegistrationDelivers
<1>8. ASSUME NEW id \in RequestRegistrations, RegisterInboundRequestConsumer(id)
      PROVE  [Delivery!DeliveryNext]_(Delivery!deliveryVars)
  <2>1. /\ inboundRequestConsumers' = inboundRequestConsumers \cup {id}
        /\ UNCHANGED <<stream, handled, open, inboundMessageConsumers, inboundOneShotResponseConsumers>>
    BY <1>8 DEF RegisterInboundRequestConsumer
  <2>2. MessageIdentifiers' = MessageIdentifiers /\ RequestIdentifiers' = RequestIdentifiers
    BY DEF MessageIdentifiers, RequestIdentifiers
  <2> QED BY <2>1, <2>2, RegistrationDelivers
<1>9. CASE RegisterInboundOneShotResponseConsumer
  <2>1. PICK q \in SequenceNumbers : q = sequencer
    <3>1. sequencer \in 0 .. MaxRequests /\ sequencer < MaxRequests /\ MaxRequests \in Nat
      BY <1>1, <1>9, ReaderAssumption DEF TypeOK, RegisterInboundOneShotResponseConsumer
    <3> QED BY <3>1 DEF SequenceNumbers
  <2>2. Delivery!Await(q)
    BY <1>9, <2>1 DEF Delivery!Await, RegisterInboundOneShotResponseConsumer
  <2> QED BY <2>2 DEF Delivery!DeliveryNext
<1>10. CASE UNCHANGED vars
  BY <1>2, <1>10 DEF vars
<1> QED BY <1>3, <1>4, <1>5, <1>6, <1>7, <1>8, <1>9, <1>10, <1>11 DEF Next, ReadInboundBytes

\* Frames are handled as FrameDelivery promises, whatever pieces the network
\* makes of the streams.
THEOREM DeliveryImplemented == Spec => ImplementsDelivery
<1>1. Init => Delivery!DeliveryInit
  BY DEF Init, Delivery!DeliveryInit
<1>2. Structure /\ [Next]_vars => [Delivery!DeliveryNext]_(Delivery!deliveryVars)
  BY DeliveryStep
<1> QED BY <1>1, <1>2, StructureInvariant, PTL DEF Spec, ImplementsDelivery, Delivery!DeliverySpec
=============================================================================
