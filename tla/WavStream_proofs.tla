-------------------------- MODULE WavStream_proofs --------------------------
(***************************************************************************)
(* Theorems about WavStream, for every length of the header and of the     *)
(* frames, all rates, and streams of any length cut anywhere.              *)
(***************************************************************************)
EXTENDS WavStream, SequenceTheorems, TLAPS

USE StreamAssumption, RateAssumption
-----------------------------------------------------------------------------
(***************************************************************************)
(* Pieces of the stream.                                                   *)
(***************************************************************************)
LEMMA BytesTyped ==
    ASSUME NEW k \in Nat, NEW n \in Nat
    PROVE  /\ Bytes(k, n) \in Seq(Nat) /\ Len(Bytes(k, n)) = n
           /\ \A i \in 1..n : Bytes(k, n)[i] = k + i
<1>1. \A i \in 1..n : k + i \in Nat
  OBVIOUS
<1>2. Bytes(k, n) \in Seq(Nat)
  BY <1>1, IsASeq DEF Bytes
<1>3. Len(Bytes(k, n)) = n
  BY <1>2, LenProperties DEF Bytes
<1> QED BY <1>2, <1>3 DEF Bytes

\* Consecutive pieces make one piece.
LEMMA BytesConcat ==
    ASSUME NEW k \in Nat, NEW n \in Nat, NEW m \in Nat
    PROVE  Bytes(k, n) \o Bytes(k + n, m) = Bytes(k, n + m)
<1> DEFINE s == Bytes(k, n)
           t == Bytes(k + n, m)
           u == Bytes(k, n + m)
<1>s. s \in Seq(Nat) /\ Len(s) = n /\ \A i \in 1..n : s[i] = k + i
  BY BytesTyped
<1>t. t \in Seq(Nat) /\ Len(t) = m /\ \A i \in 1..m : t[i] = (k + n) + i
  <2>1. k + n \in Nat
    OBVIOUS
  <2> QED BY <2>1, BytesTyped
<1>u. u \in Seq(Nat) /\ Len(u) = n + m /\ \A i \in 1..(n + m) : u[i] = k + i
  <2>1. n + m \in Nat
    OBVIOUS
  <2> QED BY <2>1, BytesTyped
<1> HIDE DEF s, t, u
<1>1. s \in Seq(Nat) /\ t \in Seq(Nat) /\ u \in Seq(Nat) /\ Len(u) = n + m
  BY <1>s, <1>t, <1>u
<1>2. /\ s \o t \in Seq(Nat) /\ Len(s \o t) = n + m
      /\ \A i \in 1..(n + m) : (s \o t)[i] = IF i <= n THEN s[i] ELSE t[i - n]
  BY <1>s, <1>t, ConcatProperties
<1>3. ASSUME NEW i \in 1..(n + m) PROVE (s \o t)[i] = u[i]
  <2>1. CASE i <= n
    <3>1. i \in 1..n
      BY <2>1
    <3> QED BY <1>2, <1>s, <1>u, <2>1, <3>1
  <2>2. CASE ~ (i <= n)
    <3>1. i - n \in 1..m /\ (k + n) + (i - n) = k + i
      BY <2>2
    <3> QED BY <1>2, <1>t, <1>u, <2>2, <3>1
  <2> QED BY <2>1, <2>2
<1>4. s \o t = u
  BY <1>1, <1>2, <1>3, SeqEqual
<1> QED BY <1>4 DEF s, t, u

\* A part of a piece is a piece.
LEMMA BytesPart ==
    ASSUME NEW k \in Nat, NEW n \in Nat, NEW i \in 0..n, NEW j \in i..n
    PROVE  SubSeq(Bytes(k, n), i + 1, j) = Bytes(k + i, j - i)
<1> DEFINE s == Bytes(k, n)
           u == Bytes(k + i, j - i)
<1>s. s \in Seq(Nat) /\ Len(s) = n /\ \A x \in 1..n : s[x] = k + x
  BY BytesTyped
<1>u. u \in Seq(Nat) /\ Len(u) = j - i /\ \A x \in 1..(j - i) : u[x] = (k + i) + x
  <2>1. k + i \in Nat /\ j - i \in Nat
    OBVIOUS
  <2> QED BY <2>1, BytesTyped
<1> HIDE DEF s, u
<1>1. i \in Nat /\ j \in Nat /\ j - i \in Nat
  OBVIOUS
<1>2. /\ SubSeq(s, i + 1, j) \in Seq(Nat)
      /\ Len(SubSeq(s, i + 1, j)) = j - i
      /\ \A x \in 1..(j - i) : SubSeq(s, i + 1, j)[x] = s[i + x]
  BY <1>1, <1>s, SubSeqProperties
<1>3. ASSUME NEW x \in 1..(j - i) PROVE SubSeq(s, i + 1, j)[x] = u[x]
  <2>1. i + x \in 1..n /\ k + (i + x) = (k + i) + x
    BY <1>1
  <2> QED BY <1>2, <1>s, <1>u, <2>1
<1>4. SubSeq(s, i + 1, j) = u
  BY <1>u, <1>2, <1>3, SeqEqual
<1> QED BY <1>4 DEF s, u
-----------------------------------------------------------------------------
(***************************************************************************)
(* Rounding.                                                               *)
(***************************************************************************)
\* round() is off by at most one half.
LEMMA RoundIsClose ==
    ASSUME NEW a \in Nat, NEW b \in Nat \ {0}
    PROVE  /\ Round(a, b) \in Nat
           /\ 2 * (b * Round(a, b) - a) <= b
           /\ 2 * (a - b * Round(a, b)) <= b
<1> DEFINE q == a \div b
           r == a % b
<1>1. q \in Nat /\ r \in Nat /\ r < b /\ a = b * q + r
  OBVIOUS
<1>2. b * (q + 1) = b * q + b
  BY <1>1
<1> HIDE DEF q, r
<1>3. Round(a, b) = q \/ Round(a, b) = q + 1
  BY DEF Round, q, r
<1>4. CASE Round(a, b) = q
  <2>1. 2 * r <= b
    BY <1>1, <1>4 DEF Round, q, r
  <2> QED BY <1>1, <1>4, <2>1
<1>5. CASE Round(a, b) = q + 1
  <2>1. 2 * r >= b
    BY <1>1, <1>5 DEF Round, q, r
  <2> QED BY <1>1, <1>2, <1>5, <2>1
<1> QED BY <1>3, <1>4, <1>5

\* The length of a resampled piece is off by at most one telephone sample, and
\* nothing comes of nothing.
LEMMA ResampledIsClose ==
    ASSUME NEW n \in Nat
    PROVE  /\ Resampled(n) \in Nat
           /\ n = 0 => Resampled(n) = 0
           /\ SourceRate * Resampled(n) - TargetRate * n <= SourceRate
           /\ TargetRate * n - SourceRate * Resampled(n) <= SourceRate
<1> DEFINE length == Round(n * TargetRate, SourceRate)
<1>1. n * TargetRate \in Nat /\ TargetRate * n = n * TargetRate
  OBVIOUS
<1>2. /\ length \in Nat
      /\ 2 * (SourceRate * length - n * TargetRate) <= SourceRate
      /\ 2 * (n * TargetRate - SourceRate * length) <= SourceRate
  BY <1>1, RoundIsClose
<1> HIDE DEF length
<1>3. CASE n = 0 \/ SourceRate = TargetRate
  BY <1>3 DEF Resampled
<1>4. CASE n # 0 /\ SourceRate # TargetRate
  <2>1. Resampled(n) = IF length < 1 THEN 1 ELSE length
    BY <1>4 DEF Resampled, length
  <2>2. SourceRate * length \in Nat
    BY <1>2
  <2>3. length < 1 => SourceRate * length = 0
    BY <1>2
  <2> QED BY <1>1, <1>2, <1>4, <2>1, <2>2, <2>3
<1> QED BY <1>3, <1>4
-----------------------------------------------------------------------------
(***************************************************************************)
(* The steps.                                                              *)
(***************************************************************************)
LEMMA BytesNone ==
    ASSUME NEW k \in Nat
    PROVE  Bytes(k, 0) = <<>>
<1>1. Bytes(k, 0) \in Seq(Nat) /\ Len(Bytes(k, 0)) = 0
  BY BytesTyped
<1> QED BY <1>1, EmptySeq

\* The whole samples of the first n bytes.
LEMMA WholeBytesEven ==
    ASSUME NEW n \in Nat, n >= HeaderBytes
    PROVE  /\ WholeBytes(n) \in Nat /\ WholeBytes(n) % 2 = 0
           /\ (n - HeaderBytes) % 2 \in Nat
           /\ WholeBytes(n) + ((n - HeaderBytes) % 2) = n - HeaderBytes
BY DEF WholeBytes

\* What push() has in its buffer once the header is gone: what has arrived
\* and was not returned.
LEMMA RestIsStream ==
    ASSUME IInv, NEW n \in Nat,
           headerConsumed \/ Len(buffer) + n >= HeaderBytes
    PROVE  LET all == buffer \o Bytes(received, n)
               rest == IF headerConsumed THEN all
                       ELSE SubSeq(all, HeaderBytes + 1, Len(all))
               done == IF headerConsumed THEN WholeBytes(received) ELSE 0
           IN  /\ received + n >= HeaderBytes
               /\ done \in Nat /\ done % 2 = 0
               /\ HeaderBytes + done <= received + n
               /\ decoded = Bytes(HeaderBytes, done)
               /\ rest = Bytes(HeaderBytes + done, (received + n) - (HeaderBytes + done))
<1> DEFINE all == buffer \o Bytes(received, n)
<1>1. received \in Nat
  BY DEF IInv, TypeOK
<1>2. CASE headerConsumed
  <2> DEFINE done == WholeBytes(received)
             odd == (received - HeaderBytes) % 2
  <2>1. /\ received >= HeaderBytes
        /\ decoded = Bytes(HeaderBytes, done)
        /\ buffer = Bytes(HeaderBytes + done, odd)
    BY <1>2 DEF IInv, BufferInv
  <2>2. /\ done \in Nat /\ done % 2 = 0 /\ odd \in Nat
        /\ done + odd = received - HeaderBytes
    BY <1>1, <2>1, WholeBytesEven
  <2> HIDE DEF done, odd
  <2>3. received = (HeaderBytes + done) + odd /\ HeaderBytes + done \in Nat
    BY <1>1, <2>2
  <2>4. all = Bytes(HeaderBytes + done, odd + n)
    BY <2>1, <2>2, <2>3, BytesConcat
  <2>5. odd + n = (received + n) - (HeaderBytes + done)
    BY <1>1, <2>2, <2>3
  <2>6. received + n >= HeaderBytes /\ HeaderBytes + done <= received + n
    BY <1>1, <2>1, <2>2
  <2> QED BY <1>2, <2>1, <2>2, <2>4, <2>5, <2>6 DEF done
<1>3. CASE ~headerConsumed
  <2>1. decoded = <<>> /\ buffer = Bytes(0, received)
    BY <1>3 DEF IInv, BufferInv
  <2>2. Len(buffer) = received
    BY <1>1, <2>1, BytesTyped
  <2>3. all = Bytes(0, received + n)
    <3>1. Bytes(0, received) \o Bytes(0 + received, n) = Bytes(0, received + n)
      BY <1>1, BytesConcat
    <3> QED BY <1>1, <2>1, <3>1
  <2>4. received + n \in Nat /\ received + n >= HeaderBytes
    BY <1>1, <1>3, <2>2
  <2>5. Len(all) = received + n
    BY <2>3, <2>4, BytesTyped
  <2>6. SubSeq(all, HeaderBytes + 1, Len(all))
          = Bytes(0 + HeaderBytes, (received + n) - HeaderBytes)
    <3> DEFINE total == received + n
    <3>0. total \in Nat /\ total >= HeaderBytes /\ all = Bytes(0, total) /\ Len(all) = total
      BY <2>3, <2>4, <2>5
    <3> HIDE DEF all, total
    <3>1. HeaderBytes \in 0..total /\ total \in HeaderBytes..total
      BY <3>0
    <3>2. SubSeq(Bytes(0, total), HeaderBytes + 1, total) = Bytes(0 + HeaderBytes, total - HeaderBytes)
      BY <3>0, <3>1, BytesPart
    <3>3. SubSeq(all, HeaderBytes + 1, Len(all)) = Bytes(0 + HeaderBytes, total - HeaderBytes)
      BY <3>0, <3>2
    <3> QED BY <3>3 DEF all, total
  <2>7. decoded = Bytes(HeaderBytes, 0)
    BY <2>1, BytesNone
  <2> QED BY <1>3, <2>4, <2>6, <2>7
<1> QED BY <1>2, <1>3

LEMMA PushBuffer ==
    ASSUME IInv, NEW n \in 1..MaxBytes, PushSamples(n)
    PROVE  \E whole \in Nat :
              /\ whole % 2 = 0
              /\ Emit(Resampled(whole \div 2))
              /\ pieces' = IF whole > 0 THEN pieces + 1 ELSE pieces
              /\ Len(decoded) \in Nat /\ Len(decoded) % 2 = 0
              /\ Len(decoded') = Len(decoded) + whole
              /\ BufferInv'
              /\ decoded' \in Seq(Nat) /\ buffer' \in Seq(Nat)
<1> DEFINE all == buffer \o Bytes(received, n)
           rest == IF headerConsumed THEN all
                   ELSE SubSeq(all, HeaderBytes + 1, Len(all))
           done == IF headerConsumed THEN WholeBytes(received) ELSE 0
           size == (received + n) - (HeaderBytes + done)
           whole == Whole(rest)
<1>1. /\ received \in Nat /\ n \in Nat
      /\ headerConsumed \/ Len(buffer) + n >= HeaderBytes
  BY DEF IInv, TypeOK, PushSamples
<1>2. /\ received' = received + n /\ headerConsumed' = TRUE
      /\ decoded' = decoded \o SubSeq(rest, 1, whole)
      /\ buffer' = SubSeq(rest, whole + 1, Len(rest))
      /\ pieces' = IF whole > 0 THEN pieces + 1 ELSE pieces
      /\ Emit(Resampled(whole \div 2))
  BY DEF PushSamples
<1>3. /\ received + n >= HeaderBytes
      /\ done \in Nat /\ done % 2 = 0
      /\ HeaderBytes + done <= received + n
      /\ decoded = Bytes(HeaderBytes, done)
      /\ rest = Bytes(HeaderBytes + done, size)
  BY <1>1, RestIsStream
<1> HIDE DEF all, rest, done
<1>4. size \in Nat /\ HeaderBytes + done \in Nat
  BY <1>1, <1>3
<1> HIDE DEF size
<1>5. Len(rest) = size
  BY <1>3, <1>4, BytesTyped
<1>6. whole = size - (size % 2)
  BY <1>5 DEF Whole
<1> HIDE DEF whole
<1>7. whole \in 0..size /\ whole \in Nat /\ whole % 2 = 0 /\ size - whole \in Nat
  BY <1>4, <1>6
<1>8. SubSeq(rest, 1, whole) = Bytes(HeaderBytes + done, whole)
  <2>1. 0 \in 0..size /\ whole \in 0..size
    BY <1>7, <1>4
  <2>2. SubSeq(Bytes(HeaderBytes + done, size), 0 + 1, whole)
          = Bytes((HeaderBytes + done) + 0, whole - 0)
    BY <1>4, <2>1, BytesPart
  <2>3. 0 + 1 = 1 /\ (HeaderBytes + done) + 0 = HeaderBytes + done /\ whole - 0 = whole
    BY <1>4, <1>7
  <2> QED BY <1>3, <2>2, <2>3
<1>9. SubSeq(rest, whole + 1, Len(rest))
        = Bytes((HeaderBytes + done) + whole, size - whole)
  <2>1. whole \in 0..size /\ size \in whole..size
    BY <1>4, <1>7
  <2>2. SubSeq(Bytes(HeaderBytes + done, size), whole + 1, size)
          = Bytes((HeaderBytes + done) + whole, size - whole)
    BY <1>4, <2>1, BytesPart
  <2> QED BY <1>3, <1>5, <2>2
<1>10. decoded' = Bytes(HeaderBytes, done + whole)
  <2>1. Bytes(HeaderBytes, done) \o Bytes(HeaderBytes + done, whole)
          = Bytes(HeaderBytes, done + whole)
    BY <1>3, <1>7, BytesConcat
  <2> QED BY <1>2, <1>3, <1>8, <2>1
<1>11. /\ WholeBytes(received + n) = done + whole
       /\ ((received + n) - HeaderBytes) % 2 = size - whole
       /\ (HeaderBytes + done) + whole = HeaderBytes + (done + whole)
  <2>1. (received + n) - HeaderBytes = done + size
    BY <1>1, <1>3 DEF size
  <2>2. (done + size) % 2 = size % 2
    BY <1>3, <1>4
  <2>3. size - whole = size % 2
    BY <1>4, <1>6
  <2>4. WholeBytes(received + n) = (done + size) - ((done + size) % 2)
    <3>1. WholeBytes(received + n)
            = ((received + n) - HeaderBytes) - (((received + n) - HeaderBytes) % 2)
      BY Zenon DEF WholeBytes
    <3> QED BY <3>1, <2>1, Zenon
  <2>5. (HeaderBytes + done) + whole = HeaderBytes + (done + whole)
    BY <1>3, <1>7
  <2>6. (done + size) - (size % 2) = done + whole
    BY <1>3, <1>4, <1>6, <1>7
  <2> QED BY <2>1, <2>2, <2>3, <2>4, <2>5, <2>6
<1>12. BufferInv'
  <2>1. WholeBytes(received') = done + whole
    BY <1>2, <1>11, Zenon
  <2>2. decoded' = Bytes(HeaderBytes, WholeBytes(received'))
    BY <1>10, <2>1, Zenon
  <2>3. buffer' = Bytes(HeaderBytes + WholeBytes(received'), (received' - HeaderBytes) % 2)
    <3>1. (received' - HeaderBytes) % 2 = size - whole
      BY <1>2, <1>11, Zenon
    <3>2. buffer' = Bytes(HeaderBytes + (done + whole), size - whole)
      BY <1>2, <1>9, <1>11, Zenon
    <3> QED BY <2>1, <3>1, <3>2, Zenon
  <2>4. received' >= HeaderBytes
    BY <1>2, <1>3
  <2> QED BY <1>2, <2>2, <2>3, <2>4 DEF BufferInv
<1>13. /\ Len(decoded) = done
       /\ Len(decoded') = done + whole /\ decoded' \in Seq(Nat)
       /\ buffer' \in Seq(Nat)
  <2>1. done + whole \in Nat /\ (HeaderBytes + done) + whole \in Nat
    BY <1>3, <1>4, <1>7
  <2>2. Len(Bytes(HeaderBytes, done)) = done
    BY <1>3, BytesTyped
  <2>3. /\ Len(Bytes(HeaderBytes, done + whole)) = done + whole
        /\ Bytes(HeaderBytes, done + whole) \in Seq(Nat)
    BY <2>1, BytesTyped
  <2>4. Bytes((HeaderBytes + done) + whole, size - whole) \in Seq(Nat)
    BY <1>7, <2>1, BytesTyped
  <2> QED BY <1>2, <1>3, <1>9, <1>10, <2>2, <2>3, <2>4
<1> QED BY <1>2, <1>3, <1>7, <1>12, <1>13
-----------------------------------------------------------------------------
(***************************************************************************)
(* What the conversion keeps: the length of the audio, to within one       *)
(* telephone sample for each piece, and every byte of it in a frame.       *)
(***************************************************************************)
LEMMA EmitCarriesAll ==
    ASSUME IInv, NEW length \in Nat, Emit(length), UNCHANGED <<tail, ended>>, ~ended
    PROVE  /\ FramesCarryAll'
           /\ made' \in Nat /\ frames' \in Nat /\ pending' \in 0..(FrameBytes - 1)
           /\ tail' \in 0..(FrameBytes - 1) /\ ended' \in BOOLEAN
<1> DEFINE sum == pending + length
           q == sum \div FrameBytes
           m == sum % FrameBytes
<1>1. /\ frames \in Nat /\ tail = 0 /\ pending \in Nat /\ made \in Nat
      /\ frames * FrameBytes + pending = made
  <2>1. frames \in Nat /\ tail \in Nat /\ pending \in Nat /\ made \in Nat
    BY DEF IInv, TypeOK
  <2>2. tail = 0
    BY <2>1 DEF IInv, FramesCarryAll
  <2>3. frames * FrameBytes \in Nat
    BY <2>1
  <2> QED BY <2>1, <2>2, <2>3 DEF IInv, FramesCarryAll
<1>2. sum \in Nat
  BY <1>1
<1>3. q \in Nat /\ m \in 0..(FrameBytes - 1) /\ sum = FrameBytes * q + m
  BY <1>2
<1>4. made' = made + length /\ pending' = m /\ frames' = frames + q
  BY DEF Emit
<1>5. sum = pending + length
  OBVIOUS
<1> HIDE DEF sum, q, m
<1>6. (frames + q) * FrameBytes = frames * FrameBytes + FrameBytes * q
  BY <1>1, <1>3
<1>7. frames * FrameBytes \in Nat /\ FrameBytes * q \in Nat
  BY <1>1, <1>3
<1>8. frames' * FrameBytes + tail' + pending' = made'
  BY <1>1, <1>3, <1>4, <1>5, <1>6, <1>7
<1> QED BY <1>1, <1>3, <1>4, <1>8 DEF FramesCarryAll, IInv, TypeOK

LEMMA EmitDriftsLittle ==
    ASSUME IInv, NEW whole \in Nat, whole % 2 = 0,
           Emit(Resampled(whole \div 2)),
           pieces' = IF whole > 0 THEN pieces + 1 ELSE pieces,
           Len(decoded) \in Nat, Len(decoded) % 2 = 0,
           Len(decoded') = Len(decoded) + whole
    PROVE  DriftBounded' /\ pieces' \in Nat
<1> DEFINE k == whole \div 2
           d == Len(decoded) \div 2
           x == Resampled(k)
<1>1. made \in Nat /\ pieces \in Nat
  BY DEF IInv, TypeOK
<1>2. k \in Nat /\ d \in Nat /\ whole = 2 * k
  OBVIOUS
<1>3. Len(decoded') \div 2 = d + k
  OBVIOUS
<1>4. made' = made + x
  BY DEF Emit
<1>5. /\ x \in Nat /\ (k = 0 => x = 0)
      /\ SourceRate * x - TargetRate * k <= SourceRate
      /\ TargetRate * k - SourceRate * x <= SourceRate
  <2> HIDE DEF k
  <2> QED BY <1>2, ResampledIsClose
<1>6. /\ SourceRate * made - TargetRate * d <= SourceRate * pieces
      /\ -(SourceRate * made - TargetRate * d) <= SourceRate * pieces
  BY DEF IInv, DriftBounded, Drift
<1>7. Drift' = SourceRate * made' - TargetRate * (d + k)
  BY <1>3 DEF Drift
<1> HIDE DEF k, d, x
<1>8. /\ SourceRate * (made + x) = SourceRate * made + SourceRate * x
      /\ TargetRate * (d + k) = TargetRate * d + TargetRate * k
      /\ SourceRate * (pieces + 1) = SourceRate * pieces + SourceRate
  BY <1>1, <1>2, <1>5
<1>9. /\ SourceRate * made \in Int /\ SourceRate * x \in Int
      /\ TargetRate * d \in Int /\ TargetRate * k \in Int
      /\ SourceRate * pieces \in Int
  BY <1>1, <1>2, <1>5
<1>10. /\ SourceRate * made' = SourceRate * made + SourceRate * x
       /\ Drift' = (SourceRate * made - TargetRate * d) + (SourceRate * x - TargetRate * k)
  BY <1>4, <1>7, <1>8, <1>9
<1> DEFINE drift == SourceRate * made - TargetRate * d
           step == SourceRate * x - TargetRate * k
           bound == SourceRate * pieces
<1>11. /\ drift \in Int /\ step \in Int /\ bound \in Int /\ SourceRate \in Int
       /\ drift <= bound /\ -drift <= bound
       /\ step <= SourceRate /\ -step <= SourceRate
       /\ Drift' = drift + step
  <2>1. drift \in Int /\ step \in Int /\ bound \in Int /\ SourceRate \in Int
    BY <1>9
  <2>2. drift <= bound /\ -drift <= bound
    BY <1>6, Zenon
  <2>3. step <= SourceRate /\ -step <= SourceRate
    <3>1. -step = TargetRate * k - SourceRate * x
      BY <1>9
    <3> QED BY <1>5, <3>1, Zenon
  <2>4. Drift' = drift + step
    BY <1>10, Zenon
  <2> QED BY <2>1, <2>2, <2>3, <2>4, Zenon
<1>12. CASE whole > 0
  <2>1. pieces' = pieces + 1 /\ SourceRate * pieces' = bound + SourceRate
    BY <1>8, <1>12
  <2> HIDE DEF drift, step, bound
  <2>2. drift + step <= bound + SourceRate /\ -(drift + step) <= bound + SourceRate
    BY <1>11
  <2>3. DriftBounded'
    BY <1>11, <2>1, <2>2, Zenon DEF DriftBounded
  <2> QED BY <1>1, <2>1, <2>3
<1>13. CASE whole = 0
  <2>1. k = 0 /\ x = 0 /\ pieces' = pieces
    BY <1>2, <1>5, <1>13
  <2>2. step = 0
    BY <2>1
  <2>3. SourceRate * pieces' = bound
    BY <2>1
  <2> HIDE DEF drift, step, bound
  <2>4. drift + step = drift
    BY <1>11, <2>2
  <2>5. DriftBounded'
    BY <1>11, <2>3, <2>4, Zenon DEF DriftBounded
  <2> QED BY <1>1, <2>1, <2>5
<1> QED BY <1>12, <1>13
-----------------------------------------------------------------------------
LEMMA InitHolds == ASSUME Init PROVE IInv
<1>1. Bytes(0, 0) = <<>>
  BY BytesNone
<1>2. TypeOK
  <2>1. <<>> \in Seq(Nat) /\ 0 \in 0..(FrameBytes - 1)
    BY EmptySeq
  <2> QED BY <2>1 DEF Init, TypeOK
<1>3. BufferInv
  BY <1>1 DEF Init, BufferInv
<1>4. DriftBounded
  BY EmptySeq DEF Init, DriftBounded, Drift
<1>5. FramesCarryAll
  BY DEF Init, FramesCarryAll
<1> QED BY <1>2, <1>3, <1>4, <1>5 DEF IInv

LEMMA HeaderHolds ==
    ASSUME IInv, NEW n \in 1..MaxBytes, PushHeader(n)
    PROVE  IInv'
<1>1. received \in Nat /\ n \in Nat /\ received + n \in Nat
  BY DEF IInv, TypeOK
<1>2. /\ ~headerConsumed /\ Len(buffer) + n < HeaderBytes
      /\ received' = received + n /\ buffer' = buffer \o Bytes(received, n)
      /\ UNCHANGED <<headerConsumed, decoded, pieces, made, pending, frames, tail, ended>>
  BY DEF PushHeader
<1>3. buffer = Bytes(0, received) /\ decoded = <<>>
  BY <1>2 DEF IInv, BufferInv
<1>4. Len(buffer) = received
  BY <1>1, <1>3, BytesTyped
<1>5. buffer' = Bytes(0, received + n)
  <2>1. Bytes(0, received) \o Bytes(0 + received, n) = Bytes(0, received + n)
    BY <1>1, BytesConcat
  <2>2. 0 + received = received
    BY <1>1
  <2> QED BY <1>2, <1>3, <2>1, <2>2
<1>6. BufferInv'
  <2>1. buffer' = Bytes(0, received')
    BY <1>2, <1>5
  <2>2. received' < HeaderBytes /\ ~headerConsumed' /\ decoded' = <<>>
    BY <1>1, <1>2, <1>3, <1>4
  <2> QED BY <2>1, <2>2, Zenon DEF BufferInv
<1>7. buffer' \in Seq(Nat)
  <2>1. Bytes(0, received + n) \in Seq(Nat)
    BY <1>1, BytesTyped
  <2> QED BY <1>5, <2>1
<1>8. TypeOK'
  BY <1>1, <1>2, <1>7 DEF IInv, TypeOK
<1>9. DriftBounded' /\ FramesCarryAll'
  BY <1>2 DEF IInv, DriftBounded, Drift, FramesCarryAll
<1> QED BY <1>6, <1>8, <1>9 DEF IInv

LEMMA SamplesHold ==
    ASSUME IInv, NEW n \in 1..MaxBytes, PushSamples(n)
    PROVE  IInv'
<1>1. PICK whole \in Nat :
         /\ whole % 2 = 0
         /\ Emit(Resampled(whole \div 2))
         /\ pieces' = IF whole > 0 THEN pieces + 1 ELSE pieces
         /\ Len(decoded) \in Nat /\ Len(decoded) % 2 = 0
         /\ Len(decoded') = Len(decoded) + whole
         /\ BufferInv'
         /\ decoded' \in Seq(Nat) /\ buffer' \in Seq(Nat)
  BY PushBuffer
<1>2. /\ ~ended /\ received' = received + n /\ headerConsumed' = TRUE
      /\ UNCHANGED <<tail, ended>> /\ received \in Nat /\ n \in Nat
  BY DEF PushSamples, IInv, TypeOK
<1>3. Resampled(whole \div 2) \in Nat
  <2>1. whole \div 2 \in Nat
    BY <1>1
  <2> QED BY <2>1, ResampledIsClose
<1>4. /\ FramesCarryAll'
      /\ made' \in Nat /\ frames' \in Nat /\ pending' \in 0..(FrameBytes - 1)
      /\ tail' \in 0..(FrameBytes - 1) /\ ended' \in BOOLEAN
  BY <1>1, <1>2, <1>3, EmitCarriesAll
<1>5. DriftBounded' /\ pieces' \in Nat
  BY <1>1, EmitDriftsLittle
<1>6. TypeOK'
  BY <1>1, <1>2, <1>4, <1>5 DEF TypeOK
<1> QED BY <1>1, <1>4, <1>5, <1>6 DEF IInv

LEMMA EndHolds ==
    ASSUME IInv, StreamEnds
    PROVE  IInv'
<1>1. /\ ~ended /\ ended' = TRUE /\ tail' = pending /\ pending' = 0
      /\ UNCHANGED <<received, buffer, headerConsumed, decoded, pieces, made, frames>>
  BY DEF StreamEnds
<1>2. TypeOK'
  BY <1>1 DEF IInv, TypeOK
<1>3. BufferInv' /\ DriftBounded'
  BY <1>1 DEF IInv, BufferInv, DriftBounded, Drift, WholeBytes
<1>4. FramesCarryAll'
  <2>1. frames \in Nat /\ tail \in Nat /\ pending \in Nat /\ frames * FrameBytes \in Nat
    BY DEF IInv, TypeOK
  <2>2. tail = 0
    BY <1>1, <2>1 DEF IInv, FramesCarryAll
  <2> QED BY <1>1, <2>1, <2>2 DEF IInv, FramesCarryAll
<1> QED BY <1>2, <1>3, <1>4 DEF IInv

\* The invariant: however the stream is cut, what has been returned, what is
\* buffered, what has been sent and what is pending follow from what arrived.
THEOREM Invariant == Spec => []IInv
<1>1. Init => IInv
  BY InitHolds
<1>2. IInv /\ [Next]_vars => IInv'
  <2> SUFFICES ASSUME IInv, [Next]_vars PROVE IInv'
    OBVIOUS
  <2>1. ASSUME NEW n \in 1..MaxBytes, PushHeader(n) PROVE IInv'
    BY <2>1, HeaderHolds
  <2>2. ASSUME NEW n \in 1..MaxBytes, PushSamples(n) PROVE IInv'
    BY <2>2, SamplesHold
  <2>3. CASE StreamEnds
    BY <2>3, EndHolds
  <2>4. CASE UNCHANGED vars
    BY <2>4 DEF vars, IInv, TypeOK, BufferInv, DriftBounded, Drift,
                FramesCarryAll, WholeBytes
  <2> QED BY <2>1, <2>2, <2>3, <2>4 DEF Next
<1> QED BY <1>1, <1>2, PTL DEF Spec

\* The buffer, the lengths and the counters stay what their types say: at most
\* a frame short of one byte is ever pending.
THEOREM TypeCorrect == Spec => []TypeOK
<1>1. IInv => TypeOK
  BY DEF IInv
<1> QED BY <1>1, Invariant, PTL

LEMMA InvSamples == ASSUME IInv PROVE SamplesIntact
<1>1. received \in Nat
  BY DEF IInv, TypeOK
<1>2. CASE headerConsumed
  <2>1. received >= HeaderBytes /\ decoded = Bytes(HeaderBytes, WholeBytes(received))
    BY <1>2 DEF IInv, BufferInv
  <2>2. WholeSamples(received) = Bytes(HeaderBytes, WholeBytes(received))
    BY <1>1, <2>1 DEF WholeSamples, WholeBytes
  <2> QED BY <2>1, <2>2 DEF SamplesIntact
<1>3. CASE ~headerConsumed
  <2>1. decoded = <<>> /\ (received = 0 \/ received < HeaderBytes)
    BY <1>3 DEF IInv, BufferInv
  <2>2. WholeSamples(received) = Bytes(HeaderBytes, 0)
    BY <1>1, <2>1 DEF WholeSamples
  <2> QED BY <2>1, <2>2, BytesNone DEF SamplesIntact
<1> QED BY <1>2, <1>3

\* push() returns the samples of the stream whatever its cuts.
THEOREM SamplesSurvive == Spec => []SamplesIntact
BY InvSamples, Invariant, PTL

\* Rounding the length of each piece costs at most one telephone sample.
THEOREM DriftIsBounded == Spec => []DriftBounded
<1>1. IInv => DriftBounded
  BY DEF IInv
<1> QED BY <1>1, Invariant, PTL

\* All of the converted audio is in the frames that were sent, or pending.
THEOREM NothingUnsent == Spec => []FramesCarryAll
<1>1. IInv => FramesCarryAll
  BY DEF IInv
<1> QED BY <1>1, Invariant, PTL
=============================================================================
