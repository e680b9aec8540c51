--------------------------- MODULE VanDecodeProofs ---------------------------
(***************************************************************************)
(* What the arithmetic of common.c gives for every byte, what the decoder  *)
(* of van_rmt_rx.c makes of slices and durations, that van_parse_bytes     *)
(* stays within its arrays, and that every frame that was not disturbed is *)
(* received as it was sent, for every bus, every CRC and whatever durations*)
(* within the tolerance the RMT peripheral measures.  Of a bus that is     *)
(* disturbed: what is read does not depend on the durations either, and    *)
(* what is accepted was sent if the CRC tells the disturbances.            *)
(***************************************************************************)
EXTENDS VanDecode, FiniteSetTheorems, WellFoundedInduction, SequenceTheorems, TLAPS

\* The time slices of the two networks a VAN bus has, in microseconds
\* (van_rmt_rx.c:242-251).
TimeSlices == {8, 16}

\* A duration of k time slices is rounded to just that although it is off by less than
\* half a slice, or late by half a slice, as long as it fits into a byte with what is
\* added to round it up (common.c:42-54).
THEOREM RoundingTolerance ==
    ASSUME NEW slice \in TimeSlices, NEW k \in Nat, NEW duration \in Bytes,
           slice * k < 256,
           slice * k < duration + slice \div 2, duration <= slice * k + slice \div 2
    PROVE  RoundToNearest(duration, slice) = slice * k
<1>1. CASE slice = 8
  <2>1. duration \in Nat /\ 8 * k < 256 /\ 8 * k < duration + 4 /\ duration <= 8 * k + 4
    BY <1>1 DEF Bytes
  <2>2. CASE duration >= 8 * k
    <3>1. duration % 8 = duration - 8 * k
      BY <2>1, <2>2
    <3>2. ~(duration % 8 > 8 \div 2) /\ duration - (duration % 8) = 8 * k
      BY <2>1, <2>2, <3>1
    <3> QED BY <1>1, <3>2 DEF RoundToNearest
  <2>3. CASE duration < 8 * k
    <3>1. duration % 8 = duration + 8 - 8 * k
      BY <2>1, <2>3
    <3>2. duration % 8 > 8 \div 2 /\ (duration + 8 - (duration % 8)) % 256 = 8 * k
      BY <2>1, <2>3, <3>1
    <3> QED BY <1>1, <3>2 DEF RoundToNearest
  <2> QED BY <2>1, <2>2, <2>3
<1>2. CASE slice = 16
  <2>1. duration \in Nat /\ 16 * k < 256 /\ 16 * k < duration + 8 /\ duration <= 16 * k + 8
    BY <1>2 DEF Bytes
  <2>2. CASE duration >= 16 * k
    <3>1. duration % 16 = duration - 16 * k
      BY <2>1, <2>2
    <3>2. ~(duration % 16 > 16 \div 2) /\ duration - (duration % 16) = 16 * k
      BY <2>1, <2>2, <3>1
    <3> QED BY <1>2, <3>2 DEF RoundToNearest
  <2>3. CASE duration < 16 * k
    <3>1. duration % 16 = duration + 16 - 16 * k
      BY <2>1, <2>3
    <3>2. duration % 16 > 16 \div 2 /\ (duration + 16 - (duration % 16)) % 256 = 16 * k
      BY <2>1, <2>3, <3>1
    <3> QED BY <1>2, <3>2 DEF RoundToNearest
  <2> QED BY <2>1, <2>2, <2>3
<1> QED BY <1>1, <1>2 DEF TimeSlices

\* What has two digits survives the way to BCD and back (common.c:62-92).
THEOREM BcdRoundTrip ==
    ASSUME NEW n \in 0 .. 99
    PROVE  BcdToDec(DecToBcd(n)) = n
<1>1. PICK tens \in 0 .. 9, ones \in 0 .. 9 : n = 10 * tens + ones
  <2>1. n \div 10 \in 0 .. 9 /\ n % 10 \in 0 .. 9 /\ n = 10 * (n \div 10) + (n % 10)
    OBVIOUS
  <2> QED BY <2>1
<1>2. n \div 10 = tens /\ n % 10 = ones
  BY <1>1
<1>3. DecToBcd(n) = tens * 16 + ones
  BY <1>2 DEF DecToBcd
<1>4. (tens * 16 + ones) \div 16 = tens /\ (tens * 16 + ones) % 16 = ones
  BY <1>1
<1> QED BY <1>1, <1>3, <1>4 DEF BcdToDec

\* Both conversions of a byte give a byte, whatever it is (common.c:62-92).
THEOREM BcdIsAByte ==
    ASSUME NEW n \in Bytes
    PROVE  DecToBcd(n) \in Bytes /\ BcdToDec(n) \in Bytes
<1>1. n \in Nat /\ n < 256
  BY DEF Bytes
<1>2. DecToBcd(n) \in Bytes
  <2>1. CASE n <= 99
    <3>1. n \div 10 \in 0 .. 9 /\ n % 10 \in 0 .. 9
      BY <1>1, <2>1
    <3>2. DecToBcd(n) = (n \div 10) * 16 + (n % 10)
      BY <1>1, <2>1 DEF DecToBcd
    <3> QED BY <3>1, <3>2 DEF Bytes
  <2>2. CASE n > 99
    BY <1>1, <2>2 DEF DecToBcd, Bytes
  <2> QED BY <1>1, <2>1, <2>2
<1>3. BcdToDec(n) \in Bytes
  <2>1. n \div 16 \in 0 .. 15 /\ n % 16 \in 0 .. 15
    BY <1>1
  <2> QED BY <1>1, <2>1 DEF BcdToDec, Bytes
<1> QED BY <1>2, <1>3

\* An identifier has 12 bits (common.c:56-60).
THEOREM IdenHas12Bits ==
    ASSUME NEW byte1 \in Bytes, NEW byte2 \in Bytes
    PROVE  GetIdenFromBytes(byte1, byte2) \in 0 .. 4095
<1>1. byte2 \div 16 \in 0 .. 15
  BY DEF Bytes
<1> QED BY <1>1 DEF GetIdenFromBytes, Bytes

----------------------------------------------------------------------------
(* The decoder *)

\* A state of the decoder, by its fields.
Decoder(n, m, t, f, c) ==
    [bitCounter |-> n, mask |-> m, tempByte |-> t, finalByte |-> f, complete |-> c]
IsRecord(d) ==
    /\ d = Decoder(d.bitCounter, d.mask, d.tempByte, d.finalByte, d.complete)
    /\ d.finalByte \in Bytes /\ d.complete \in BOOLEAN

\* What is left when a byte is complete.
Completed(byte) ==
    [bitCounter |-> InitDecoder.bitCounter, mask |-> InitDecoder.mask,
     tempByte |-> InitDecoder.tempByte, finalByte |-> byte, complete |-> TRUE]

\* The states of the decoder: between two bytes, or after so many of the ten slices of
\* one.  The bits of tempByte below unit are not written yet, and mask is the next one.
IsAt(d, slices, mask, unit) ==
    /\ d.bitCounter = slices
    /\ d.mask = mask
    /\ d.tempByte \in Bytes
    /\ d.tempByte % unit = 0
IsDecoder(d) ==
    /\ IsRecord(d)
    /\ \/ IsAt(d, 0, 128, 256) \/ IsAt(d, 1, 64, 128) \/ IsAt(d, 2, 32, 64)
       \/ IsAt(d, 3, 16, 32) \/ IsAt(d, 4, 8, 16) \/ IsAt(d, 5, 8, 16)
       \/ IsAt(d, 6, 4, 8) \/ IsAt(d, 7, 2, 4) \/ IsAt(d, 8, 1, 2) \/ IsAt(d, 9, 0, 1)

\* What a slice does to the fields of the decoder: when it carries a bit, when it does not,
\* and when it completes the byte.
LEMMA SliceWithBit ==
    ASSUME NEW n \in Nat, NEW m \in Nat, NEW t \in Nat, NEW f, NEW c, NEW level \in Nat,
           NEW bit \in Nat, bit = level * m, (n + 1) % 5 # 0
    PROVE  Slice(Decoder(n, m, t, f, c), level) = Decoder(n + 1, m \div 2, t + bit, f, c)
BY DEF Slice, Decoder
LEMMA SliceWithoutBit ==
    ASSUME NEW n \in Nat, NEW m, NEW t, NEW f, NEW c, NEW level,
           (n + 1) % 5 = 0, n # 9
    PROVE  Slice(Decoder(n, m, t, f, c), level) = Decoder(n + 1, m, t, f, c)
BY DEF Slice, Decoder
LEMMA LastSlice ==
    ASSUME NEW m, NEW t, NEW f, NEW c, NEW level
    PROVE  Slice(Decoder(9, m, t, f, c), level) = Completed(t)
BY DEF Slice, Decoder, Completed, InitDecoder

\* A slice with a bit writes the bit that is next, and no other.
LEMMA BitSlice ==
    ASSUME NEW d, IsRecord(d), NEW level \in {0, 1},
           NEW n \in 0 .. 8, (n + 1) % 5 # 0,
           NEW mask \in {128, 64, 32, 16, 8, 4, 2, 1}, IsAt(d, n, mask, 2 * mask)
    PROVE  IsRecord(Slice(d, level)) /\ IsAt(Slice(d, level), n + 1, mask \div 2, mask)
<1>1. PICK t, f, c : d = Decoder(n, mask, t, f, c)
  BY DEF IsRecord, IsAt
<1>2. t \in Bytes /\ t % (2 * mask) = 0 /\ f \in Bytes /\ c \in BOOLEAN
  BY <1>1 DEF IsRecord, IsAt, Decoder
<1>3. Slice(d, level) = Decoder(n + 1, mask \div 2, t + level * mask, f, c)
  <2>1. n \in Nat /\ mask \in Nat /\ t \in Nat /\ level \in Nat /\ (n + 1) % 5 # 0
    BY <1>2 DEF Bytes
  <2>2. PICK bit \in Nat : bit = level * mask
    BY <2>1
  <2>3. Slice(Decoder(n, mask, t, f, c), level) = Decoder(n + 1, mask \div 2, t + bit, f, c)
    BY <2>1, <2>2 DEF Slice, Decoder
  <2> QED BY <1>1, <2>2, <2>3
<1>4. t + level * mask \in Bytes /\ (t + level * mask) % mask = 0
  <2>1. t \in 0 .. 255
    BY <1>2 DEF Bytes
  <2>2. CASE mask = 128
    BY <1>2, <2>1, <2>2 DEF Bytes
  <2>3. CASE mask = 64
    BY <1>2, <2>1, <2>3 DEF Bytes
  <2>4. CASE mask = 32
    BY <1>2, <2>1, <2>4 DEF Bytes
  <2>5. CASE mask = 16
    BY <1>2, <2>1, <2>5 DEF Bytes
  <2>6. CASE mask = 8
    BY <1>2, <2>1, <2>6 DEF Bytes
  <2>7. CASE mask = 4
    BY <1>2, <2>1, <2>7 DEF Bytes
  <2>8. CASE mask = 2
    BY <1>2, <2>1, <2>8 DEF Bytes
  <2>9. CASE mask = 1
    BY <1>2, <2>1, <2>9 DEF Bytes
  <2> QED BY <2>2, <2>3, <2>4, <2>5, <2>6, <2>7, <2>8, <2>9
<1> QED BY <1>2, <1>3, <1>4 DEF IsRecord, IsAt, Decoder

\* Whatever levels come, disturbed or not, the decoder stays within its byte: no bit is
\* written twice, the mask never runs out before the byte is complete, and no byte is
\* more than eight bits (van_rmt_rx.c:90-115).
THEOREM DecoderStaysInByte ==
    /\ IsDecoder(InitDecoder)
    /\ \A d, level : IsDecoder(d) /\ level \in {0, 1} => IsDecoder(Slice(d, level))
<1>1. IsDecoder(InitDecoder)
  BY DEF IsDecoder, IsRecord, IsAt, InitDecoder, Decoder, Bytes
<1>2. ASSUME NEW d, NEW level, IsDecoder(d), level \in {0, 1}
      PROVE  IsDecoder(Slice(d, level))
  <2> IsRecord(d)
    BY <1>2 DEF IsDecoder
  <2>1. PICK n, m, t, f, c :
            d = Decoder(n, m, t, f, c) /\ f \in Bytes /\ c \in BOOLEAN
    BY DEF IsRecord
  <2>2. d.bitCounter = n /\ d.mask = m /\ d.tempByte = t
    BY <2>1 DEF Decoder
  <2>3. CASE IsAt(d, 0, 128, 256)
    <3>1. IsRecord(Slice(d, level)) /\ IsAt(Slice(d, level), 1, 64, 128)
      BY <1>2, <2>3, BitSlice
    <3> QED BY <3>1 DEF IsDecoder
  <2>4. CASE IsAt(d, 1, 64, 128)
    <3>1. IsRecord(Slice(d, level)) /\ IsAt(Slice(d, level), 2, 32, 64)
      BY <1>2, <2>4, BitSlice
    <3> QED BY <3>1 DEF IsDecoder
  <2>5. CASE IsAt(d, 2, 32, 64)
    <3>1. IsRecord(Slice(d, level)) /\ IsAt(Slice(d, level), 3, 16, 32)
      BY <1>2, <2>5, BitSlice
    <3> QED BY <3>1 DEF IsDecoder
  <2>6. CASE IsAt(d, 3, 16, 32)
    <3>1. IsRecord(Slice(d, level)) /\ IsAt(Slice(d, level), 4, 8, 16)
      BY <1>2, <2>6, BitSlice
    <3> QED BY <3>1 DEF IsDecoder
  <2>7. CASE IsAt(d, 4, 8, 16)
    <3>1. t \in Bytes /\ t % 16 = 0 /\ n = 4 /\ m = 8
      BY <2>2, <2>7 DEF IsAt
    <3>2. Slice(d, level) = Decoder(5, 8, t, f, c)
      BY <2>1, <3>1, SliceWithoutBit
    <3> QED BY <2>1, <3>1, <3>2 DEF IsDecoder, IsRecord, IsAt, Decoder
  <2>8. CASE IsAt(d, 5, 8, 16)
    <3>1. IsRecord(Slice(d, level)) /\ IsAt(Slice(d, level), 6, 4, 8)
      BY <1>2, <2>8, BitSlice
    <3> QED BY <3>1 DEF IsDecoder
  <2>9. CASE IsAt(d, 6, 4, 8)
    <3>1. IsRecord(Slice(d, level)) /\ IsAt(Slice(d, level), 7, 2, 4)
      BY <1>2, <2>9, BitSlice
    <3> QED BY <3>1 DEF IsDecoder
  <2>10. CASE IsAt(d, 7, 2, 4)
    <3>1. IsRecord(Slice(d, level)) /\ IsAt(Slice(d, level), 8, 1, 2)
      BY <1>2, <2>10, BitSlice
    <3> QED BY <3>1 DEF IsDecoder
  <2>11. CASE IsAt(d, 8, 1, 2)
    <3>1. IsRecord(Slice(d, level)) /\ IsAt(Slice(d, level), 9, 0, 1)
      BY <1>2, <2>11, BitSlice
    <3> QED BY <3>1 DEF IsDecoder
  <2>12. CASE IsAt(d, 9, 0, 1)
    <3>1. t \in Bytes /\ n = 9
      BY <2>2, <2>12 DEF IsAt
    <3>2. d = Decoder(9, m, t, f, c)
      BY <2>1, <3>1
    <3>3. Slice(d, level) = Completed(t)
      BY <3>2, LastSlice
    <3>4. Completed(t) = [bitCounter |-> 0, mask |-> 128, tempByte |-> 0, finalByte |-> t,
                          complete |-> TRUE]
      BY DEF Completed, InitDecoder
    <3> QED BY <3>1, <3>3, <3>4 DEF IsDecoder, IsRecord, IsAt, Decoder, Bytes
  <2> QED BY <1>2, <2>3, <2>4, <2>5, <2>6, <2>7, <2>8, <2>9, <2>10, <2>11, <2>12 DEF IsDecoder
<1> QED BY <1>1, <1>2

\* What a sender puts on the bus for a byte, four bits, a slice without one, four bits and
\* again such a slice, is what van_parse_bytes takes down, whatever the slices without a
\* bit are, and the decoder is ready for the next byte (van_rmt_rx.c:90-115).
THEOREM TenSlicesAreTheByte ==
    ASSUME NEW b7 \in {0, 1}, NEW b6 \in {0, 1}, NEW b5 \in {0, 1}, NEW b4 \in {0, 1},
           NEW b3 \in {0, 1}, NEW b2 \in {0, 1}, NEW b1 \in {0, 1}, NEW b0 \in {0, 1},
           NEW c4 \in {0, 1}, NEW c9 \in {0, 1},
           NEW before, IsDecoder(before), before.bitCounter = 0
    PROVE  LET high == Slice(Slice(Slice(Slice(before, b7), b6), b5), b4)
               low == Slice(Slice(Slice(Slice(Slice(high, c4), b3), b2), b1), b0)
           IN  Slice(low, c9) =
                Completed(128 * b7 + 64 * b6 + 32 * b5 + 16 * b4
                          + 8 * b3 + 4 * b2 + 2 * b1 + b0)
<1>1. PICK f, c : before = Decoder(0, 128, 0, f, c)
  <2>1. PICK n, m, t, f, c : before = Decoder(n, m, t, f, c)
    BY DEF IsDecoder, IsRecord
  <2>2. before.mask = 128 /\ before.tempByte \in Bytes /\ before.tempByte % 256 = 0
    BY DEF IsDecoder, IsAt
  <2>3. n = 0 /\ m = 128 /\ t \in Bytes /\ t % 256 = 0
    BY <2>1, <2>2 DEF Decoder
  <2>4. t = 0
    BY <2>3 DEF Bytes
  <2> QED BY <2>1, <2>3, <2>4
<1> DEFINE t7 == 128 * b7
           t6 == t7 + 64 * b6
           t5 == t6 + 32 * b5
           t4 == t5 + 16 * b4
           t3 == t4 + 8 * b3
           t2 == t3 + 4 * b2
           t1 == t2 + 2 * b1
           t0 == t1 + b0
<1>2. /\ t7 \in Nat /\ t6 \in Nat /\ t5 \in Nat /\ t4 \in Nat
      /\ t3 \in Nat /\ t2 \in Nat /\ t1 \in Nat /\ t0 \in Nat
  OBVIOUS
<1>3. Slice(Decoder(0, 128, 0, f, c), b7) = Decoder(1, 64, t7, f, c)
  <2>1. 128 * b7 \in Nat /\ 128 * b7 = b7 * 128 /\ (0 + 1) % 5 # 0 /\ 128 \div 2 = 64
    OBVIOUS
  <2>2. Slice(Decoder(0, 128, 0, f, c), b7) = Decoder(0 + 1, 128 \div 2, 0 + 128 * b7, f, c)
    BY <1>2, <2>1, SliceWithBit
  <2> QED BY <2>1, <2>2
<1>4. Slice(Decoder(1, 64, t7, f, c), b6) = Decoder(2, 32, t6, f, c)
  <2>1. 64 * b6 \in Nat /\ 64 * b6 = b6 * 64 /\ (1 + 1) % 5 # 0 /\ 64 \div 2 = 32
    OBVIOUS
  <2>2. Slice(Decoder(1, 64, t7, f, c), b6) = Decoder(1 + 1, 64 \div 2, t7 + 64 * b6, f, c)
    BY <1>2, <2>1, SliceWithBit
  <2> QED BY <2>1, <2>2
<1>5. Slice(Decoder(2, 32, t6, f, c), b5) = Decoder(3, 16, t5, f, c)
  <2>1. 32 * b5 \in Nat /\ 32 * b5 = b5 * 32 /\ (2 + 1) % 5 # 0 /\ 32 \div 2 = 16
    OBVIOUS
  <2>2. Slice(Decoder(2, 32, t6, f, c), b5) = Decoder(2 + 1, 32 \div 2, t6 + 32 * b5, f, c)
    BY <1>2, <2>1, SliceWithBit
  <2> QED BY <2>1, <2>2
<1>6. Slice(Decoder(3, 16, t5, f, c), b4) = Decoder(4, 8, t4, f, c)
  <2>1. 16 * b4 \in Nat /\ 16 * b4 = b4 * 16 /\ (3 + 1) % 5 # 0 /\ 16 \div 2 = 8
    OBVIOUS
  <2>2. Slice(Decoder(3, 16, t5, f, c), b4) = Decoder(3 + 1, 16 \div 2, t5 + 16 * b4, f, c)
    BY <1>2, <2>1, SliceWithBit
  <2> QED BY <2>1, <2>2
<1>7. Slice(Decoder(4, 8, t4, f, c), c4) = Decoder(5, 8, t4, f, c)
  BY SliceWithoutBit
<1>8. Slice(Decoder(5, 8, t4, f, c), b3) = Decoder(6, 4, t3, f, c)
  <2>1. 8 * b3 \in Nat /\ 8 * b3 = b3 * 8 /\ (5 + 1) % 5 # 0 /\ 8 \div 2 = 4
    OBVIOUS
  <2>2. Slice(Decoder(5, 8, t4, f, c), b3) = Decoder(5 + 1, 8 \div 2, t4 + 8 * b3, f, c)
    BY <1>2, <2>1, SliceWithBit
  <2> QED BY <2>1, <2>2
<1>9. Slice(Decoder(6, 4, t3, f, c), b2) = Decoder(7, 2, t2, f, c)
  <2>1. 4 * b2 \in Nat /\ 4 * b2 = b2 * 4 /\ (6 + 1) % 5 # 0 /\ 4 \div 2 = 2
    OBVIOUS
  <2>2. Slice(Decoder(6, 4, t3, f, c), b2) = Decoder(6 + 1, 4 \div 2, t3 + 4 * b2, f, c)
    BY <1>2, <2>1, SliceWithBit
  <2> QED BY <2>1, <2>2
<1>10. Slice(Decoder(7, 2, t2, f, c), b1) = Decoder(8, 1, t1, f, c)
  <2>1. 2 * b1 \in Nat /\ 2 * b1 = b1 * 2 /\ (7 + 1) % 5 # 0 /\ 2 \div 2 = 1
    OBVIOUS
  <2>2. Slice(Decoder(7, 2, t2, f, c), b1) = Decoder(7 + 1, 2 \div 2, t2 + 2 * b1, f, c)
    BY <1>2, <2>1, SliceWithBit
  <2> QED BY <2>1, <2>2
<1>11. Slice(Decoder(8, 1, t1, f, c), b0) = Decoder(9, 0, t0, f, c)
  <2>1. 1 * b0 \in Nat /\ 1 * b0 = b0 * 1 /\ (8 + 1) % 5 # 0 /\ 1 \div 2 = 0
    OBVIOUS
  <2>2. Slice(Decoder(8, 1, t1, f, c), b0) = Decoder(8 + 1, 1 \div 2, t1 + 1 * b0, f, c)
    BY <1>2, <2>1, SliceWithBit
  <2> QED BY <2>1, <2>2
<1>12. Slice(Decoder(9, 0, t0, f, c), c9) = Completed(t0)
  BY LastSlice
<1> QED BY <1>1, <1>3, <1>4, <1>5, <1>6, <1>7, <1>8, <1>9, <1>10, <1>11, <1>12

----------------------------------------------------------------------------
(* A duration *)

\* Of the natural numbers in a set one is the least, since of finite sets of them one is
\* not above another; and with that there is induction over the numbers in a set.
LEMMA LeastNatural ==
    ASSUME NEW T \in SUBSET Nat, T # {}
    PROVE  \E n \in T : \A m \in T : n <= m
<1> DEFINE UpTo == {0 .. n : n \in T}
<1>1. UpTo \subseteq FiniteSubsetsOf(Nat) /\ UpTo # {}
  <2>1. \A n \in T : 0 .. n \in SUBSET Nat /\ IsFiniteSet(0 .. n)
    BY FS_Interval
  <2> QED BY <2>1 DEF FiniteSubsetsOf
<1>2. PICK x \in UpTo : \A y \in UpTo : ~ (<<y, x>> \in StrictSubsetOrdering(Nat))
  <2> HIDE DEF UpTo
  <2> QED BY <1>1, FS_StrictSubsetOrderingWellFounded, WFMin
<1>3. PICK n \in T : x = 0 .. n
  OBVIOUS
<1>4. \A m \in T : n <= m
  <2>1. SUFFICES ASSUME NEW m \in T, m < n PROVE FALSE
    OBVIOUS
  <2>2. n \in 0 .. n /\ n \notin 0 .. m
    BY <2>1
  <2>3. /\ 0 .. m \in SUBSET Nat /\ 0 .. n \in SUBSET Nat
        /\ 0 .. m \subseteq 0 .. n /\ 0 .. m # 0 .. n
    BY <2>1, <2>2
  <2>4. <<0 .. m, 0 .. n>> \in StrictSubsetOrdering(Nat)
    BY <2>3 DEF StrictSubsetOrdering
  <2> QED BY <1>2, <1>3, <2>4
<1> QED BY <1>4

LEMMA Induction ==
    ASSUME NEW S \in SUBSET Nat, 0 \in S, \A n \in S : n + 1 \in S
    PROVE  S = Nat
<1> SUFFICES ASSUME Nat \ S # {} PROVE FALSE
  OBVIOUS
<1>1. PICK n \in Nat \ S : \A m \in Nat \ S : n <= m
  BY LeastNatural
<1>2. n - 1 \in Nat /\ n - 1 \notin Nat \ S
  BY <1>1
<1> QED BY <1>1, <1>2

\* A function is defined by what it is at 0 and how it goes on.
Begins(a, s, n, g) ==
    g = [k \in 0 .. n |-> IF k = 0 THEN a ELSE s[<<k, g[k - 1]>>]]
LEMMA BeginningsExist ==
    ASSUME NEW a, NEW s
    PROVE  \A n \in Nat : \E g : Begins(a, s, n, g)
<1> DEFINE S == {n \in Nat : \E g : Begins(a, s, n, g)}
<1>1. 0 \in S
  <2>1. Begins(a, s, 0, [k \in 0 .. 0 |-> a])
    BY DEF Begins
  <2> QED BY <2>1
<1>2. ASSUME NEW n \in S PROVE n + 1 \in S
  <2>1. PICK g : Begins(a, s, n, g)
    OBVIOUS
  <2> DEFINE h == [k \in 0 .. n + 1 |-> IF k = n + 1 THEN s[<<k, g[n]>>] ELSE g[k]]
  <2>2. ASSUME NEW k \in 0 .. n + 1
        PROVE  h[k] = IF k = 0 THEN a ELSE s[<<k, h[k - 1]>>]
    <3>1. CASE k = n + 1
      <4>1. h[k] = s[<<k, g[n]>>] /\ h[k - 1] = g[n] /\ k # 0
        BY <3>1
      <4> QED BY <4>1
    <3>2. CASE k # n + 1
      <4>1. k \in 0 .. n /\ h[k] = g[k]
        BY <3>2
      <4>2. g[k] = IF k = 0 THEN a ELSE s[<<k, g[k - 1]>>]
        BY <2>1, <4>1 DEF Begins
      <4>3. k # 0 => h[k - 1] = g[k - 1]
        BY <4>1
      <4> QED BY <4>1, <4>2, <4>3
    <3> QED BY <3>1, <3>2
  <2>3. h = [k \in 0 .. n + 1 |-> IF k = 0 THEN a ELSE s[<<k, h[k - 1]>>]]
    <3>1. h = [k \in 0 .. n + 1 |-> h[k]]
      OBVIOUS
    <3> HIDE DEF h
    <3> QED BY <2>2, <3>1
  <2>4. Begins(a, s, n + 1, h)
    BY <2>3 DEF Begins
  <2> QED BY <2>4
<1>3. S \in SUBSET Nat
  OBVIOUS
<1>4. S = Nat
  <2> HIDE DEF S
  <2> QED BY <1>1, <1>2, <1>3, Induction
<1> QED BY <1>4

LEMMA BeginningsAgree ==
    ASSUME NEW a, NEW s, NEW m \in Nat, NEW n \in Nat, NEW g, NEW h,
           Begins(a, s, m, g), Begins(a, s, n, h)
    PROVE  \A k \in Nat : k <= m /\ k <= n => g[k] = h[k]
<1> DEFINE S == {k \in Nat : k <= m /\ k <= n => g[k] = h[k]}
<1>1. 0 \in S
  BY DEF Begins
<1>2. ASSUME NEW k \in S PROVE k + 1 \in S
  <2>1. SUFFICES ASSUME k + 1 <= m, k + 1 <= n PROVE g[k + 1] = h[k + 1]
    OBVIOUS
  <2>2. g[k] = h[k]
    BY <2>1
  <2>3. k + 1 \in 0 .. m /\ k + 1 \in 0 .. n /\ k + 1 # 0 /\ (k + 1) - 1 = k
    BY <2>1
  <2>4. g[k + 1] = s[<<k + 1, g[k]>>]
    BY <2>3 DEF Begins
  <2>5. h[k + 1] = s[<<k + 1, h[k]>>]
    BY <2>3 DEF Begins
  <2> QED BY <2>2, <2>4, <2>5
<1>3. S \in SUBSET Nat
  OBVIOUS
<1>4. S = Nat
  <2> HIDE DEF S
  <2> QED BY <1>1, <1>2, <1>3, Induction
<1> QED BY <1>4

GoesOn(f, V, a, s) ==
    f \in [Nat -> V] /\ f[0] = a /\ \A k \in Nat : f[k + 1] = s[<<k + 1, f[k]>>]
LEMMA Recursion ==
    ASSUME NEW V, NEW a \in V, NEW s \in [Nat \X V -> V]
    PROVE  \E f : GoesOn(f, V, a, s)
<1> DEFINE G(n) == CHOOSE g : Begins(a, s, n, g)
           F == [k \in Nat |-> G(k)[k]]
<1>1. \A n \in Nat : Begins(a, s, n, G(n))
  BY BeginningsExist
<1> HIDE DEF G
<1>2. ASSUME NEW k \in Nat
      PROVE  F[k] = IF k = 0 THEN a ELSE s[<<k, F[k - 1]>>]
  <2>1. F[k] = G(k)[k]
    OBVIOUS
  <2>2. G(k)[k] = IF k = 0 THEN a ELSE s[<<k, G(k)[k - 1]>>]
    BY <1>1 DEF Begins
  <2>3. ASSUME k # 0 PROVE G(k)[k - 1] = F[k - 1]
    <3>1. k - 1 \in Nat /\ k - 1 <= k /\ F[k - 1] = G(k - 1)[k - 1]
      BY <2>3
    <3>2. Begins(a, s, k, G(k)) /\ Begins(a, s, k - 1, G(k - 1))
      BY <1>1, <3>1
    <3>3. G(k)[k - 1] = G(k - 1)[k - 1]
      BY <3>1, <3>2, BeginningsAgree
    <3> QED BY <3>1, <3>3
  <2> HIDE DEF F
  <2> QED BY <2>1, <2>2, <2>3
<1>3. F = [k \in Nat |-> IF k = 0 THEN a ELSE s[<<k, F[k - 1]>>]]
  <2>1. F = [k \in Nat |-> F[k]]
    OBVIOUS
  <2> HIDE DEF F
  <2> QED BY <1>2, <2>1
<1>4. F \in [Nat -> V]
  <2> DEFINE S == {k \in Nat : F[k] \in V}
  <2> HIDE DEF F
  <2>1. 0 \in S
    BY <1>2
  <2>2. ASSUME NEW k \in S PROVE k + 1 \in S
    <3>1. k + 1 \in Nat /\ k + 1 # 0 /\ (k + 1) - 1 = k /\ F[k] \in V
      OBVIOUS
    <3>2. F[k + 1] = s[<<k + 1, F[k]>>]
      BY <1>2, <3>1
    <3>3. <<k + 1, F[k]>> \in Nat \X V
      BY <3>1
    <3>4. F[k + 1] \in V
      BY <3>2, <3>3
    <3> QED BY <3>1, <3>4
  <2>3. S \in SUBSET Nat
    OBVIOUS
  <2>4. S = Nat
    <3> HIDE DEF S
    <3> QED BY <2>1, <2>2, <2>3, Induction
  <2>5. \A k \in Nat : F[k] \in V
    BY <2>4
  <2> QED BY <1>3, <2>5
<1>5. F[0] = a
  BY <1>2
<1>6. ASSUME NEW k \in Nat PROVE F[k + 1] = s[<<k + 1, F[k]>>]
  <2>1. k + 1 \in Nat /\ k + 1 # 0 /\ (k + 1) - 1 = k
    OBVIOUS
  <2> HIDE DEF F
  <2> QED BY <1>2, <2>1
<1> HIDE DEF F
<1>7. GoesOn(F, V, a, s)
  BY <1>4, <1>5, <1>6 DEF GoesOn
<1> QED BY <1>7

\* What the turns of the loop of van_rmt_rx_parse_byte are, one after the other.
Decoders ==
    {d \in [bitCounter : 0 .. 9, mask : 0 .. 128, tempByte : Bytes, finalByte : Bytes,
            complete : BOOLEAN] : IsDecoder(d)}
LEMMA DecoderType ==
    ASSUME NEW d, IsDecoder(d)
    PROVE  d \in Decoders
<1>1. d.bitCounter \in 0 .. 9 /\ d.mask \in 0 .. 128 /\ d.tempByte \in Bytes
  BY DEF IsDecoder, IsAt
<1>2. d = Decoder(d.bitCounter, d.mask, d.tempByte, d.finalByte, d.complete)
      /\ d.finalByte \in Bytes /\ d.complete \in BOOLEAN
  BY DEF IsDecoder, IsRecord
<1>3. d \in [bitCounter : 0 .. 9, mask : 0 .. 128, tempByte : Bytes, finalByte : Bytes,
             complete : BOOLEAN]
  BY <1>1, <1>2 DEF Decoder
<1> QED BY <1>3 DEF Decoders

LEMMA SlicesOfTurns ==
    ASSUME NEW d, IsDecoder(d), NEW level \in {0, 1}
    PROVE  /\ SlicesOf(d, level, 0) = d
           /\ \A n \in Nat : SlicesOf(d, level, n + 1) = Slice(SlicesOf(d, level, n), level)
<1> DEFINE T == CHOOSE g : g = [k \in Nat |-> IF k = 0 THEN d ELSE Slice(g[k - 1], level)]
<1> PICK s : s = [x \in Nat \X Decoders |-> Slice(x[2], level)]
  OBVIOUS
<1>1. d \in Decoders
  BY DecoderType
<1>2. \A e \in Decoders : Slice(e, level) \in Decoders
  BY DecoderStaysInByte, DecoderType DEF Decoders
<1>3. s \in [Nat \X Decoders -> Decoders]
  <2>1. \A x \in Nat \X Decoders : x[2] \in Decoders
    OBVIOUS
  <2> QED BY <1>2, <2>1
<1>4. PICK f \in [Nat -> Decoders] :
            f[0] = d /\ \A k \in Nat : f[k + 1] = s[<<k + 1, f[k]>>]
  <2>1. \E f : GoesOn(f, Decoders, d, s)
    BY <1>1, <1>3, Recursion
  <2> QED BY <2>1 DEF GoesOn
<1>5. ASSUME NEW k \in Nat
      PROVE  f[k] = IF k = 0 THEN d ELSE Slice(f[k - 1], level)
  <2>1. CASE k = 0
    BY <1>4, <2>1
  <2>2. CASE k # 0
    <3>1. k - 1 \in Nat /\ (k - 1) + 1 = k /\ f[k - 1] \in Decoders
      BY <2>2
    <3>2. f[k] = s[<<k, f[k - 1]>>]
      BY <1>4, <3>1
    <3>3. <<k, f[k - 1]>> \in Nat \X Decoders
      BY <3>1
    <3> QED BY <2>2, <3>2, <3>3
  <2> QED BY <2>1, <2>2
<1>6. f = [k \in Nat |-> IF k = 0 THEN d ELSE Slice(f[k - 1], level)]
  <2>1. f = [k \in Nat |-> f[k]]
    OBVIOUS
  <2> QED BY <1>5, <2>1
<1>7. T = [k \in Nat |-> IF k = 0 THEN d ELSE Slice(T[k - 1], level)]
  BY <1>6
<1>8. \A n \in Nat : SlicesOf(d, level, n) = T[n]
  BY DEF SlicesOf
<1> HIDE DEF T
<1>9. T[0] = d
  BY <1>7
<1>10. \A n \in Nat : n + 1 \in Nat /\ T[n + 1] = Slice(T[n], level)
  <2> SUFFICES ASSUME NEW n \in Nat PROVE n + 1 \in Nat /\ T[n + 1] = Slice(T[n], level)
    OBVIOUS
  <2>1. n + 1 \in Nat /\ n + 1 # 0 /\ (n + 1) - 1 = n
    OBVIOUS
  <2> QED BY <1>7, <2>1
<1> QED BY <1>8, <1>9, <1>10

\* A duration leaves the decoder within its byte too, however long it is.
LEMMA SlicesOfIsDecoder ==
    ASSUME NEW d, IsDecoder(d), NEW level \in {0, 1}
    PROVE  \A n \in Nat : IsDecoder(SlicesOf(d, level, n))
<1> DEFINE S == {n \in Nat : IsDecoder(SlicesOf(d, level, n))}
<1>1. 0 \in S
  BY SlicesOfTurns
<1>2. ASSUME NEW n \in S PROVE n + 1 \in S
  <2>1. n \in Nat /\ n + 1 \in Nat /\ IsDecoder(SlicesOf(d, level, n))
    OBVIOUS
  <2>2. SlicesOf(d, level, n + 1) = Slice(SlicesOf(d, level, n), level)
    BY <2>1, SlicesOfTurns
  <2>3. IsDecoder(SlicesOf(d, level, n + 1))
    BY <2>1, <2>2, DecoderStaysInByte
  <2> QED BY <2>1, <2>3
<1>3. S \in SUBSET Nat
  OBVIOUS
<1>4. S = Nat
  <2> HIDE DEF S
  <2> QED BY <1>1, <1>2, <1>3, Induction
<1> QED BY <1>4

LEMMA CountIsNatural ==
    ASSUME NEW duration \in Int
    PROVE  CountOfTimeSlices(duration) \in Nat
<1>1. PICK t \in 0 .. 255 : t = duration % 256
  OBVIOUS
<1>2. RoundToNearest(t, 8) \in Nat
  <2>1. t % 8 \in 0 .. 7 /\ t % 8 <= t /\ (t + 8 - (t % 8)) % 256 \in Nat
    BY <1>1
  <2> QED BY <2>1 DEF RoundToNearest
<1>3. RoundToNearest(t, 8) \div 8 \in Nat
  BY <1>2
<1> QED BY <1>1, <1>3 DEF CountOfTimeSlices, rmt_rx_time_slice_divisor

LEMMA CompleteIsDecoder ==
    ASSUME NEW d, IsDecoder(d), NEW complete \in BOOLEAN
    PROVE  IsDecoder([d EXCEPT !.complete = complete])
<1>1. PICK n, m, t, f, c : d = Decoder(n, m, t, f, c) /\ f \in Bytes
  BY DEF IsDecoder, IsRecord
<1>2. [d EXCEPT !.complete = complete] = Decoder(n, m, t, f, complete)
  BY <1>1 DEF Decoder
<1>3. IsRecord([d EXCEPT !.complete = complete])
  BY <1>1, <1>2 DEF IsRecord, Decoder
<1>4. ASSUME NEW k, NEW mask, NEW unit, IsAt(d, k, mask, unit)
      PROVE  IsAt([d EXCEPT !.complete = complete], k, mask, unit)
  BY <1>1, <1>2, <1>4 DEF IsAt, Decoder
<1> QED BY <1>3, <1>4 DEF IsDecoder

LEMMA ParseByteIsDecoder ==
    ASSUME NEW d, IsDecoder(d), NEW level \in {0, 1}, NEW duration \in Int
    PROVE  IsDecoder(ParseByte(d, level, duration))
<1>1. IsDecoder([d EXCEPT !.complete = FALSE])
  BY CompleteIsDecoder
<1> QED BY <1>1, CountIsNatural, SlicesOfIsDecoder DEF ParseByte

----------------------------------------------------------------------------
(* Types *)

\* The decoder is in one of its states, and the array is looked at before every second
\* level: before the first of a symbol it has less than 40 bytes, or parsing ends.
ArrayInv ==
    /\ IsDecoder(decoder)
    /\ Len(temp_array) <= VAN_MAX_PACKET_LEN + 1
    /\ pc = "parse" /\ i % 2 = 0 => Len(temp_array) <= VAN_MAX_PACKET_LEN

LEMMA InitTypes ==
    ASSUME Init PROVE TypeOK /\ ArrayInv
<1>1. PICK bus \in Buses :
        /\ sent = bus.frames /\ starts = bus.starts /\ disturbed = bus.disturbed
        /\ line = bus.line
  BY DEF Init
<1>2. received_symbols = <<>> /\ i = 1 /\ pc = "receive" /\ decoder = InitDecoder
      /\ temp_array = <<>> /\ packets = <<>>
  BY DEF Init
<1>3. sent \in Seq(Seq(Bytes)) /\ starts \in Seq(Nat) /\ disturbed \in BOOLEAN
      /\ line \in Seq(Symbols)
  BY <1>1, BusAssumption DEF IsLine
<1>4. IsDecoder(decoder)
  BY <1>2, DecoderStaysInByte
<1>5. decoder \in [bitCounter : 0 .. 9, mask : 0 .. 128, tempByte : Bytes, finalByte : Bytes,
                   complete : BOOLEAN]
  BY <1>4, DecoderType DEF Decoders
<1>6. TypeOK
  BY <1>2, <1>3, <1>5 DEF TypeOK, VAN_MAX_PACKET_LEN
<1> QED BY <1>2, <1>4, <1>6 DEF ArrayInv, VAN_MAX_PACKET_LEN

LEMMA ReceiveTypes ==
    ASSUME TypeOK, ArrayInv, Receive PROVE TypeOK' /\ ArrayInv'
<1>1. PICK n \in 2 .. Len(line) :
        received_symbols' = SubSeq(line, 2, n - 1) /\ line' = SubSeq(line, n, Len(line))
  BY DEF Receive
<1>2. i' = 1 /\ pc' = "parse" /\ decoder' = InitDecoder /\ temp_array' = <<>>
      /\ UNCHANGED <<sent, starts, disturbed, packets>>
  BY DEF Receive
<1>3. line \in Seq(Symbols) /\ Len(line) \in Nat
  BY DEF TypeOK
<1>4. received_symbols' \in Seq(Symbols)
  BY <1>1, <1>3, SubSeqProperties
<1>5. line' \in Seq(Symbols)
  BY <1>1, <1>3, SubSeqProperties
<1>6. IsDecoder(decoder')
  BY <1>2, DecoderStaysInByte
<1>7. decoder' \in [bitCounter : 0 .. 9, mask : 0 .. 128, tempByte : Bytes, finalByte : Bytes,
                    complete : BOOLEAN]
  BY <1>6, DecoderType DEF Decoders
<1>8. i' \in 1 .. Len(received_symbols') + 1
  BY <1>2, <1>4
<1>9. TypeOK'
  BY <1>2, <1>4, <1>5, <1>7, <1>8 DEF TypeOK, VAN_MAX_PACKET_LEN
<1> QED BY <1>2, <1>6, <1>9 DEF ArrayInv, VAN_MAX_PACKET_LEN

LEMMA ParseLevelTypes ==
    ASSUME TypeOK, ArrayInv, ParseLevel PROVE TypeOK' /\ ArrayInv'
<1>1. pc = "parse" /\ i' = i + 1 /\ UNCHANGED <<sent, starts, disturbed, line, received_symbols, pc, packets>>
  BY DEF ParseLevel, busVars
<1>2. i \in 1 .. Len(received_symbols) /\ (i % 2 = 1 => Len(temp_array) < VAN_MAX_PACKET_LEN)
  <2>1. Len(temp_array) \in Nat /\ Len(received_symbols) \in Nat
    BY DEF TypeOK
  <2> QED BY <2>1 DEF ParseLevel, MoreToParse, IsFull, TypeOK, VAN_MAX_PACKET_LEN
<1>3. received_symbols[i] \in Symbols
  BY <1>2 DEF TypeOK
<1>4. PICK jitter \in Jitters :
        decoder' = ParseByte(decoder, received_symbols[i].level,
                             received_symbols[i].slices * 8 + jitter)
  BY DEF ParseLevel
<1>5. IsDecoder(decoder')
  <2>1. received_symbols[i].level \in {0, 1} /\ received_symbols[i].slices \in Nat
    BY <1>3 DEF Symbols
  <2>2. received_symbols[i].slices * 8 + jitter \in Int
    BY <2>1, JitterAssumption
  <2> QED BY <1>4, <2>1, <2>2, ParseByteIsDecoder DEF ArrayInv
<1>6. decoder' \in [bitCounter : 0 .. 9, mask : 0 .. 128, tempByte : Bytes, finalByte : Bytes,
                    complete : BOOLEAN]
  BY <1>5, DecoderType DEF Decoders
<1>7. temp_array' = Append(temp_array, decoder'.finalByte) \/ temp_array' = temp_array
  BY DEF ParseLevel
<1>8. temp_array' \in Seq(Bytes) /\ Len(temp_array') <= Len(temp_array) + 1
  <2>1. decoder'.finalByte \in Bytes
    BY <1>6
  <2>2. temp_array \in Seq(Bytes) /\ Len(temp_array) \in Nat
    BY DEF TypeOK
  <2>3. CASE temp_array' = Append(temp_array, decoder'.finalByte)
    BY <2>1, <2>2, <2>3, AppendProperties
  <2>4. CASE temp_array' = temp_array
    BY <2>2, <2>4
  <2> QED BY <1>7, <2>3, <2>4
<1>9. /\ Len(temp_array') <= VAN_MAX_PACKET_LEN + 1
      /\ i' % 2 = 0 => Len(temp_array') <= VAN_MAX_PACKET_LEN
  <2>1. Len(temp_array) \in Nat /\ Len(temp_array') \in Nat /\ i \in Nat
    BY <1>2, <1>8 DEF TypeOK
  <2>2. CASE i % 2 = 1
    BY <1>2, <1>8, <2>1, <2>2 DEF VAN_MAX_PACKET_LEN
  <2>3. CASE i % 2 = 0
    <3>1. Len(temp_array) <= 40 /\ i' % 2 = 1
      BY <1>1, <2>1, <2>3 DEF ArrayInv, VAN_MAX_PACKET_LEN
    <3> QED BY <1>8, <2>1, <3>1 DEF VAN_MAX_PACKET_LEN
  <2> QED BY <2>1, <2>2, <2>3
<1>10. i' \in 1 .. Len(received_symbols') + 1
  BY <1>1, <1>2 DEF TypeOK
<1>11. TypeOK'
  <2>1. Len(temp_array') < VAN_MAX_PACKET_LEN + 10
    BY <1>8, <1>9 DEF VAN_MAX_PACKET_LEN
  <2> QED BY <1>1, <1>6, <1>8, <1>10, <2>1 DEF TypeOK
<1> QED BY <1>5, <1>9, <1>11 DEF ArrayInv

Identifiers == 0 .. 4095
Packets == [iden : Identifiers, data : Seq(Bytes)]

LEMMA PacketOfFrame ==
    ASSUME NEW frame \in Seq(Bytes), Len(frame) > 5
    PROVE  PacketOf(frame) \in Packets
<1>1. frame[2] \in Bytes /\ frame[3] \in Bytes
  OBVIOUS
<1>2. SubSeq(frame, 4, Len(frame) - 2) \in Seq(Bytes)
  BY SubSeqProperties
<1>3. PICK byte1 \in Bytes, byte2 \in Bytes : byte1 = frame[2] /\ byte2 = frame[3]
  BY <1>1
<1>4. PICK iden \in Identifiers : iden = GetIdenFromBytes(byte1, byte2)
  <2>1. GetIdenFromBytes(byte1, byte2) \in 0 .. 4095
    BY SMTT(30) DEF GetIdenFromBytes, Bytes
  <2>2. GetIdenFromBytes(byte1, byte2) \in Identifiers
    BY <2>1 DEF Identifiers
  <2> QED BY <2>2, Zenon
<1>5. PICK data \in Seq(Bytes) : data = SubSeq(frame, 4, Len(frame) - 2)
  BY <1>2
<1>6. [iden |-> iden, data |-> data] \in Packets
  BY DEF Packets
<1> QED BY <1>3, <1>4, <1>5, <1>6, Zenon DEF PacketOf

LEMMA ParseEndsTypes ==
    ASSUME TypeOK, ArrayInv, ParseEnds PROVE TypeOK' /\ ArrayInv'
<1>1. /\ pc' = "receive"
      /\ UNCHANGED <<sent, starts, disturbed, line, received_symbols, i, decoder, temp_array>>
  BY DEF ParseEnds, busVars
<1>2. packets' \in Seq([iden : 0 .. 4095, data : Seq(Bytes)])
  <2>1. packets \in Seq(Packets) /\ temp_array \in Seq(Bytes) /\ Len(temp_array) \in Nat
    BY DEF TypeOK, Packets, Identifiers
  <2>2. CASE packets' = packets
    BY <2>1, <2>2 DEF Packets, Identifiers
  <2>3. CASE Len(temp_array) > 5 /\ packets' = Append(packets, PacketOf(temp_array))
    <3>1. PICK packet \in Packets : packet = PacketOf(temp_array)
      BY <2>1, <2>3, PacketOfFrame
    <3>2. packets' \in Seq(Packets)
      BY <2>1, <2>3, <3>1
    <3> QED BY <3>2 DEF Packets, Identifiers
  <2> QED BY <2>2, <2>3 DEF ParseEnds, IsAccepted
<1>3. TypeOK'
  BY <1>1, <1>2 DEF TypeOK
<1> QED BY <1>1, <1>3 DEF ArrayInv

\* The variables keep their types, and with that the bytes of a reception fit into
\* temp_array, although its length is looked at for every second level only, whatever is
\* on the bus and however it is disturbed (van_rmt_task.c:22-87).
THEOREM TypeCorrect == Spec => []TypeOK
<1>1. Init => TypeOK /\ ArrayInv
  BY InitTypes
<1>2. TypeOK /\ ArrayInv /\ [Next]_vars => TypeOK' /\ ArrayInv'
  <2> SUFFICES ASSUME TypeOK, ArrayInv, [Next]_vars PROVE TypeOK' /\ ArrayInv'
    OBVIOUS
  <2>1. CASE Receive
    BY <2>1, ReceiveTypes
  <2>2. CASE ParseLevel
    BY <2>2, ParseLevelTypes
  <2>3. CASE ParseEnds
    BY <2>3, ParseEndsTypes
  <2>4. CASE UNCHANGED vars
    BY <2>4 DEF TypeOK, ArrayInv, vars, busVars
  <2> QED BY <2>1, <2>2, <2>3, <2>4 DEF Next
<1> QED BY <1>1, <1>2, PTL DEF Spec

----------------------------------------------------------------------------
(* What a frame is decoded to *)

\* The state of the decoder when the first k slices of a byte are behind it: the bits
\* that were there are in tempByte.
Mask == <<128, 64, 32, 16, 8, 8, 4, 2, 1, 0>>
Unit == <<256, 128, 64, 32, 16, 16, 8, 4, 2, 1>>
DecodedTo(d, byte, k) ==
    /\ d.bitCounter = k
    /\ d.mask = Mask[k + 1]
    /\ d.tempByte = byte - (byte % Unit[k + 1])

LEMMA SliceDecodes ==
    ASSUME NEW d, IsRecord(d), NEW byte \in Bytes, NEW k \in 0 .. 8, NEW level \in {0, 1},
           DecodedTo(d, byte, k), k # 4 => level = (byte \div Weight[k + 1]) % 2
    PROVE  /\ IsRecord(Slice(d, level))
           /\ DecodedTo(Slice(d, level), byte, k + 1)
           /\ Slice(d, level).finalByte = d.finalByte
           /\ Slice(d, level).complete = d.complete
<1>1. PICK n, m, t, f, c : d = Decoder(n, m, t, f, c) /\ f \in Bytes /\ c \in BOOLEAN
  BY DEF IsRecord
<1>2. d.bitCounter = n /\ d.mask = m /\ d.tempByte = t /\ d.finalByte = f /\ d.complete = c
  BY <1>1 DEF Decoder
<1>3. ASSUME NEW n2, NEW m2, NEW t2, Slice(d, level) = Decoder(n2, m2, t2, f, c),
             n2 = k + 1, m2 = Mask[k + 2], t2 = byte - (byte % Unit[k + 2])
      PROVE  /\ IsRecord(Slice(d, level))
             /\ DecodedTo(Slice(d, level), byte, k + 1)
             /\ Slice(d, level).finalByte = d.finalByte
             /\ Slice(d, level).complete = d.complete
  <2>1. k + 1 + 1 = k + 2
    OBVIOUS
  <2> QED BY <1>1, <1>2, <1>3, <2>1 DEF IsRecord, DecodedTo, Decoder
<1>4. byte \in 0 .. 255
  BY DEF Bytes
<1>5. CASE k = 0
  <2>1. n = 0 /\ m = 128 /\ t = byte - (byte % 256) /\ level = (byte \div 128) % 2
    <3>1. Mask[k + 1] = 128 /\ Unit[k + 1] = 256 /\ Weight[k + 1] = 128
      BY <1>5 DEF Mask, Unit, Weight
    <3>2. k # 4
      BY <1>5
    <3>3. level = (byte \div Weight[k + 1]) % 2
      BY <3>2
    <3> QED BY <1>2, <1>5, <3>1, <3>3, Zenon DEF DecodedTo
  <2>2. t \in Nat /\ 128 * level \in Nat /\ t + 128 * level = byte - (byte % 128)
    BY <1>4, <2>1
  <2>3. Slice(d, level) = Decoder(1, 64, t + 128 * level, f, c)
    <3>1. 128 * level = level * 128 /\ (0 + 1) % 5 # 0 /\ 128 \div 2 = 64 /\ 0 + 1 = 1
      OBVIOUS
    <3>2. Slice(Decoder(0, 128, t, f, c), level) = Decoder(0 + 1, 128 \div 2, t + 128 * level, f, c)
      BY <2>2, <3>1, SliceWithBit
    <3> QED BY <1>1, <2>1, <3>1, <3>2
  <2>4. Mask[k + 2] = 64 /\ Unit[k + 2] = 128
    BY <1>5 DEF Mask, Unit
  <2> QED BY <1>3, <1>5, <2>2, <2>3, <2>4
<1>6. CASE k = 1
  <2>1. n = 1 /\ m = 64 /\ t = byte - (byte % 128) /\ level = (byte \div 64) % 2
    <3>1. Mask[k + 1] = 64 /\ Unit[k + 1] = 128 /\ Weight[k + 1] = 64
      BY <1>6 DEF Mask, Unit, Weight
    <3>2. k # 4
      BY <1>6
    <3>3. level = (byte \div Weight[k + 1]) % 2
      BY <3>2
    <3> QED BY <1>2, <1>6, <3>1, <3>3, Zenon DEF DecodedTo
  <2>2. t \in Nat /\ 64 * level \in Nat /\ t + 64 * level = byte - (byte % 64)
    BY <1>4, <2>1
  <2>3. Slice(d, level) = Decoder(2, 32, t + 64 * level, f, c)
    <3>1. 64 * level = level * 64 /\ (1 + 1) % 5 # 0 /\ 64 \div 2 = 32 /\ 1 + 1 = 2
      OBVIOUS
    <3>2. Slice(Decoder(1, 64, t, f, c), level) = Decoder(1 + 1, 64 \div 2, t + 64 * level, f, c)
      BY <2>2, <3>1, SliceWithBit
    <3> QED BY <1>1, <2>1, <3>1, <3>2
  <2>4. Mask[k + 2] = 32 /\ Unit[k + 2] = 64
    BY <1>6 DEF Mask, Unit
  <2> QED BY <1>3, <1>6, <2>2, <2>3, <2>4
<1>7. CASE k = 2
  <2>1. n = 2 /\ m = 32 /\ t = byte - (byte % 64) /\ level = (byte \div 32) % 2
    <3>1. Mask[k + 1] = 32 /\ Unit[k + 1] = 64 /\ Weight[k + 1] = 32
      BY <1>7 DEF Mask, Unit, Weight
    <3>2. k # 4
      BY <1>7
    <3>3. level = (byte \div Weight[k + 1]) % 2
      BY <3>2
    <3> QED BY <1>2, <1>7, <3>1, <3>3, Zenon DEF DecodedTo
  <2>2. t \in Nat /\ 32 * level \in Nat /\ t + 32 * level = byte - (byte % 32)
    BY <1>4, <2>1
  <2>3. Slice(d, level) = Decoder(3, 16, t + 32 * level, f, c)
    <3>1. 32 * level = level * 32 /\ (2 + 1) % 5 # 0 /\ 32 \div 2 = 16 /\ 2 + 1 = 3
      OBVIOUS
    <3>2. Slice(Decoder(2, 32, t, f, c), level) = Decoder(2 + 1, 32 \div 2, t + 32 * level, f, c)
      BY <2>2, <3>1, SliceWithBit
    <3> QED BY <1>1, <2>1, <3>1, <3>2
  <2>4. Mask[k + 2] = 16 /\ Unit[k + 2] = 32
    BY <1>7 DEF Mask, Unit
  <2> QED BY <1>3, <1>7, <2>2, <2>3, <2>4
<1>8. CASE k = 3
  <2>1. n = 3 /\ m = 16 /\ t = byte - (byte % 32) /\ level = (byte \div 16) % 2
    <3>1. Mask[k + 1] = 16 /\ Unit[k + 1] = 32 /\ Weight[k + 1] = 16
      BY <1>8 DEF Mask, Unit, Weight
    <3>2. k # 4
      BY <1>8
    <3>3. level = (byte \div Weight[k + 1]) % 2
      BY <3>2
    <3> QED BY <1>2, <1>8, <3>1, <3>3, Zenon DEF DecodedTo
  <2>2. t \in Nat /\ 16 * level \in Nat /\ t + 16 * level = byte - (byte % 16)
    BY <1>4, <2>1
  <2>3. Slice(d, level) = Decoder(4, 8, t + 16 * level, f, c)
    <3>1. 16 * level = level * 16 /\ (3 + 1) % 5 # 0 /\ 16 \div 2 = 8 /\ 3 + 1 = 4
      OBVIOUS
    <3>2. Slice(Decoder(3, 16, t, f, c), level) = Decoder(3 + 1, 16 \div 2, t + 16 * level, f, c)
      BY <2>2, <3>1, SliceWithBit
    <3> QED BY <1>1, <2>1, <3>1, <3>2
  <2>4. Mask[k + 2] = 8 /\ Unit[k + 2] = 16
    BY <1>8 DEF Mask, Unit
  <2> QED BY <1>3, <1>8, <2>2, <2>3, <2>4
<1>9. CASE k = 4
  <2>1. n = 4 /\ m = 8 /\ t = byte - (byte % 16)
    <3>1. Mask[k + 1] = 8 /\ Unit[k + 1] = 16
      BY <1>9 DEF Mask, Unit
    <3> QED BY <1>2, <1>9, <3>1 DEF DecodedTo
  <2>2. Slice(d, level) = Decoder(5, 8, t, f, c)
    BY <1>1, <2>1, SliceWithoutBit
  <2>3. Mask[k + 2] = 8 /\ Unit[k + 2] = 16
    BY <1>9 DEF Mask, Unit
  <2> QED BY <1>3, <1>9, <2>1, <2>2, <2>3
<1>10. CASE k = 5
  <2>1. n = 5 /\ m = 8 /\ t = byte - (byte % 16) /\ level = (byte \div 8) % 2
    <3>1. Mask[k + 1] = 8 /\ Unit[k + 1] = 16 /\ Weight[k + 1] = 8
      BY <1>10 DEF Mask, Unit, Weight
    <3>2. k # 4
      BY <1>10
    <3>3. level = (byte \div Weight[k + 1]) % 2
      BY <3>2
    <3> QED BY <1>2, <1>10, <3>1, <3>3, Zenon DEF DecodedTo
  <2>2. t \in Nat /\ 8 * level \in Nat /\ t + 8 * level = byte - (byte % 8)
    BY <1>4, <2>1
  <2>3. Slice(d, level) = Decoder(6, 4, t + 8 * level, f, c)
    <3>1. 8 * level = level * 8 /\ (5 + 1) % 5 # 0 /\ 8 \div 2 = 4 /\ 5 + 1 = 6
      OBVIOUS
    <3>2. Slice(Decoder(5, 8, t, f, c), level) = Decoder(5 + 1, 8 \div 2, t + 8 * level, f, c)
      BY <2>2, <3>1, SliceWithBit
    <3> QED BY <1>1, <2>1, <3>1, <3>2
  <2>4. Mask[k + 2] = 4 /\ Unit[k + 2] = 8
    BY <1>10 DEF Mask, Unit
  <2> QED BY <1>3, <1>10, <2>2, <2>3, <2>4
<1>11. CASE k = 6
  <2>1. n = 6 /\ m = 4 /\ t = byte - (byte % 8) /\ level = (byte \div 4) % 2
    <3>1. Mask[k + 1] = 4 /\ Unit[k + 1] = 8 /\ Weight[k + 1] = 4
      BY <1>11 DEF Mask, Unit, Weight
    <3>2. k # 4
      BY <1>11
    <3>3. level = (byte \div Weight[k + 1]) % 2
      BY <3>2
    <3> QED BY <1>2, <1>11, <3>1, <3>3, Zenon DEF DecodedTo
  <2>2. t \in Nat /\ 4 * level \in Nat /\ t + 4 * level = byte - (byte % 4)
    BY <1>4, <2>1
  <2>3. Slice(d, level) = Decoder(7, 2, t + 4 * level, f, c)
    <3>1. 4 * level = level * 4 /\ (6 + 1) % 5 # 0 /\ 4 \div 2 = 2 /\ 6 + 1 = 7
      OBVIOUS
    <3>2. Slice(Decoder(6, 4, t, f, c), level) = Decoder(6 + 1, 4 \div 2, t + 4 * level, f, c)
      BY <2>2, <3>1, SliceWithBit
    <3> QED BY <1>1, <2>1, <3>1, <3>2
  <2>4. Mask[k + 2] = 2 /\ Unit[k + 2] = 4
    BY <1>11 DEF Mask, Unit
  <2> QED BY <1>3, <1>11, <2>2, <2>3, <2>4
<1>12. CASE k = 7
  <2>1. n = 7 /\ m = 2 /\ t = byte - (byte % 4) /\ level = (byte \div 2) % 2
    <3>1. Mask[k + 1] = 2 /\ Unit[k + 1] = 4 /\ Weight[k + 1] = 2
      BY <1>12 DEF Mask, Unit, Weight
    <3>2. k # 4
      BY <1>12
    <3>3. level = (byte \div Weight[k + 1]) % 2
      BY <3>2
    <3> QED BY <1>2, <1>12, <3>1, <3>3, Zenon DEF DecodedTo
  <2>2. t \in Nat /\ 2 * level \in Nat /\ t + 2 * level = byte - (byte % 2)
    BY <1>4, <2>1
  <2>3. Slice(d, level) = Decoder(8, 1, t + 2 * level, f, c)
    <3>1. 2 * level = level * 2 /\ (7 + 1) % 5 # 0 /\ 2 \div 2 = 1 /\ 7 + 1 = 8
      OBVIOUS
    <3>2. Slice(Decoder(7, 2, t, f, c), level) = Decoder(7 + 1, 2 \div 2, t + 2 * level, f, c)
      BY <2>2, <3>1, SliceWithBit
    <3> QED BY <1>1, <2>1, <3>1, <3>2
  <2>4. Mask[k + 2] = 1 /\ Unit[k + 2] = 2
    BY <1>12 DEF Mask, Unit
  <2> QED BY <1>3, <1>12, <2>2, <2>3, <2>4
<1>13. CASE k = 8
  <2>1. n = 8 /\ m = 1 /\ t = byte - (byte % 2) /\ level = (byte \div 1) % 2
    <3>1. Mask[k + 1] = 1 /\ Unit[k + 1] = 2 /\ Weight[k + 1] = 1
      BY <1>13 DEF Mask, Unit, Weight
    <3>2. k # 4
      BY <1>13
    <3>3. level = (byte \div Weight[k + 1]) % 2
      BY <3>2
    <3> QED BY <1>2, <1>13, <3>1, <3>3, Zenon DEF DecodedTo
  <2>2. t \in Nat /\ 1 * level \in Nat /\ t + 1 * level = byte - (byte % 1)
    BY <1>4, <2>1
  <2>3. Slice(d, level) = Decoder(9, 0, t + 1 * level, f, c)
    <3>1. 1 * level = level * 1 /\ (8 + 1) % 5 # 0 /\ 1 \div 2 = 0 /\ 8 + 1 = 9
      OBVIOUS
    <3>2. Slice(Decoder(8, 1, t, f, c), level) = Decoder(8 + 1, 1 \div 2, t + 1 * level, f, c)
      BY <2>2, <3>1, SliceWithBit
    <3> QED BY <1>1, <2>1, <3>1, <3>2
  <2>4. Mask[k + 2] = 0 /\ Unit[k + 2] = 1
    BY <1>13 DEF Mask, Unit
  <2> QED BY <1>3, <1>13, <2>2, <2>3, <2>4
<1> QED BY <1>5, <1>6, <1>7, <1>8, <1>9, <1>10, <1>11, <1>12, <1>13

LEMMA LastSliceDecodes ==
    ASSUME NEW d, IsRecord(d), NEW byte \in Bytes, NEW level \in {0, 1},
           DecodedTo(d, byte, 9)
    PROVE  /\ IsRecord(Slice(d, level))
           /\ \A next \in Bytes : DecodedTo(Slice(d, level), next, 0)
           /\ Slice(d, level).finalByte = byte
           /\ Slice(d, level).complete = TRUE
<1>1. PICK n, m, t, f, c : d = Decoder(n, m, t, f, c)
  BY DEF IsRecord
<1>2. n = 9 /\ t = byte
  <2>1. d.bitCounter = n /\ d.tempByte = t
    BY <1>1 DEF Decoder
  <2>2. byte - (byte % 1) = byte
    BY DEF Bytes
  <2> QED BY <2>1, <2>2 DEF DecodedTo, Unit
<1>3. d = Decoder(9, m, byte, f, c)
  BY <1>1, <1>2
<1>4. Slice(d, level) = Completed(byte)
  BY <1>3, LastSlice
<1>5. Completed(byte) = [bitCounter |-> 0, mask |-> 128, tempByte |-> 0, finalByte |-> byte,
                         complete |-> TRUE]
  BY DEF Completed, InitDecoder
<1>6. \A next \in Bytes : next - (next % 256) = 0
  BY DEF Bytes
<1>7. Mask[0 + 1] = 128 /\ Unit[0 + 1] = 256
  BY DEF Mask, Unit
<1> QED BY <1>4, <1>5, <1>6, <1>7 DEF IsRecord, DecodedTo, Decoder

\* The slices of a frame as bits of bytes: what follows the bytes, 1 and 0, begins
\* another one.
ByteAt(frame, b) == IF b < Len(frame) THEN frame[b + 1] ELSE 128
LEMMA FrameSliceIsBit ==
    ASSUME NEW frame \in Seq(Bytes), Len(frame) > 0, NEW b \in Nat, NEW k \in 0 .. 9,
           10 * b + k < FrameLength(frame)
    PROVE  /\ FrameSlice(frame, 10 * b + k) \in {0, 1}
           /\ ByteAt(frame, b) \in Bytes
           /\ k \notin {4, 9} =>
                FrameSlice(frame, 10 * b + k) = (ByteAt(frame, b) \div Weight[k + 1]) % 2
<1>1. PICK n \in Nat \ {0} : n = Len(frame)
  OBVIOUS
<1>2. 10 * b + k < 10 * n + 2 /\ (10 * b + k) \div 10 = b /\ (10 * b + k) % 10 = k
  BY <1>1 DEF FrameLength
<1>3. CASE b < n
  <2>1. b + 1 \in 1 .. Len(frame) /\ ByteAt(frame, b) = frame[b + 1]
    BY <1>1, <1>3 DEF ByteAt
  <2>2. PICK byte \in 0 .. 255 : byte = frame[b + 1]
    <3>1. frame[b + 1] \in Bytes
      BY <2>1, ElementOfSeq
    <3> QED BY <3>1 DEF Bytes
  <2>3. (byte \div Weight[k + 1]) % 2 \in {0, 1}
    <3>1. Weight[k + 1] \in {128, 64, 32, 16, 8, 4, 2, 1}
      BY DEF Weight
    <3>2. byte \div Weight[k + 1] \in Nat
      BY <3>1
    <3> QED BY <3>2
  <2>4. CASE 10 * b + k >= 10 * n - 1
    <3>1. k = 9 /\ 10 * b + k # 10 * n
      BY <1>3, <2>4
    <3>2. FrameSlice(frame, 10 * b + k) = 0
      BY <1>1, <2>4, <3>1 DEF FrameSlice
    <3> QED BY <2>1, <2>2, <3>1, <3>2 DEF Bytes
  <2>5. CASE ~(10 * b + k >= 10 * n - 1)
    <3>1. FrameSlice(frame, 10 * b + k) = ByteSlice(byte, k)
      BY <1>1, <1>2, <2>2, <2>5 DEF FrameSlice
    <3> QED BY <2>1, <2>2, <2>3, <3>1 DEF ByteSlice, Bytes
  <2> QED BY <2>4, <2>5
<1>4. CASE b >= n
  <2>1. b = n /\ k \in {0, 1} /\ ByteAt(frame, b) = 128
    BY <1>1, <1>2, <1>4 DEF ByteAt
  <2>2. FrameSlice(frame, 10 * b + k) = IF k = 0 THEN 1 ELSE 0
    BY <1>1, <2>1 DEF FrameSlice
  <2>3. (128 \div Weight[k + 1]) % 2 = IF k = 0 THEN 1 ELSE 0
    BY <2>1 DEF Weight
  <2> QED BY <2>1, <2>2, <2>3 DEF Bytes
<1> QED BY <1>1, <1>3, <1>4

LEMMA ByteAtIsByte ==
    ASSUME NEW frame \in Seq(Bytes), NEW b \in Nat
    PROVE  ByteAt(frame, b) \in Bytes
<1>1. CASE b < Len(frame)
  <2>1. b + 1 \in 1 .. Len(frame)
    BY <1>1
  <2>2. frame[b + 1] \in Bytes
    BY <2>1, ElementOfSeq
  <2> QED BY <1>1, <2>2 DEF ByteAt
<1>2. CASE ~(b < Len(frame))
  BY <1>2 DEF ByteAt, Bytes
<1> QED BY <1>1, <1>2

\* A level of less than ten slices: its bits go into the byte, and when the byte is
\* complete, into the next one.
Reaches(frame, b, k, e) ==
    /\ IsDecoder(e)
    /\ k < 10 => DecodedTo(e, ByteAt(frame, b), k) /\ e.complete = FALSE
    /\ k >= 10 => /\ DecodedTo(e, ByteAt(frame, b + 1), k - 10)
                  /\ e.complete = TRUE /\ e.finalByte = ByteAt(frame, b)
LEMMA SliceReaches ==
    ASSUME NEW frame \in Seq(Bytes), Len(frame) > 0, NEW b \in Nat, NEW k \in 0 .. 18,
           10 * b + k < FrameLength(frame), NEW e, Reaches(frame, b, k, e)
    PROVE  Reaches(frame, b, k + 1, Slice(e, FrameSlice(frame, 10 * b + k)))
<1>1. IsDecoder(e) /\ IsRecord(e) /\ b + 1 \in Nat
  BY DEF Reaches, IsDecoder
<1>2. ByteAt(frame, b) \in Bytes /\ ByteAt(frame, b + 1) \in Bytes
  BY <1>1, ByteAtIsByte
<1> DEFINE level == FrameSlice(frame, 10 * b + k)
           byte == ByteAt(frame, b)
           following == ByteAt(frame, b + 1)
<1>3. CASE k < 9
  <2>1. k \in 0 .. 9 /\ k \in 0 .. 8 /\ k < 10 /\ k + 1 < 10 /\ ~(k + 1 >= 10)
    BY <1>3
  <2>2. level \in {0, 1} /\ (k \notin {4, 9} => level = (byte \div Weight[k + 1]) % 2)
    BY <2>1, FrameSliceIsBit
  <2>3. DecodedTo(e, byte, k) /\ e.complete = FALSE
    BY <2>1 DEF Reaches
  <2>4. k # 4 => level = (byte \div Weight[k + 1]) % 2
    BY <2>1, <2>2
  <2> HIDE DEF level, byte
  <2>5. /\ DecodedTo(Slice(e, level), byte, k + 1)
        /\ Slice(e, level).complete = e.complete
    BY <1>1, <1>2, <2>1, <2>2, <2>3, <2>4, SliceDecodes DEF byte
  <2>6. IsDecoder(Slice(e, level))
    BY <1>1, <2>2, DecoderStaysInByte
  <2>7. Slice(e, level).complete = FALSE
    BY <2>3, <2>5
  <2> QED BY <2>1, <2>5, <2>6, <2>7 DEF Reaches, level, byte
<1>4. CASE k = 9
  <2>1. k \in 0 .. 9 /\ k < 10 /\ k + 1 >= 10 /\ ~(k + 1 < 10) /\ k + 1 - 10 = 0
    BY <1>4
  <2>2. level \in {0, 1}
    BY <2>1, FrameSliceIsBit
  <2>3. DecodedTo(e, byte, 9)
    BY <1>4, <2>1 DEF Reaches
  <2> HIDE DEF level, byte, following
  <2>4. /\ DecodedTo(Slice(e, level), following, 0)
        /\ Slice(e, level).complete = TRUE /\ Slice(e, level).finalByte = byte
    BY <1>1, <1>2, <2>2, <2>3, LastSliceDecodes DEF byte, following
  <2>5. IsDecoder(Slice(e, level))
    BY <1>1, <2>2, DecoderStaysInByte
  <2> QED BY <2>1, <2>4, <2>5 DEF Reaches, level, byte, following
<1>5. CASE k > 9
  <2>1. PICK j \in 0 .. 8 : k = j + 10
    <3>1. k - 10 \in 0 .. 8 /\ k = (k - 10) + 10
      BY <1>5
    <3> QED BY <3>1
  <2>2. /\ j \in 0 .. 9 /\ k >= 10 /\ k - 10 = j /\ k + 1 >= 10 /\ ~(k + 1 < 10)
        /\ k + 1 - 10 = j + 1 /\ 10 * b + k = 10 * (b + 1) + j
    BY <2>1
  <2>3. level \in {0, 1} /\ (j \notin {4, 9} => level = (following \div Weight[j + 1]) % 2)
    <3>1. /\ FrameSlice(frame, 10 * (b + 1) + j) \in {0, 1}
          /\ j \notin {4, 9} =>
                FrameSlice(frame, 10 * (b + 1) + j) = (ByteAt(frame, b + 1) \div Weight[j + 1]) % 2
      BY <1>1, <2>2, FrameSliceIsBit
    <3> QED BY <2>2, <3>1
  <2>4. DecodedTo(e, following, j) /\ e.complete = TRUE /\ e.finalByte = byte
    BY <2>2 DEF Reaches
  <2>5. j # 4 => level = (following \div Weight[j + 1]) % 2
    BY <2>1, <2>3
  <2> HIDE DEF level, byte, following
  <2>6. /\ DecodedTo(Slice(e, level), following, j + 1)
        /\ Slice(e, level).finalByte = e.finalByte
        /\ Slice(e, level).complete = e.complete
    BY <1>1, <1>2, <2>3, <2>4, <2>5, SliceDecodes DEF following
  <2>7. IsDecoder(Slice(e, level))
    BY <1>1, <2>3, DecoderStaysInByte
  <2>8. Slice(e, level).complete = TRUE /\ Slice(e, level).finalByte = byte
    BY <2>4, <2>6
  <2> QED BY <2>2, <2>6, <2>7, <2>8 DEF Reaches, level, byte, following
<1> QED BY <1>3, <1>4, <1>5

LEMMA LevelReaches ==
    ASSUME NEW frame \in Seq(Bytes), Len(frame) > 0, NEW b \in Nat, NEW k \in 0 .. 9,
           NEW d, Reaches(frame, b, k, d), NEW level \in {0, 1}, NEW n \in 0 .. 9,
           10 * b + k + n <= FrameLength(frame),
           \A x \in 0 .. n - 1 : FrameSlice(frame, 10 * b + k + x) = level
    PROVE  Reaches(frame, b, k + n, SlicesOf(d, level, n))
<1> DEFINE S == {x \in Nat : x <= n => Reaches(frame, b, k + x, SlicesOf(d, level, x))}
<1>1. IsDecoder(d)
  BY DEF Reaches
<1>2. 0 \in S
  <2>1. SlicesOf(d, level, 0) = d
    BY <1>1, SlicesOfTurns
  <2>2. k + 0 = k
    OBVIOUS
  <2> QED BY <2>1, <2>2
<1>3. ASSUME NEW x \in S PROVE x + 1 \in S
  <2>1. SUFFICES ASSUME x + 1 <= n
                 PROVE  Reaches(frame, b, k + (x + 1), SlicesOf(d, level, x + 1))
    OBVIOUS
  <2>2. PICK m \in 0 .. 18 : m = k + x
    BY <2>1
  <2>3. Reaches(frame, b, m, SlicesOf(d, level, x))
    BY <2>1, <2>2
  <2>4. SlicesOf(d, level, x + 1) = Slice(SlicesOf(d, level, x), level)
    <3>1. x \in Nat
      OBVIOUS
    <3> HIDE DEF S
    <3> QED BY <1>1, <3>1, SlicesOfTurns
  <2>5. 10 * b + m < FrameLength(frame) /\ m + 1 = k + (x + 1)
    BY <2>1, <2>2 DEF FrameLength
  <2>6. level = FrameSlice(frame, 10 * b + m)
    <3>1. x \in 0 .. n - 1 /\ 10 * b + m = 10 * b + k + x
      BY <2>1, <2>2
    <3> QED BY <3>1
  <2>7. Reaches(frame, b, m + 1, Slice(SlicesOf(d, level, x), FrameSlice(frame, 10 * b + m)))
    BY <2>3, <2>5, SliceReaches
  <2> QED BY <2>4, <2>5, <2>6, <2>7
<1>4. S \in SUBSET Nat
  OBVIOUS
<1>5. S = Nat
  <2> HIDE DEF S
  <2> QED BY <1>2, <1>3, <1>4, Induction
<1> QED BY <1>5

\* A duration of so many slices, a little off, is rounded to just so many.
LEMMA DurationIsRounded ==
    ASSUME NEW n \in 1 .. 10, NEW jitter \in -3 .. 4
    PROVE  CountOfTimeSlices(n * 8 + jitter) = n
<1>1. PICK duration \in Bytes : duration = n * 8 + jitter
  BY DEF Bytes
<1>2. n \in Nat /\ 8 * n < 256 /\ 8 * n < duration + 8 \div 2 /\ duration <= 8 * n + 8 \div 2
  BY <1>1
<1>3. 8 \in TimeSlices
  BY DEF TimeSlices
<1>4. RoundToNearest(duration, 8) = 8 * n
  BY <1>2, <1>3, RoundingTolerance, Zenon
<1>5. duration % 256 = duration /\ (8 * n) \div 8 = n
  BY DEF Bytes
<1> QED BY <1>1, <1>4, <1>5 DEF CountOfTimeSlices, rmt_rx_time_slice_divisor

----------------------------------------------------------------------------
(* The line of a bus that is not disturbed *)

IsBus(frames, begins) ==
    /\ frames \in Seq(Seq(Bytes)) /\ frames # <<>>
    /\ \A k \in 1 .. Len(frames) : IsFrame(frames[k])
    /\ begins \in Seq(Nat) /\ Follow(frames, begins)

\* What is left of the line: it carries what the bus does, up to its end.
LineOf(levels, frames, begins) ==
    /\ IsLine(levels)
    /\ levels[Len(levels)].at + levels[Len(levels)].slices
        = End(frames, begins, Len(frames)) + GapLength
    /\ \A n \in 1 .. Len(levels) : Carry(levels[n], frames, begins)

LEMMA FrameFacts ==
    ASSUME NEW frames, NEW begins, IsBus(frames, begins), NEW k \in 1 .. Len(frames)
    PROVE  /\ frames[k] \in Seq(Bytes) /\ Len(frames[k]) \in 5 .. 33
           /\ frames[k][1] = 14
           /\ begins[k] \in Nat
           /\ End(frames, begins, k) = begins[k] + 10 * Len(frames[k]) + 2
           /\ begins[k] = End(frames, begins, k - 1) + 12
<1>1. frames[k] \in Seq(Bytes) /\ Len(frames[k]) \in 5 .. 33 /\ frames[k][1] = 14
  BY DEF IsBus, IsFrame, StartOfFrame
<1>2. Len(begins) = Len(frames) /\ begins \in Seq(Nat) /\ k \in 1 .. Len(begins)
  BY DEF IsBus, Follow
<1>3. begins[k] \in Nat
  BY <1>2, ElementOfSeq
<1>4. k # 0
  BY <1>2
<1>5. End(frames, begins, k) = begins[k] + (10 * Len(frames[k]) + 2)
  BY <1>4 DEF End, FrameLength
<1>6. begins[k] = End(frames, begins, k - 1) + 12
  BY <1>2 DEF IsBus, Follow, GapLength
<1>7. begins[k] + (10 * Len(frames[k]) + 2) = begins[k] + 10 * Len(frames[k]) + 2
  BY <1>1, <1>3
<1> QED BY <1>1, <1>3, <1>5, <1>6, <1>7

LEMMA EndIsNatural ==
    ASSUME NEW frames, NEW begins, IsBus(frames, begins), NEW k \in 0 .. Len(frames)
    PROVE  End(frames, begins, k) \in Nat
<1>1. CASE k = 0
  BY <1>1 DEF End
<1>2. CASE k # 0
  <2>1. k \in 1 .. Len(frames)
    BY <1>2
  <2>2. begins[k] \in Nat /\ Len(frames[k]) \in Nat
        /\ End(frames, begins, k) = begins[k] + 10 * Len(frames[k]) + 2
    BY <2>1, FrameFacts
  <2> QED BY <2>2
<1> QED BY <1>1, <1>2

LEMMA EndsGrow ==
    ASSUME NEW frames, NEW begins, IsBus(frames, begins),
           NEW j \in 0 .. Len(frames), NEW k \in 0 .. Len(frames), j <= k
    PROVE  End(frames, begins, j) <= End(frames, begins, k)
<1> DEFINE S == {x \in Nat : j + x <= Len(frames) =>
                                End(frames, begins, j) <= End(frames, begins, j + x)}
<1>1. Len(frames) \in Nat
  BY DEF IsBus
<1>2. 0 \in S
  <2>1. j + 0 = j /\ End(frames, begins, j) \in Nat
    BY EndIsNatural
  <2> QED BY <2>1
<1>3. ASSUME NEW x \in S PROVE x + 1 \in S
  <2>1. SUFFICES ASSUME j + (x + 1) <= Len(frames)
                 PROVE  End(frames, begins, j) <= End(frames, begins, j + (x + 1))
    OBVIOUS
  <2>2. PICK m \in 1 .. Len(frames) : m = j + (x + 1)
    BY <1>1, <2>1
  <2>3. j + x = m - 1 /\ j + x <= Len(frames) /\ m - 1 \in 0 .. Len(frames)
    BY <1>1, <2>1, <2>2
  <2>4. End(frames, begins, j) <= End(frames, begins, m - 1)
    BY <2>3
  <2>5. /\ begins[m] \in Nat /\ Len(frames[m]) \in Nat
        /\ End(frames, begins, m) = begins[m] + 10 * Len(frames[m]) + 2
        /\ begins[m] = End(frames, begins, m - 1) + 12
    BY FrameFacts
  <2>6. End(frames, begins, j) \in Nat /\ End(frames, begins, m - 1) \in Nat
    BY <2>3, EndIsNatural
  <2>7. End(frames, begins, j) <= End(frames, begins, m)
    BY <2>4, <2>5, <2>6
  <2> QED BY <2>2, <2>7
<1>4. S \in SUBSET Nat
  OBVIOUS
<1>5. S = Nat
  <2> HIDE DEF S
  <2> QED BY <1>2, <1>3, <1>4, Induction
<1>6. k - j \in Nat /\ j + (k - j) = k
  BY <1>1
<1>7. k - j \in S
  BY <1>5, <1>6
<1> QED BY <1>1, <1>6, <1>7

LEMMA SymbolFacts ==
    ASSUME NEW levels, levels \in Seq(Symbols), NEW n \in 1 .. Len(levels)
    PROVE  /\ levels[n].level \in {0, 1} /\ levels[n].at \in Nat
           /\ levels[n].slices \in Nat /\ levels[n].slices > 0
<1>1. levels[n] \in Symbols
  BY ElementOfSeq
<1> QED BY <1>1 DEF Symbols

\* The levels follow one another.
LEMMA LineGrows ==
    ASSUME NEW levels, IsLine(levels), NEW m \in 1 .. Len(levels), NEW n \in 1 .. Len(levels),
           m < n
    PROVE  levels[m].at + levels[m].slices <= levels[n].at
<1> DEFINE S == {x \in Nat : m + 1 + x <= Len(levels) =>
                                levels[m].at + levels[m].slices <= levels[m + 1 + x].at}
<1>1. Len(levels) \in Nat /\ levels \in Seq(Symbols)
  BY DEF IsLine
<1>2. 0 \in S
  <2>1. SUFFICES ASSUME m + 1 <= Len(levels)
                 PROVE  levels[m].at + levels[m].slices <= levels[m + 1].at
    OBVIOUS
  <2>2. m \in 1 .. Len(levels) - 1 /\ m + 1 \in 1 .. Len(levels)
    BY <1>1, <2>1
  <2>3. levels[m + 1].at = levels[m].at + levels[m].slices
    BY <2>2 DEF IsLine
  <2>4. levels[m + 1].at \in Nat
    BY <1>1, <2>2, SymbolFacts
  <2> QED BY <2>3, <2>4
<1>3. ASSUME NEW x \in S PROVE x + 1 \in S
  <2>1. SUFFICES ASSUME m + 1 + (x + 1) <= Len(levels)
                 PROVE  levels[m].at + levels[m].slices <= levels[m + 1 + (x + 1)].at
    OBVIOUS
  <2>2. PICK y \in 1 .. Len(levels) - 1 : y = m + 1 + x
    BY <1>1, <2>1
  <2>3. y + 1 = m + 1 + (x + 1) /\ m + 1 + x <= Len(levels) /\ y + 1 \in 1 .. Len(levels)
        /\ y \in 1 .. Len(levels)
    BY <1>1, <2>1, <2>2
  <2>4. levels[m].at + levels[m].slices <= levels[y].at
    BY <2>2, <2>3
  <2>5. levels[y + 1].at = levels[y].at + levels[y].slices
    BY DEF IsLine
  <2>6. /\ levels[y].at \in Nat /\ levels[y].slices \in Nat
        /\ levels[m].at \in Nat /\ levels[m].slices \in Nat
    BY <1>1, <2>3, SymbolFacts
  <2>7. levels[m].at + levels[m].slices <= levels[y + 1].at
    BY <2>4, <2>5, <2>6
  <2> QED BY <2>3, <2>7
<1>4. S \in SUBSET Nat
  OBVIOUS
<1>5. S = Nat
  <2> HIDE DEF S
  <2> QED BY <1>2, <1>3, <1>4, Induction
<1>6. n - (m + 1) \in Nat /\ m + 1 + (n - (m + 1)) = n
  BY <1>1
<1>7. n - (m + 1) \in S
  BY <1>5, <1>6
<1> QED BY <1>1, <1>6, <1>7

\* No level ends after the line does.
LEMMA LineEnds ==
    ASSUME NEW levels, IsLine(levels), NEW n \in 1 .. Len(levels)
    PROVE  levels[n].at + levels[n].slices
            <= levels[Len(levels)].at + levels[Len(levels)].slices
<1>1. Len(levels) \in 1 .. Len(levels) /\ levels \in Seq(Symbols) /\ Len(levels) \in Nat
  BY DEF IsLine
<1>2. /\ levels[n].at \in Nat /\ levels[n].slices \in Nat
      /\ levels[Len(levels)].at \in Nat /\ levels[Len(levels)].slices \in Nat
  BY <1>1, SymbolFacts
<1>3. CASE n = Len(levels)
  BY <1>2, <1>3
<1>4. CASE n # Len(levels)
  <2>1. n < Len(levels)
    BY <1>1, <1>4
  <2>2. levels[n].at + levels[n].slices <= levels[Len(levels)].at
    BY <1>1, <2>1, LineGrows
  <2> QED BY <1>2, <2>2
<1> QED BY <1>3, <1>4

\* What a level is at a slice of a frame, and at one of a gap.
LEMMA CarriedFrame ==
    ASSUME NEW levels, NEW frames, NEW begins, IsBus(frames, begins),
           LineOf(levels, frames, begins), NEW n \in 1 .. Len(levels),
           NEW k \in 1 .. Len(frames), NEW t \in Nat,
           levels[n].at <= t, t < levels[n].at + levels[n].slices,
           begins[k] <= t, t < End(frames, begins, k)
    PROVE  levels[n].level = FrameSlice(frames[k], t - begins[k])
<1>1. /\ levels[n].at \in Nat /\ levels[n].slices \in Nat
      /\ begins[k] \in Nat /\ End(frames, begins, k) \in Nat
  <2>1. levels \in Seq(Symbols) /\ k \in 0 .. Len(frames)
    BY DEF LineOf, IsLine
  <2> QED BY <2>1, SymbolFacts, FrameFacts, EndIsNatural
<1>2. /\ t \in levels[n].at .. levels[n].at + levels[n].slices - 1
      /\ t \in begins[k] .. End(frames, begins, k) - 1
  BY <1>1
<1>3. Carry(levels[n], frames, begins)
  BY DEF LineOf
<1> QED BY <1>2, <1>3 DEF Carry

LEMMA CarriedGap ==
    ASSUME NEW levels, NEW frames, NEW begins, IsBus(frames, begins),
           LineOf(levels, frames, begins), NEW n \in 1 .. Len(levels),
           NEW k \in 0 .. Len(frames), NEW t \in Nat,
           levels[n].at <= t, t < levels[n].at + levels[n].slices,
           End(frames, begins, k) <= t, t < End(frames, begins, k) + 12
    PROVE  levels[n].level = 1
<1>1. /\ levels[n].at \in Nat /\ levels[n].slices \in Nat
      /\ End(frames, begins, k) \in Nat
  <2>1. levels \in Seq(Symbols)
    BY DEF LineOf, IsLine
  <2> QED BY <2>1, SymbolFacts, EndIsNatural
<1>2. /\ t \in levels[n].at .. levels[n].at + levels[n].slices - 1
      /\ t \in End(frames, begins, k) .. End(frames, begins, k) + GapLength - 1
  BY <1>1 DEF GapLength
<1>3. Carry(levels[n], frames, begins)
  BY DEF LineOf
<1> QED BY <1>2, <1>3 DEF Carry

\* A frame begins and ends with a 0.
LEMMA FrameBorders ==
    ASSUME NEW frame \in Seq(Bytes), Len(frame) \in 5 .. 33, frame[1] = 14
    PROVE  FrameSlice(frame, 0) = 0 /\ FrameSlice(frame, 10 * Len(frame) + 1) = 0
<1>1. PICK n \in 5 .. 33 : n = Len(frame)
  OBVIOUS
<1>2. FrameSlice(frame, 0) = 0
  <2>1. ~(0 >= 10 * n - 1) /\ (0 \div 10) + 1 = 1 /\ 0 % 10 = 0
    BY <1>1
  <2>2. FrameSlice(frame, 0) = ByteSlice(14, 0)
    BY <1>1, <2>1 DEF FrameSlice
  <2>3. ByteSlice(14, 0) = 0
    <3>1. Weight[0 + 1] = 128
      BY DEF Weight
    <3>2. (14 \div 128) % 2 = 0
      OBVIOUS
    <3> QED BY <3>1, <3>2 DEF ByteSlice
  <2> QED BY <2>2, <2>3
<1>3. FrameSlice(frame, 10 * n + 1) = 0
  <2>1. 10 * n + 1 >= 10 * n - 1 /\ 10 * n + 1 # 10 * n
    BY <1>1
  <2> QED BY <1>1, <2>1 DEF FrameSlice
<1> QED BY <1>1, <1>2, <1>3

\* Of any ten slices of a frame two neighbours differ: a bit and its complement, or the
\* end of data and the acknowledgement.
LEMMA FrameChanges ==
    ASSUME NEW frame \in Seq(Bytes), NEW q \in Nat, q + 9 <= 10 * Len(frame) + 1
    PROVE  \E r \in q .. q + 8 : FrameSlice(frame, r) # FrameSlice(frame, r + 1)
<1>1. PICK n \in Nat : n = Len(frame)
  OBVIOUS
<1>2. CASE q + 9 >= 10 * n
  <2>1. PICK r \in Nat : r = 10 * n - 1
    BY <1>1, <1>2
  <2>2. r \in q .. q + 8
    BY <1>1, <1>2, <2>1
  <2>3. r >= 10 * n - 1 /\ r # 10 * n /\ r + 1 >= 10 * n - 1 /\ r + 1 = 10 * n
    BY <2>1
  <2>4. FrameSlice(frame, r) = 0 /\ FrameSlice(frame, r + 1) = 1
    BY <1>1, <2>3 DEF FrameSlice
  <2> QED BY <2>2, <2>4
<1>3. CASE q + 9 < 10 * n
  <2>1. PICK b \in Nat, k \in {3, 8} : 10 * b + k \in q .. q + 4
    <3>1. PICK x \in Nat, y \in 0 .. 9 : q = 10 * x + y
      <4>1. q \div 10 \in Nat /\ q % 10 \in 0 .. 9 /\ q = 10 * (q \div 10) + (q % 10)
        OBVIOUS
      <4> QED BY <4>1
    <3>2. CASE y <= 3
      BY <3>1, <3>2
    <3>3. CASE y > 3 /\ y <= 8
      BY <3>1, <3>3
    <3>4. CASE y = 9
      <4>1. x + 1 \in Nat /\ 10 * (x + 1) + 3 \in q .. q + 4
        BY <3>1, <3>4
      <4> QED BY <4>1
    <3> QED BY <3>2, <3>3, <3>4
  <2>2. PICK r \in q .. q + 8 : r = 10 * b + k
    BY <2>1
  <2>3. /\ ~(r >= 10 * n - 1) /\ ~(r + 1 >= 10 * n - 1)
        /\ r \div 10 = b /\ (r + 1) \div 10 = b /\ r % 10 = k /\ (r + 1) % 10 = k + 1
        /\ b + 1 \in 1 .. n
    BY <1>1, <1>3, <2>1, <2>2
  <2>4. PICK byte \in 0 .. 255 : byte = frame[b + 1]
    <3>1. frame[b + 1] \in Bytes
      BY <1>1, <2>3, ElementOfSeq
    <3> QED BY <3>1 DEF Bytes
  <2>5. FrameSlice(frame, r) = ByteSlice(byte, k)
    BY <1>1, <2>3, <2>4 DEF FrameSlice
  <2>6. FrameSlice(frame, r + 1) = ByteSlice(byte, k + 1)
    BY <1>1, <2>3, <2>4 DEF FrameSlice
  <2>7. ByteSlice(byte, k) # ByteSlice(byte, k + 1)
    <3>1. CASE k = 3
      <4>1. Weight[3 + 1] = 16 /\ Weight[4 + 1] = 16 /\ 3 \notin {4, 9} /\ 3 + 1 = 4
        BY DEF Weight
      <4>2. ByteSlice(byte, 3) = (byte \div 16) % 2 /\ ByteSlice(byte, 4) = 1 - ((byte \div 16) % 2)
        BY <4>1 DEF ByteSlice
      <4> QED BY <3>1, <4>1, <4>2
    <3>2. CASE k = 8
      <4>1. Weight[8 + 1] = 1 /\ Weight[9 + 1] = 1 /\ 8 \notin {4, 9} /\ 8 + 1 = 9
        BY DEF Weight
      <4>2. ByteSlice(byte, 8) = (byte \div 1) % 2 /\ ByteSlice(byte, 9) = 1 - ((byte \div 1) % 2)
        BY <4>1 DEF ByteSlice
      <4> QED BY <3>2, <4>1, <4>2
    <3> QED BY <3>1, <3>2
  <2> QED BY <2>2, <2>5, <2>6, <2>7
<1> QED BY <1>1, <1>2, <1>3

\* A level that begins where a frame has ended is the whole gap.
LEMMA LevelOfGap ==
    ASSUME NEW levels, NEW frames, NEW begins, IsBus(frames, begins),
           LineOf(levels, frames, begins), NEW n \in 1 .. Len(levels),
           NEW j \in 0 .. Len(frames), levels[n].at = End(frames, begins, j)
    PROVE  /\ levels[n].level = 1 /\ levels[n].slices = 12
           /\ n = Len(levels) <=> j = Len(frames)
<1>1. IsLine(levels) /\ levels \in Seq(Symbols) /\ Len(levels) \in Nat /\ Len(frames) \in Nat
      /\ Len(levels) \in 1 .. Len(levels)
  BY DEF LineOf, IsLine, IsBus
<1>2. PICK a \in Nat, c \in Nat \ {0} : a = levels[n].at /\ c = levels[n].slices
  BY <1>1, SymbolFacts
<1>3. PICK e \in Nat : e = End(frames, begins, Len(frames))
  <2>1. Len(frames) \in 0 .. Len(frames)
    BY <1>1
  <2> QED BY <2>1, EndIsNatural
<1>4. a <= e
  <2>1. Len(frames) \in 0 .. Len(frames)
    BY <1>1
  <2> QED BY <1>1, <1>2, <1>3, <2>1, EndsGrow
<1>5. levels[Len(levels)].at + levels[Len(levels)].slices = e + 12
  BY <1>3 DEF LineOf, GapLength
<1>6. levels[n].level = 1
  BY <1>2, CarriedGap
<1>7. a + c <= e + 12
  BY <1>1, <1>2, <1>5, LineEnds
<1>8. ASSUME j # Len(frames) PROVE a + c <= a + 12
  <2>1. SUFFICES ASSUME a + c > a + 12 PROVE FALSE
    BY <1>2
  <2>2. j + 1 \in 1 .. Len(frames) /\ (j + 1) - 1 = j
    BY <1>1, <1>8
  <2>3. PICK k \in 1 .. Len(frames) : k = j + 1 /\ k - 1 = j
    BY <2>2
  <2>4. /\ frames[k] \in Seq(Bytes) /\ Len(frames[k]) \in 5 .. 33 /\ frames[k][1] = 14
        /\ begins[k] = a + 12 /\ End(frames, begins, k) = a + 12 + 10 * Len(frames[k]) + 2
    BY <1>2, <2>3, FrameFacts
  <2>5. a + 12 \in Nat /\ levels[n].at <= a + 12 /\ a + 12 < levels[n].at + levels[n].slices
        /\ begins[k] <= a + 12 /\ a + 12 < End(frames, begins, k)
    BY <1>2, <2>1, <2>4, SMTT(30)
  <2>6. levels[n].level = FrameSlice(frames[k], (a + 12) - begins[k])
    BY <2>5, CarriedFrame
  <2>7. (a + 12) - begins[k] = 0
    BY <2>4
  <2>8. FrameSlice(frames[k], 0) = 0
    BY <2>4, FrameBorders
  <2> QED BY <1>6, <2>6, <2>7, <2>8
<1>9. ASSUME n # Len(levels) PROVE a + c >= a + 12 /\ j # Len(frames)
  <2>1. n \in 1 .. Len(levels) - 1 /\ n + 1 \in 1 .. Len(levels)
    BY <1>1, <1>9
  <2>2. levels[n + 1].level = 1 - levels[n].level
        /\ levels[n + 1].at = levels[n].at + levels[n].slices
    BY <1>1, <2>1 DEF IsLine
  <2>3. PICK d \in Nat \ {0} : d = levels[n + 1].slices
    BY <1>1, <2>1, SymbolFacts
  <2>4. a + c + d <= e + 12
    BY <1>1, <1>2, <1>5, <2>1, <2>2, <2>3, LineEnds
  <2>5. a + c >= a + 12
    <3>1. SUFFICES ASSUME a + c < a + 12 PROVE FALSE
      BY <1>2
    <3>2. a + c \in Nat /\ levels[n + 1].at = a + c /\ End(frames, begins, j) = a
      BY <1>2, <2>2
    <3>3. PICK t \in Nat : t = a + c
      BY <3>2
    <3>4. /\ t \in Nat /\ levels[n + 1].at <= t /\ t < levels[n + 1].at + levels[n + 1].slices
          /\ End(frames, begins, j) <= t /\ t < End(frames, begins, j) + 12
      <4>1. t <= t /\ t < t + d /\ a <= t /\ t < a + 12
        BY <1>2, <2>3, <3>1, <3>3, SMTT(30)
      <4> QED BY <2>3, <3>2, <3>3, <4>1
    <3>5. levels[n + 1].level = 1
      BY <2>1, <3>4, CarriedGap
    <3> QED BY <1>6, <2>2, <3>5
  <2>6. j # Len(frames)
    <3>1. SUFFICES ASSUME j = Len(frames) PROVE FALSE
      OBVIOUS
    <3>2. a = e
      BY <1>2, <1>3, <3>1
    <3>3. e + c + d <= e + 12 /\ e + c >= e + 12 /\ d > 0 /\ d \in Nat /\ c \in Nat /\ e \in Nat
      BY <1>2, <1>3, <2>3, <2>4, <2>5, <3>2
    <3> QED BY <3>3
  <2> QED BY <2>5, <2>6
<1>10. ASSUME n = Len(levels) PROVE a + c = e + 12
  BY <1>2, <1>5, <1>10
<1>11. n = Len(levels) => j = Len(frames)
  <2>1. SUFFICES ASSUME n = Len(levels), j # Len(frames) PROVE FALSE
    OBVIOUS
  <2>2. j + 1 \in 1 .. Len(frames) /\ (j + 1) - 1 = j
    BY <1>1, <2>1
  <2>3. PICK k \in 1 .. Len(frames) : k = j + 1 /\ k - 1 = j
    BY <2>2
  <2>4. Len(frames[k]) \in Nat /\ End(frames, begins, k) = a + 12 + 10 * Len(frames[k]) + 2
    BY <1>2, <2>3, FrameFacts
  <2>5. End(frames, begins, k) <= e
    BY <1>1, <1>3, <2>3, EndsGrow
  <2>6. a + c <= a + 12 /\ a + c = e + 12
    BY <1>8, <1>10, <2>1
  <2>7. PICK l \in Nat : l = 10 * Len(frames[k])
    BY <2>4
  <2>8. a + 12 + l + 2 <= e
    BY <2>4, <2>5, <2>7, Zenon
  <2>9. a \in Nat /\ c \in Nat /\ e \in Nat
    BY <1>2, <1>3
  <2>10. e <= a
    BY <2>6, <2>9
  <2>11. e >= a + 14
    BY <2>8, <2>9
  <2> QED BY <2>9, <2>10, <2>11
<1>12. c = 12
  <2>1. CASE n = Len(levels)
    <3>1. a = e
      BY <1>2, <1>3, <1>11, <2>1
    <3> QED BY <1>2, <1>10, <2>1, <3>1
  <2>2. CASE n # Len(levels)
    BY <1>2, <1>8, <1>9, <2>2
  <2> QED BY <2>1, <2>2
<1> QED BY <1>2, <1>6, <1>9, <1>11, <1>12

\* What of the line is behind the levels already received is a line as well.
LEMMA RestOfLine ==
    ASSUME NEW levels, NEW frames, NEW begins, LineOf(levels, frames, begins),
           NEW n \in 1 .. Len(levels)
    PROVE  /\ LineOf(SubSeq(levels, n, Len(levels)), frames, begins)
           /\ Len(SubSeq(levels, n, Len(levels))) = Len(levels) - n + 1
           /\ SubSeq(levels, n, Len(levels))[1] = levels[n]
<1>1. levels \in Seq(Symbols) /\ Len(levels) \in Nat /\ IsLine(levels)
  BY DEF LineOf, IsLine
<1>2. PICK rest : rest = SubSeq(levels, n, Len(levels))
  OBVIOUS
<1>3. /\ rest \in Seq(Symbols) /\ Len(rest) = Len(levels) - n + 1
      /\ \A x \in 1 .. Len(levels) - n + 1 : rest[x] = levels[n + x - 1]
  <2>1. \A x \in n .. Len(levels) : levels[x] \in Symbols
    BY <1>1
  <2> QED BY <1>1, <1>2, <2>1, SubSeqProperties
<1>4. rest # <<>>
  BY <1>1, <1>3
<1>5. ASSUME NEW x \in 1 .. Len(rest) - 1
      PROVE  /\ rest[x + 1].level = 1 - rest[x].level
             /\ rest[x + 1].at = rest[x].at + rest[x].slices
  <2>1. PICK y \in 1 .. Len(levels) - 1 : y = n + x - 1
    BY <1>1, <1>3
  <2>2. rest[x] = levels[y]
    BY <1>1, <1>3, <2>1
  <2>3. rest[x + 1] = levels[y + 1]
    <3>1. x + 1 \in 1 .. Len(levels) - n + 1 /\ n + (x + 1) - 1 = y + 1
      BY <1>1, <1>3, <2>1
    <3> QED BY <1>3, <3>1
  <2> QED BY <1>1, <2>1, <2>2, <2>3 DEF IsLine
<1>6. IsLine(rest)
  BY <1>3, <1>4, <1>5 DEF IsLine
<1>7. rest[Len(rest)] = levels[Len(levels)]
  <2>1. Len(rest) \in 1 .. Len(levels) - n + 1 /\ n + Len(rest) - 1 = Len(levels)
    BY <1>1, <1>3
  <2> QED BY <1>3, <2>1
<1>8. ASSUME NEW x \in 1 .. Len(rest) PROVE Carry(rest[x], frames, begins)
  <2>1. PICK y \in 1 .. Len(levels) : y = n + x - 1
    BY <1>1, <1>3
  <2>2. rest[x] = levels[y]
    BY <1>1, <1>3, <2>1
  <2> QED BY <2>1, <2>2 DEF LineOf
<1>9. LineOf(rest, frames, begins)
  BY <1>6, <1>7, <1>8 DEF LineOf
<1>10. rest[1] = levels[n]
  <2>1. 1 \in 1 .. Len(levels) - n + 1 /\ n + 1 - 1 = n
    BY <1>1
  <2> QED BY <1>3, <2>1
<1> QED BY <1>2, <1>3, <1>9, <1>10

\* A symbol that is part of a frame, and how long it may last there.
InFrame(symbol, frame, begin) ==
    /\ begin <= symbol.at
    /\ symbol.at + symbol.slices <= begin + 10 * Len(frame) + 2
    /\ symbol.slices <= 9
    /\ \A x \in 0 .. symbol.slices - 1 :
        FrameSlice(frame, symbol.at - begin + x) = symbol.level

\* A level that begins in a frame stays in it, is shorter than ten slices, and is not the
\* last one.
LEMMA LevelInFrame ==
    ASSUME NEW levels, NEW frames, NEW begins, IsBus(frames, begins),
           LineOf(levels, frames, begins), NEW n \in 1 .. Len(levels),
           NEW j \in 1 .. Len(frames),
           begins[j] <= levels[n].at, levels[n].at < End(frames, begins, j)
    PROVE  n < Len(levels) /\ InFrame(levels[n], frames[j], begins[j])
<1>1. /\ IsLine(levels) /\ levels \in Seq(Symbols) /\ Len(levels) \in Nat
      /\ Len(frames) \in Nat /\ j \in 0 .. Len(frames) /\ Len(frames) \in 0 .. Len(frames)
  BY DEF LineOf, IsLine, IsBus
<1>2. PICK a \in Nat, c \in Nat \ {0} : a = levels[n].at /\ c = levels[n].slices
  BY <1>1, SymbolFacts
<1>3. PICK b \in Nat, m \in 5 .. 33, frame \in Seq(Bytes) :
        /\ b = begins[j] /\ frame = frames[j] /\ m = Len(frame) /\ frame[1] = 14
        /\ End(frames, begins, j) = b + 10 * m + 2
  <2>1. /\ begins[j] \in Nat /\ Len(frames[j]) \in 5 .. 33 /\ frames[j] \in Seq(Bytes)
        /\ frames[j][1] = 14
        /\ End(frames, begins, j) = begins[j] + 10 * Len(frames[j]) + 2
    BY FrameFacts
  <2> QED BY <2>1, Zenon
<1>4. b <= a /\ a < b + 10 * m + 2
  BY <1>2, <1>3
<1>5. ASSUME NEW t \in Nat, a <= t, t < a + c, t < b + 10 * m + 2
      PROVE  levels[n].level = FrameSlice(frame, t - b)
  <2>1. levels[n].at <= t /\ t < levels[n].at + levels[n].slices
        /\ begins[j] <= t /\ t < End(frames, begins, j)
    BY <1>2, <1>3, <1>4, <1>5
  <2> QED BY <1>3, <2>1, CarriedFrame
<1>6. a + c <= b + 10 * m + 2
  <2> SUFFICES ASSUME a + c > b + 10 * m + 2 PROVE FALSE
    BY <1>2, <1>3, SMTT(30)
  <2>1. PICK t \in Nat, u \in Nat : t = b + 10 * m + 1 /\ u = b + 10 * m + 2
    BY <1>3, SMTT(30)
  <2>2. a <= t /\ t < a + c /\ t < b + 10 * m + 2 /\ t - b = 10 * m + 1
    BY <1>4, <2>1
  <2>3. FrameSlice(frame, 10 * m + 1) = 0
    BY <1>3, FrameBorders
  <2>4. levels[n].level = 0
    BY <1>5, <2>2, <2>3
  <2>5. levels[n].at <= u /\ u < levels[n].at + levels[n].slices
    BY <1>2, <1>3, <1>4, <2>1, SMTT(30)
  <2>6. End(frames, begins, j) <= u /\ u < End(frames, begins, j) + 12
    BY <1>3, <2>1, SMTT(30)
  <2>7. levels[n].level = 1
    BY <1>1, <2>5, <2>6, CarriedGap
  <2> QED BY <2>4, <2>7
<1>7. ASSUME NEW x \in 0 .. c - 1 PROVE FrameSlice(frame, a - b + x) = levels[n].level
  <2>1. PICK t \in Nat : t = a + x
    BY <1>2
  <2>2. a <= t /\ t < a + c /\ t < b + 10 * m + 2 /\ t - b = a - b + x
    BY <1>6, <2>1
  <2> QED BY <1>5, <2>2
<1>8. c <= 9
  <2> SUFFICES ASSUME c > 9 PROVE FALSE
    BY <1>2
  <2>1. PICK q \in Nat : q = a - b
    BY <1>4
  <2>2. q + 9 <= 10 * m + 1
    BY <1>6, <2>1
  <2>3. PICK r \in q .. q + 8 : FrameSlice(frame, r) # FrameSlice(frame, r + 1)
    BY <1>3, <2>2, FrameChanges
  <2>4. PICK x \in 0 .. c - 1 : a - b + x = r
    <3>1. r - q \in 0 .. c - 1 /\ a - b + (r - q) = r
      BY <2>1
    <3> QED BY <3>1
  <2>5. PICK y \in 0 .. c - 1 : a - b + y = r + 1
    <3>1. r + 1 - q \in 0 .. c - 1 /\ a - b + (r + 1 - q) = r + 1
      BY <2>1
    <3> QED BY <3>1
  <2>6. FrameSlice(frame, r) = levels[n].level
    BY <1>7, <2>4
  <2>7. FrameSlice(frame, r + 1) = levels[n].level
    BY <1>7, <2>5
  <2> QED BY <2>3, <2>6, <2>7
<1>9. n < Len(levels)
  <2> SUFFICES ASSUME n = Len(levels) PROVE FALSE
    BY <1>1
  <2>1. PICK e \in Nat : e = End(frames, begins, Len(frames))
    BY <1>1, EndIsNatural
  <2>2. a + c = e + 12
    BY <1>2, <2>1 DEF LineOf, GapLength
  <2>3. b + 10 * m + 2 <= e
    BY <1>1, <1>3, <2>1, EndsGrow
  <2> QED BY <1>2, <1>3, <1>6, <2>1, <2>2, <2>3
<1>10. InFrame(levels[n], frame, b)
  BY <1>2, <1>3, <1>4, <1>6, <1>7, <1>8 DEF InFrame
<1> QED BY <1>3, <1>9, <1>10

\* The symbols of a frame: levels that follow one another from its first slice to its last.
FrameSymbols(symbols, frame, begin) ==
    LET n == Len(symbols)
    IN  /\ symbols \in Seq(Symbols) /\ symbols # <<>>
        /\ symbols[1].at = begin
        /\ \A x \in 1 .. n - 1 : symbols[x + 1].at = symbols[x].at + symbols[x].slices
        /\ symbols[n].at + symbols[n].slices = begin + 10 * Len(frame) + 2
        /\ \A x \in 1 .. n : InFrame(symbols[x], frame, begin)

\* A reception that begins in a gap is the frame behind it, whole and nothing else, and it
\* ends in the gap behind the frame.
LEMMA FrameReceived ==
    ASSUME NEW levels, NEW frames, NEW begins, IsBus(frames, begins),
           LineOf(levels, frames, begins), NEW j \in 0 .. Len(frames),
           levels[1].at = End(frames, begins, j),
           NEW n \in 2 .. Len(levels), levels[n].slices >= 10,
           \A x \in 2 .. n - 1 : levels[x].slices <= 10
    PROVE  \E k \in 1 .. Len(frames) :
            /\ k - 1 = j
            /\ levels[n].at = End(frames, begins, k)
            /\ FrameSymbols(SubSeq(levels, 2, n - 1), frames[k], begins[k])
<1>1. /\ IsLine(levels) /\ levels \in Seq(Symbols) /\ Len(levels) \in Nat
      /\ Len(frames) \in Nat
  BY DEF LineOf, IsLine, IsBus
<1>2. levels[1].slices = 12 /\ j # Len(frames)
  <2>1. 1 \in 1 .. Len(levels) /\ 1 # Len(levels)
    BY <1>1
  <2> QED BY <2>1, LevelOfGap
<1>3. PICK k \in 1 .. Len(frames) : k - 1 = j
  <2>1. j + 1 \in 1 .. Len(frames) /\ (j + 1) - 1 = j
    BY <1>1, <1>2
  <2> QED BY <2>1
<1>4. PICK b \in Nat, m \in 5 .. 33, frame \in Seq(Bytes) :
        /\ b = begins[k] /\ frame = frames[k] /\ m = Len(frame)
        /\ End(frames, begins, k) = b + 10 * m + 2
        /\ b = End(frames, begins, j) + 12
  <2>1. /\ begins[k] \in Nat /\ Len(frames[k]) \in 5 .. 33 /\ frames[k] \in Seq(Bytes)
        /\ End(frames, begins, k) = begins[k] + 10 * Len(frames[k]) + 2
        /\ begins[k] = End(frames, begins, k - 1) + 12
    BY FrameFacts
  <2> QED BY <1>3, <2>1, Zenon
<1>5. levels[2].at = b
  <2>1. 1 \in 1 .. Len(levels) - 1 /\ 1 + 1 = 2
    BY <1>1
  <2>2. levels[2].at = levels[1].at + levels[1].slices
    BY <1>1, <2>1 DEF IsLine
  <2> QED BY <1>2, <1>4, <2>2
<1>6. ASSUME NEW x \in 2 .. n, levels[x].at >= b, levels[x].at < b + 10 * m + 2
      PROVE  /\ x # n /\ InFrame(levels[x], frame, b) /\ x + 1 \in 2 .. n
             /\ levels[x + 1].at = levels[x].at + levels[x].slices
             /\ levels[x + 1].at >= b /\ levels[x + 1].at <= b + 10 * m + 2
  <2>1. x \in 1 .. Len(levels)
    BY <1>1
  <2>2. PICK a \in Nat, c \in Nat : a = levels[x].at /\ c = levels[x].slices
    BY <1>1, <2>1, SymbolFacts
  <2>3. begins[k] <= levels[x].at /\ levels[x].at < End(frames, begins, k)
    BY <1>4, <1>6, <2>2
  <2>4. x < Len(levels) /\ InFrame(levels[x], frame, b)
    <3>1. x < Len(levels) /\ InFrame(levels[x], frames[k], begins[k])
      BY <2>1, <2>3, LevelInFrame
    <3> QED BY <1>4, <3>1
  <2>5. c <= 9 /\ a + c <= b + 10 * m + 2
    BY <1>4, <2>2, <2>4 DEF InFrame
  <2>6. x # n
    BY <2>2, <2>5
  <2>7. x + 1 \in 2 .. n /\ x \in 1 .. Len(levels) - 1
    BY <1>1, <2>4, <2>6
  <2>8. levels[x + 1].at = a + c
    BY <1>1, <2>2, <2>7 DEF IsLine
  <2>9. a + c >= b
    BY <1>6, <2>2
  <2> QED BY <2>2, <2>4, <2>5, <2>6, <2>7, <2>8, <2>9
<1>7. ASSUME NEW x \in 2 .. n - 1, levels[x].at >= b, levels[x].at <= b + 10 * m + 2
      PROVE  levels[x].at < b + 10 * m + 2
  <2>1. x \in 1 .. Len(levels) /\ k \in 0 .. Len(frames)
    BY <1>1
  <2>2. PICK a \in Nat, c \in Nat : a = levels[x].at /\ c = levels[x].slices
    BY <1>1, <2>1, SymbolFacts
  <2>3. SUFFICES ASSUME a = b + 10 * m + 2 PROVE FALSE
    BY <1>7, <2>2
  <2>4. levels[x].at = End(frames, begins, k)
    BY <1>4, <2>2, <2>3
  <2>5. levels[x].slices = 12
    BY <2>1, <2>4, LevelOfGap
  <2>6. levels[x].slices <= 10
    OBVIOUS
  <2> QED BY <2>5, <2>6
<1> DEFINE S == {x \in Nat : x + 2 <= n =>
                    levels[x + 2].at >= b /\ levels[x + 2].at <= b + 10 * m + 2}
<1>8. 0 \in S
  BY <1>4, <1>5
<1>9. ASSUME NEW x \in S PROVE x + 1 \in S
  <2>1. SUFFICES ASSUME (x + 1) + 2 <= n
                 PROVE  levels[(x + 1) + 2].at >= b /\ levels[(x + 1) + 2].at <= b + 10 * m + 2
    OBVIOUS
  <2>2. PICK y \in 2 .. n - 1 : y = x + 2 /\ y + 1 = (x + 1) + 2 /\ y \in 2 .. n
    <3>1. x + 2 \in 2 .. n - 1 /\ x + 2 \in 2 .. n /\ (x + 2) + 1 = (x + 1) + 2
      BY <2>1
    <3> QED BY <3>1
  <2>3. levels[y].at >= b /\ levels[y].at <= b + 10 * m + 2
    <3>1. x + 2 <= n
      BY <2>1
    <3> QED BY <2>2, <3>1
  <2>4. levels[y].at < b + 10 * m + 2
    BY <1>7, <2>3
  <2>5. levels[y + 1].at >= b /\ levels[y + 1].at <= b + 10 * m + 2
    BY <1>6, <2>2, <2>3, <2>4
  <2> QED BY <2>2, <2>5
<1>10. S \in SUBSET Nat
  OBVIOUS
<1>11. S = Nat
  <2> HIDE DEF S
  <2> QED BY <1>8, <1>9, <1>10, Induction
<1>12. ASSUME NEW x \in 2 .. n
       PROVE  levels[x].at >= b /\ levels[x].at <= b + 10 * m + 2
  <2>1. x - 2 \in Nat /\ (x - 2) + 2 = x /\ x <= n
    OBVIOUS
  <2>2. x - 2 \in S
    BY <1>11, <2>1
  <2> QED BY <2>1, <2>2
<1> HIDE DEF S
<1>13. ASSUME NEW x \in 2 .. n - 1
       PROVE  /\ InFrame(levels[x], frame, b) /\ levels[x] \in Symbols
              /\ levels[x + 1].at = levels[x].at + levels[x].slices
  <2>1. x \in 2 .. n /\ x \in 1 .. Len(levels)
    BY <1>1
  <2>2. levels[x] \in Symbols
    BY <1>1, <2>1, ElementOfSeq
  <2> QED BY <1>6, <1>7, <1>12, <2>1, <2>2
<1>14. levels[n].at = b + 10 * m + 2
  <2>1. n \in 2 .. n /\ n \in 1 .. Len(levels)
    BY <1>1
  <2>2. levels[n].at \in Nat
    BY <1>1, <2>1, SymbolFacts
  <2>3. levels[n].at >= b /\ levels[n].at <= b + 10 * m + 2
    BY <1>12, <2>1
  <2>4. ~(levels[n].at < b + 10 * m + 2)
    BY <1>6, <2>1, <2>3
  <2> QED BY <2>2, <2>3, <2>4
<1>15. n > 2
  <2>1. n # 2
    BY <1>4, <1>5, <1>14
  <2> QED BY <2>1
<1>16. PICK symbols : symbols = SubSeq(levels, 2, n - 1)
  OBVIOUS
<1>17. /\ symbols \in Seq(Symbols) /\ Len(symbols) = n - 2
       /\ \A x \in 1 .. n - 2 : symbols[x] = levels[x + 1]
  <2>1. \A x \in 2 .. n - 1 : levels[x] \in Symbols
    BY <1>13
  <2>2. 2 \in Int /\ n - 1 \in Int /\ 2 <= n - 1 /\ (n - 1) - 2 + 1 = n - 2
    BY <1>15
  <2>3. /\ symbols \in Seq(Symbols) /\ Len(symbols) = (n - 1) - 2 + 1
        /\ \A x \in 1 .. (n - 1) - 2 + 1 : symbols[x] = levels[2 + x - 1]
    BY <1>16, <2>1, <2>2, SubSeqProperties
  <2>4. ASSUME NEW x \in 1 .. n - 2 PROVE symbols[x] = levels[x + 1]
    <3>1. 2 + x - 1 = x + 1 /\ x \in 1 .. (n - 1) - 2 + 1
      BY <2>2
    <3> QED BY <2>3, <3>1
  <2> QED BY <2>2, <2>3, <2>4
<1>18. FrameSymbols(symbols, frame, b)
  <2>1. symbols # <<>>
    BY <1>15, <1>17
  <2>2. symbols[1].at = b
    <3>1. 1 \in 1 .. n - 2 /\ 1 + 1 = 2
      BY <1>15
    <3>2. symbols[1] = levels[2]
      BY <1>17, <3>1
    <3> QED BY <1>5, <3>2
  <2>3. ASSUME NEW x \in 1 .. n - 2
        PROVE  /\ InFrame(symbols[x], frame, b)
               /\ levels[x + 2].at = symbols[x].at + symbols[x].slices
    <3>1. PICK y \in 2 .. n - 1 : y = x + 1 /\ y + 1 = x + 2
      OBVIOUS
    <3>2. symbols[x] = levels[y]
      BY <1>17, <3>1
    <3>3. /\ InFrame(levels[y], frame, b)
          /\ levels[y + 1].at = levels[y].at + levels[y].slices
      BY <1>13
    <3> QED BY <3>1, <3>2, <3>3
  <2>4. ASSUME NEW x \in 1 .. (n - 2) - 1
        PROVE  symbols[x + 1].at = symbols[x].at + symbols[x].slices
    <3>1. x \in 1 .. n - 2 /\ x + 1 \in 1 .. n - 2 /\ (x + 1) + 1 = x + 2
      OBVIOUS
    <3>2. symbols[x + 1] = levels[x + 2]
      BY <1>17, <3>1
    <3> QED BY <2>3, <3>1, <3>2
  <2>5. symbols[n - 2].at + symbols[n - 2].slices = b + 10 * m + 2
    <3>1. n - 2 \in 1 .. n - 2 /\ (n - 2) + 2 = n
      BY <1>15
    <3> QED BY <1>14, <2>3, <3>1
  <2> QED BY <1>4, <1>17, <2>1, <2>2, <2>3, <2>4, <2>5 DEF FrameSymbols
<1>19. levels[n].at = End(frames, begins, k)
  BY <1>4, <1>14
<1> QED BY <1>3, <1>4, <1>16, <1>18, <1>19

\* A symbol of a frame is decoded to its slices, although its duration is a little off.
LEMMA SymbolReaches ==
    ASSUME NEW frame \in Seq(Bytes), Len(frame) > 0, NEW begin \in Nat,
           NEW symbol \in Symbols, InFrame(symbol, frame, begin),
           NEW b \in Nat, NEW k \in 0 .. 9, symbol.at = begin + 10 * b + k,
           NEW d, IsDecoder(d), DecodedTo(d, ByteAt(frame, b), k), NEW jitter \in -3 .. 4
    PROVE  Reaches(frame, b, k + symbol.slices,
                   ParseByte(d, symbol.level, symbol.slices * 8 + jitter))
<1>1. PICK level \in {0, 1}, c \in 1 .. 9 : level = symbol.level /\ c = symbol.slices
  <2>1. symbol.level \in {0, 1} /\ symbol.slices \in Nat /\ symbol.slices > 0
    BY DEF Symbols
  <2>2. symbol.slices \in 1 .. 9
    BY <2>1, SMTT(30) DEF InFrame
  <2> QED BY <2>1, <2>2
<1>2. PICK e : e = [d EXCEPT !.complete = FALSE]
  OBVIOUS
<1>3. IsDecoder(e)
  BY <1>2, CompleteIsDecoder
<1>4. /\ e.bitCounter = d.bitCounter /\ e.mask = d.mask /\ e.tempByte = d.tempByte
      /\ e.complete = FALSE
  <2>1. d = Decoder(d.bitCounter, d.mask, d.tempByte, d.finalByte, d.complete)
    BY DEF IsDecoder, IsRecord
  <2> QED BY <1>2, <2>1 DEF Decoder
<1>5. Reaches(frame, b, k, e)
  <2>1. DecodedTo(e, ByteAt(frame, b), k)
    BY <1>4 DEF DecodedTo
  <2>2. k < 10
    OBVIOUS
  <2> QED BY <1>3, <1>4, <2>1, <2>2 DEF Reaches
<1>6. PICK m \in Nat : m = Len(frame)
  OBVIOUS
<1>7. symbol.at + c <= begin + 10 * m + 2
      /\ \A x \in 0 .. c - 1 : FrameSlice(frame, symbol.at - begin + x) = level
  BY <1>1, <1>6 DEF InFrame
<1>8. begin + 10 * b + k + c <= begin + 10 * m + 2
  BY <1>7
<1>9. 10 * b + k + c <= FrameLength(frame)
  BY <1>6, <1>8 DEF FrameLength
<1>10. ASSUME NEW x \in 0 .. c - 1 PROVE FrameSlice(frame, 10 * b + k + x) = level
  <2>1. symbol.at - begin + x = 10 * b + k + x
    OBVIOUS
  <2>2. FrameSlice(frame, symbol.at - begin + x) = level
    BY <1>7
  <2> QED BY <2>1, <2>2, Zenon
<1>11. Reaches(frame, b, k + c, SlicesOf(e, level, c))
  <2>1. c \in 0 .. 9
    OBVIOUS
  <2> QED BY <1>5, <1>9, <1>10, <2>1, LevelReaches
<1>12. CountOfTimeSlices(c * 8 + jitter) = c
  <2>1. c \in 1 .. 10
    OBVIOUS
  <2> QED BY <2>1, DurationIsRounded
<1> QED BY <1>1, <1>2, <1>11, <1>12 DEF ParseByte

----------------------------------------------------------------------------
(* The packets of the frames *)

LEMMA WantedSteps ==
    ASSUME NEW frames \in Seq(Seq(Bytes))
    PROVE  /\ WantedOf(frames, 0) = <<>>
           /\ \A k \in 0 .. Len(frames) : WantedOf(frames, k) \in Seq(Packets)
           /\ \A k \in 1 .. Len(frames) :
                WantedOf(frames, k) = IF Len(frames[k]) > 5
                                      THEN Append(WantedOf(frames, k - 1), PacketOf(frames[k]))
                                      ELSE WantedOf(frames, k - 1)
<1> DEFINE T == CHOOSE g : g = [k \in 0 .. Len(frames) |->
                    IF k = 0 THEN <<>>
                    ELSE IF Len(frames[k]) > 5 THEN Append(g[k - 1], PacketOf(frames[k]))
                    ELSE g[k - 1]]
<1>0. PICK s : s = [x \in Nat \X Seq(Packets) |->
                    IF x[1] \in 1 .. Len(frames) /\ Len(frames[x[1]]) > 5
                    THEN Append(x[2], PacketOf(frames[x[1]])) ELSE x[2]]
  OBVIOUS
<1>1. Len(frames) \in Nat /\ \A k \in 1 .. Len(frames) : frames[k] \in Seq(Bytes)
  BY ElementOfSeq
<1>2. s \in [Nat \X Seq(Packets) -> Seq(Packets)]
  <2>1. ASSUME NEW x \in Nat \X Seq(Packets)
        PROVE  (IF x[1] \in 1 .. Len(frames) /\ Len(frames[x[1]]) > 5
                THEN Append(x[2], PacketOf(frames[x[1]])) ELSE x[2]) \in Seq(Packets)
    <3>1. x[2] \in Seq(Packets)
      OBVIOUS
    <3>2. CASE x[1] \in 1 .. Len(frames) /\ Len(frames[x[1]]) > 5
      <4>1. PacketOf(frames[x[1]]) \in Packets
        BY <1>1, <3>2, PacketOfFrame
      <4> QED BY <3>1, <3>2, <4>1, AppendProperties
    <3> QED BY <3>1, <3>2
  <2> QED BY <1>0, <2>1
<1>3. PICK f \in [Nat -> Seq(Packets)] :
            f[0] = <<>> /\ \A k \in Nat : f[k + 1] = s[<<k + 1, f[k]>>]
  <2>1. <<>> \in Seq(Packets)
    BY EmptySeq
  <2>2. \E f : GoesOn(f, Seq(Packets), <<>>, s)
    BY <1>2, <2>1, Recursion
  <2> QED BY <2>2 DEF GoesOn
<1>4. ASSUME NEW k \in 1 .. Len(frames)
      PROVE  f[k] = IF Len(frames[k]) > 5 THEN Append(f[k - 1], PacketOf(frames[k]))
                    ELSE f[k - 1]
  <2>1. k - 1 \in Nat /\ (k - 1) + 1 = k /\ k \in Nat /\ f[k - 1] \in Seq(Packets)
    BY <1>1
  <2>2. f[k] = s[<<k, f[k - 1]>>]
    BY <1>3, <2>1
  <2>3. <<k, f[k - 1]>> \in Nat \X Seq(Packets)
    BY <2>1
  <2> QED BY <1>0, <2>2, <2>3
<1> DEFINE F == [k \in 0 .. Len(frames) |-> f[k]]
<1>5. ASSUME NEW k \in 0 .. Len(frames)
      PROVE  F[k] = IF k = 0 THEN <<>>
                    ELSE IF Len(frames[k]) > 5 THEN Append(F[k - 1], PacketOf(frames[k]))
                    ELSE F[k - 1]
  <2>1. CASE k = 0
    BY <1>1, <1>3, <2>1
  <2>2. CASE k # 0
    <3>1. k \in 1 .. Len(frames) /\ k - 1 \in 0 .. Len(frames)
      BY <1>1, <2>2
    <3>2. F[k] = f[k] /\ F[k - 1] = f[k - 1]
      BY <3>1
    <3> QED BY <1>4, <2>2, <3>1, <3>2
  <2> QED BY <2>1, <2>2
<1>6. F = [k \in 0 .. Len(frames) |->
                    IF k = 0 THEN <<>>
                    ELSE IF Len(frames[k]) > 5 THEN Append(F[k - 1], PacketOf(frames[k]))
                    ELSE F[k - 1]]
  <2>1. F = [k \in 0 .. Len(frames) |-> F[k]]
    OBVIOUS
  <2> HIDE DEF F
  <2> QED BY <1>5, <2>1
<1>7. T = [k \in 0 .. Len(frames) |->
                    IF k = 0 THEN <<>>
                    ELSE IF Len(frames[k]) > 5 THEN Append(T[k - 1], PacketOf(frames[k]))
                    ELSE T[k - 1]]
  <2> HIDE DEF F
  <2> QED BY <1>6
<1>8. \A k \in 0 .. Len(frames) : WantedOf(frames, k) = T[k]
  BY DEF WantedOf
<1> HIDE DEF T, F
<1>9. WantedOf(frames, 0) = <<>>
  BY <1>1, <1>7, <1>8
<1>10. ASSUME NEW k \in 1 .. Len(frames)
       PROVE  WantedOf(frames, k) = IF Len(frames[k]) > 5
                                    THEN Append(WantedOf(frames, k - 1), PacketOf(frames[k]))
                                    ELSE WantedOf(frames, k - 1)
  <2>1. k \in 0 .. Len(frames) /\ k - 1 \in 0 .. Len(frames) /\ k # 0
    BY <1>1
  <2> QED BY <1>7, <1>8, <2>1
<1>11. ASSUME NEW k \in 0 .. Len(frames) PROVE WantedOf(frames, k) \in Seq(Packets)
  <2> DEFINE S == {x \in Nat : x <= Len(frames) => WantedOf(frames, x) \in Seq(Packets)}
  <2>1. 0 \in S
    <3>1. WantedOf(frames, 0) \in Seq(Packets)
      BY <1>9, EmptySeq
    <3> QED BY <3>1
  <2>2. ASSUME NEW x \in S PROVE x + 1 \in S
    <3>1. SUFFICES ASSUME x + 1 <= Len(frames) PROVE WantedOf(frames, x + 1) \in Seq(Packets)
      OBVIOUS
    <3>2. PICK y \in 1 .. Len(frames) : y = x + 1 /\ y - 1 = x /\ x <= Len(frames)
      BY <1>1, <3>1
    <3>3. WantedOf(frames, y - 1) \in Seq(Packets)
      BY <3>2
    <3>4. CASE Len(frames[y]) > 5
      <4>1. PacketOf(frames[y]) \in Packets
        BY <1>1, <3>4, PacketOfFrame
      <4>2. WantedOf(frames, y) = Append(WantedOf(frames, y - 1), PacketOf(frames[y]))
        BY <1>10, <3>4
      <4>3. Append(WantedOf(frames, y - 1), PacketOf(frames[y])) \in Seq(Packets)
        BY <3>3, <4>1, AppendProperties, Zenon
      <4> QED BY <3>2, <4>2, <4>3, Zenon
    <3>5. CASE ~(Len(frames[y]) > 5)
      <4>1. WantedOf(frames, y) = WantedOf(frames, y - 1)
        BY <1>10, <3>5
      <4> QED BY <3>2, <3>3, <4>1
    <3> QED BY <3>4, <3>5
  <2>3. S \in SUBSET Nat
    OBVIOUS
  <2>4. S = Nat
    <3> HIDE DEF S
    <3> QED BY <2>1, <2>2, <2>3, Induction
  <2>5. k \in Nat /\ k <= Len(frames)
    BY <1>1
  <2>6. k \in S
    <3> HIDE DEF S
    <3> QED BY <2>4, <2>5
  <2> QED BY <2>5, <2>6
<1> QED BY <1>9, <1>10, <1>11

----------------------------------------------------------------------------
(* What is decoded is what was sent *)

\* The array has the first bytes of a frame.
FirstBytes(array, frame) ==
    Len(array) <= Len(frame) /\ \A x \in 1 .. Len(array) : array[x] = frame[x]

\* What is decoded when the n-th symbol of a frame is next: so many bytes of the frame,
\* and so many slices of the byte behind them.  Behind the last symbol it is the frame.
Decoded(symbols, n, frame, begin, d, array) ==
    \E b \in 0 .. Len(frame), k \in 0 .. 9 :
        /\ n <= Len(symbols) => symbols[n].at = begin + 10 * b + k
        /\ n > Len(symbols) => b = Len(frame) /\ k = 2
        /\ DecodedTo(d, ByteAt(frame, b), k)
        /\ Len(array) = b /\ \A x \in 1 .. b : array[x] = frame[x]

\* Between two receptions the line is at a gap, and the frames before it have become
\* packets.
BetweenFrames ==
    \E j \in 0 .. Len(sent) :
        /\ line[1].at = End(sent, starts, j)
        /\ packets = WantedOf(sent, j)
        /\ \E k \in 1 .. Len(sent) : FirstBytes(temp_array, sent[k])

\* What is parsed is a frame, and it is parsed so far; the line is at the gap behind it.
ParsingFrame ==
    \E j \in 1 .. Len(sent) :
        /\ line[1].at = End(sent, starts, j)
        /\ packets = WantedOf(sent, j - 1)
        /\ FrameSymbols(received_symbols, sent[j], starts[j])
        /\ Decoded(received_symbols, i, sent[j], starts[j], decoder, temp_array)

FrameInv ==
    /\ IsBus(sent, starts)
    /\ ~disturbed => /\ LineOf(line, sent, starts)
                     /\ pc = "receive" => BetweenFrames
                     /\ pc = "parse" => ParsingFrame

LEMMA DecodesFirst ==
    ASSUME NEW frame \in Seq(Bytes), NEW begin \in Nat, NEW symbols,
           FrameSymbols(symbols, frame, begin)
    PROVE  Decoded(symbols, 1, frame, begin, InitDecoder, <<>>)
<1>1. Len(frame) \in Nat /\ Len(symbols) \in Nat /\ 1 <= Len(symbols)
      /\ symbols[1].at = begin
  BY DEF FrameSymbols
<1>2. DecodedTo(InitDecoder, ByteAt(frame, 0), 0)
  <2>1. PICK byte \in 0 .. 255 : byte = ByteAt(frame, 0)
    BY ByteAtIsByte DEF Bytes
  <2>2. Mask[0 + 1] = 128 /\ Unit[0 + 1] = 256 /\ byte - (byte % 256) = 0
    BY DEF Mask, Unit
  <2> QED BY <2>1, <2>2 DEF DecodedTo, InitDecoder
<1>3. 0 \in 0 .. Len(frame) /\ 0 \in 0 .. 9 /\ begin = begin + 10 * 0 + 0 /\ ~(1 > Len(symbols))
  BY <1>1
<1>4. Len(<<>>) = 0 /\ \A x \in 1 .. 0 : <<>>[x] = frame[x]
  OBVIOUS
<1> QED BY <1>1, <1>2, <1>3, <1>4 DEF Decoded

LEMMA DecodesOn ==
    ASSUME NEW frame \in Seq(Bytes), Len(frame) > 0, NEW begin \in Nat, NEW symbols,
           FrameSymbols(symbols, frame, begin), NEW n \in 1 .. Len(symbols),
           NEW d, IsDecoder(d), NEW array \in Seq(Bytes),
           Decoded(symbols, n, frame, begin, d, array), NEW jitter \in -3 .. 4,
           NEW e, e = ParseByte(d, symbols[n].level, symbols[n].slices * 8 + jitter),
           NEW longer,
           longer = IF e.complete THEN Append(array, e.finalByte) ELSE array
    PROVE  Decoded(symbols, n + 1, frame, begin, e, longer)
<1>1. PICK m \in Nat : m = Len(frame)
  OBVIOUS
<1>2. PICK b \in 0 .. m, k \in 0 .. 9 :
        /\ symbols[n].at = begin + 10 * b + k
        /\ DecodedTo(d, ByteAt(frame, b), k)
        /\ Len(array) = b /\ \A x \in 1 .. b : array[x] = frame[x]
  <2>1. Len(symbols) \in Nat /\ n <= Len(symbols)
    BY DEF FrameSymbols
  <2> QED BY <1>1, <2>1 DEF Decoded
<1>3. /\ Len(symbols) \in Nat /\ symbols[n] \in Symbols
      /\ InFrame(symbols[n], frame, begin)
  BY ElementOfSeq DEF FrameSymbols
<1>4. PICK c \in 1 .. 9 : c = symbols[n].slices /\ symbols[n].at + c <= begin + 10 * m + 2
  <2>1. symbols[n].slices \in Nat /\ symbols[n].slices > 0
    BY <1>3 DEF Symbols
  <2>2. symbols[n].slices <= 9 /\ symbols[n].at + symbols[n].slices <= begin + 10 * m + 2
    BY <1>1, <1>3 DEF InFrame
  <2>3. PICK c \in Nat : c = symbols[n].slices
    BY <2>1
  <2>4. c > 0 /\ c <= 9 /\ symbols[n].at + c <= begin + 10 * m + 2
    BY <2>1, <2>2, <2>3, Zenon
  <2>5. c \in 1 .. 9
    BY <2>4
  <2> QED BY <2>3, <2>4, <2>5, Zenon
<1>5. Reaches(frame, b, k + c, e)
  <2>1. b \in Nat
    OBVIOUS
  <2> QED BY <1>2, <1>3, <1>4, <2>1, SymbolReaches
<1>6. 10 * b + k + c <= 10 * m + 2
  <2>1. PICK at : at = symbols[n].at
    OBVIOUS
  <2>2. at = begin + 10 * b + k /\ at + c <= begin + 10 * m + 2
    BY <1>2, <1>4, <2>1, Zenon
  <2> QED BY <2>2
<1>7. n + 1 <= Len(symbols) => symbols[n + 1].at = begin + 10 * b + k + c
  <2> SUFFICES ASSUME n + 1 <= Len(symbols)
               PROVE  symbols[n + 1].at = begin + 10 * b + k + c
    OBVIOUS
  <2>1. n \in 1 .. Len(symbols) - 1
    BY <1>3
  <2>2. symbols[n + 1].at = symbols[n].at + symbols[n].slices
    BY <2>1 DEF FrameSymbols
  <2> QED BY <1>2, <1>4, <2>2
<1>8. n + 1 > Len(symbols) => 10 * b + k + c = 10 * m + 2
  <2> SUFFICES ASSUME n + 1 > Len(symbols) PROVE 10 * b + k + c = 10 * m + 2
    OBVIOUS
  <2>1. n = Len(symbols)
    BY <1>3
  <2>2. symbols[n].at + symbols[n].slices = begin + 10 * m + 2
    BY <1>1, <2>1 DEF FrameSymbols
  <2>3. begin + 10 * b + k + c = begin + 10 * m + 2
    BY <1>2, <1>4, <2>2
  <2> QED BY <2>3
<1>9. CASE k + c < 10
  <2>1. DecodedTo(e, ByteAt(frame, b), k + c) /\ longer = array
    BY <1>5, <1>9 DEF Reaches
  <2>2. k + c \in 0 .. 9 /\ begin + 10 * b + (k + c) = begin + 10 * b + k + c
    BY <1>9
  <2>3. 10 * b + k + c = 10 * m + 2 => b = m /\ k + c = 2
    BY <1>9
  <2> QED BY <1>1, <1>2, <1>7, <1>8, <2>1, <2>2, <2>3 DEF Decoded
<1>10. CASE k + c >= 10
  <2>1. /\ DecodedTo(e, ByteAt(frame, b + 1), k + c - 10)
        /\ longer = Append(array, ByteAt(frame, b))
    <3>1. e.complete = TRUE /\ e.finalByte = ByteAt(frame, b)
      BY <1>5, <1>10 DEF Reaches
    <3>2. DecodedTo(e, ByteAt(frame, b + 1), k + c - 10)
      BY <1>5, <1>10 DEF Reaches
    <3>3. longer = Append(array, ByteAt(frame, b))
      BY <3>1, Zenon
    <3> QED BY <3>2, <3>3
  <2>2. b < m /\ b + 1 \in 0 .. m /\ b + 1 \in 1 .. m
    BY <1>6, <1>10
  <2>3. ByteAt(frame, b) = frame[b + 1] /\ frame[b + 1] \in Bytes
    BY <1>1, <2>2, ElementOfSeq DEF ByteAt
  <2>4. Len(longer) = b + 1 /\ \A x \in 1 .. b + 1 : longer[x] = frame[x]
    <3>1. /\ Len(longer) = Len(array) + 1 /\ longer[Len(array) + 1] = frame[b + 1]
          /\ \A x \in 1 .. Len(array) : longer[x] = array[x]
      BY <2>1, <2>3, AppendProperties
    <3>2. ASSUME NEW x \in 1 .. b + 1 PROVE longer[x] = frame[x]
      <4>1. CASE x = b + 1
        BY <1>2, <3>1, <4>1
      <4>2. CASE x # b + 1
        <5>1. x \in 1 .. b
          BY <4>2
        <5> QED BY <1>2, <3>1, <5>1
      <4> QED BY <4>1, <4>2
    <3> QED BY <1>2, <3>1, <3>2
  <2>5. k + c - 10 \in 0 .. 9
        /\ begin + 10 * (b + 1) + (k + c - 10) = begin + 10 * b + k + c
    BY <1>10
  <2>6. 10 * b + k + c = 10 * m + 2 => b + 1 = m /\ k + c - 10 = 2
    BY <1>10
  <2> QED BY <1>1, <1>7, <1>8, <2>1, <2>2, <2>4, <2>5, <2>6 DEF Decoded
<1> QED BY <1>9, <1>10

\* What is decoded is the beginning of the frame, and behind its last symbol the frame.
LEMMA DecodedIsFrame ==
    ASSUME NEW frame \in Seq(Bytes), NEW begin, NEW symbols,
           NEW n \in Nat, NEW d, NEW array \in Seq(Bytes),
           Decoded(symbols, n, frame, begin, d, array)
    PROVE  FirstBytes(array, frame) /\ (n > Len(symbols) => array = frame)
<1>1. PICK m \in Nat : m = Len(frame)
  OBVIOUS
<1>2. PICK b \in 0 .. m, k \in 0 .. 9 :
        /\ n > Len(symbols) => b = m
        /\ Len(array) = b /\ \A x \in 1 .. b : array[x] = frame[x]
  BY <1>1, Zenon DEF Decoded
<1>3. FirstBytes(array, frame)
  BY <1>1, <1>2 DEF FirstBytes
<1>4. ASSUME n > Len(symbols) PROVE array = frame
  <2>1. Len(array) = Len(frame) /\ \A x \in 1 .. Len(array) : array[x] = frame[x]
    BY <1>1, <1>2, <1>4
  <2> QED BY <2>1, SeqEqual
<1> QED BY <1>3, <1>4

\* The same first elements are a prefix.
LEMMA FirstIsPrefix ==
    ASSUME NEW S, NEW s \in Seq(S), NEW t \in Seq(S), Len(s) <= Len(t),
           \A x \in 1 .. Len(s) : s[x] = t[x]
    PROVE  IsPrefix(s, t)
<1>1. PICK n \in Nat : n = Len(s)
  OBVIOUS
<1>2. /\ \A x \in 1 .. n : s[x] \in S
      /\ \A x \in 1 .. n : t[x] \in S
  BY <1>1
<1>3. PICK u, v : u = SubSeq(s, 1, n) /\ v = SubSeq(t, 1, n)
  OBVIOUS
<1>4. /\ u \in Seq(S) /\ Len(u) = n /\ \A x \in 1 .. n : u[x] = s[x]
      /\ v \in Seq(S) /\ Len(v) = n /\ \A x \in 1 .. n : v[x] = t[x]
  BY <1>1, <1>2, <1>3
<1>5. u = v
  BY <1>1, <1>4, SeqEqual
<1> QED BY <1>1, <1>3, <1>5 DEF IsPrefix

\* What some frames should become is the beginning of what all of them should become.
LEMMA WantedGrows ==
    ASSUME NEW frames \in Seq(Seq(Bytes)), NEW j \in 0 .. Len(frames)
    PROVE  IsPrefix(WantedOf(frames, j), Wanted(frames))
<1>1. Len(frames) \in Nat
  OBVIOUS
<1> DEFINE Continues(k) == /\ Len(WantedOf(frames, j)) <= Len(WantedOf(frames, k))
                           /\ \A x \in 1 .. Len(WantedOf(frames, j)) :
                               WantedOf(frames, k)[x] = WantedOf(frames, j)[x]
           S == {x \in Nat : j + x <= Len(frames) => Continues(j + x)}
<1>2. 0 \in S
  <2>1. WantedOf(frames, j) \in Seq(Packets)
    BY WantedSteps
  <2>2. Len(WantedOf(frames, j)) \in Nat /\ j + 0 = j
    BY <2>1
  <2> QED BY <2>2
<1>3. ASSUME NEW x \in S PROVE x + 1 \in S
  <2>1. SUFFICES ASSUME j + (x + 1) <= Len(frames) PROVE Continues(j + (x + 1))
    OBVIOUS
  <2>2. PICK y \in 1 .. Len(frames), z \in 0 .. Len(frames) :
          y = j + (x + 1) /\ y - 1 = z /\ z = j + x
    <3>1. j + (x + 1) \in 1 .. Len(frames) /\ j + x \in 0 .. Len(frames)
          /\ (j + (x + 1)) - 1 = j + x
      BY <1>1, <2>1
    <3> QED BY <3>1
  <2>3. Continues(z)
    <3>1. j + x <= Len(frames)
      BY <1>1, <2>1
    <3> QED BY <2>2, <3>1
  <2>4. Continues(y)
    <3>1. PICK v, w, u : /\ v = WantedOf(frames, j) /\ w = WantedOf(frames, z)
                         /\ u = WantedOf(frames, y)
      OBVIOUS
    <3>2. /\ v \in Seq(Packets) /\ w \in Seq(Packets)
          /\ Len(v) \in Nat /\ Len(w) \in Nat
      BY <3>1, WantedSteps
    <3>3. Len(v) <= Len(w) /\ \A q \in 1 .. Len(v) : w[q] = v[q]
      BY <2>3, <3>1
    <3>4. u = IF Len(frames[y]) > 5 THEN Append(w, PacketOf(frames[y])) ELSE w
      <4>1. WantedOf(frames, y) = IF Len(frames[y]) > 5
                                  THEN Append(WantedOf(frames, y - 1), PacketOf(frames[y]))
                                  ELSE WantedOf(frames, y - 1)
        BY WantedSteps
      <4> QED BY <2>2, <3>1, <4>1
    <3>5. Len(v) <= Len(u) /\ \A q \in 1 .. Len(v) : u[q] = v[q]
      <4>1. CASE Len(frames[y]) > 5
        <5>1. frames[y] \in Seq(Bytes)
          BY ElementOfSeq
        <5>2. PacketOf(frames[y]) \in Packets
          BY <4>1, <5>1, PacketOfFrame
        <5>3. Len(u) = Len(w) + 1 /\ \A q \in 1 .. Len(w) : u[q] = w[q]
          BY <3>2, <3>4, <4>1, <5>2, AppendProperties
        <5> QED BY <3>2, <3>3, <5>3
      <4>2. CASE ~(Len(frames[y]) > 5)
        BY <3>3, <3>4, <4>2
      <4> QED BY <4>1, <4>2
    <3> QED BY <3>1, <3>5
  <2> HIDE DEF Continues
  <2> QED BY <2>2, <2>4
<1>4. S \in SUBSET Nat
  OBVIOUS
<1>5. S = Nat
  <2> HIDE DEF S
  <2> QED BY <1>2, <1>3, <1>4, Induction
<1>6. Continues(Len(frames))
  <2>1. PICK x \in Nat : x = Len(frames) - j /\ j + x = Len(frames)
    <3>1. Len(frames) - j \in Nat /\ j + (Len(frames) - j) = Len(frames)
      BY <1>1
    <3> QED BY <3>1
  <2>2. x \in S
    <3> HIDE DEF S
    <3> QED BY <1>5, <2>1
  <2>3. j + x <= Len(frames)
    BY <1>1, <2>1
  <2>4. Continues(j + x)
    BY <2>2, <2>3
  <2> HIDE DEF Continues
  <2> QED BY <2>1, <2>4
<1>7. WantedOf(frames, j) \in Seq(Packets) /\ WantedOf(frames, Len(frames)) \in Seq(Packets)
  <2>1. Len(frames) \in 0 .. Len(frames)
    BY <1>1
  <2> QED BY <2>1, WantedSteps
<1>8. IsPrefix(WantedOf(frames, j), WantedOf(frames, Len(frames)))
  BY <1>6, <1>7, FirstIsPrefix
<1> QED BY <1>8 DEF Wanted

LEMMA InitFrames ==
    ASSUME Init PROVE FrameInv
<1>1. PICK bus \in Buses :
        /\ sent = bus.frames /\ starts = bus.starts /\ disturbed = bus.disturbed
        /\ line = bus.line
  BY DEF Init
<1>2. temp_array = <<>> /\ packets = <<>> /\ pc = "receive"
  BY DEF Init
<1>3. IsBus(sent, starts)
  BY <1>1, BusAssumption DEF IsBus
<1>4. ASSUME ~disturbed PROVE LineOf(line, sent, starts) /\ BetweenFrames
  <2>1. IsLine(line) /\ CarriesFrames(line, sent, starts)
    BY <1>1, <1>4, BusAssumption
  <2>2. LineOf(line, sent, starts) /\ line[1].at = 0
    BY <2>1 DEF LineOf, CarriesFrames
  <2>3. sent \in Seq(Seq(Bytes)) /\ Len(sent) \in Nat /\ Len(sent) >= 1
    BY <1>3 DEF IsBus
  <2>4. 0 \in 0 .. Len(sent) /\ 1 \in 1 .. Len(sent)
    BY <2>3
  <2>5. line[1].at = End(sent, starts, 0)
    BY <2>2 DEF End
  <2>6. packets = WantedOf(sent, 0)
    BY <1>2, <2>3, WantedSteps
  <2>7. FirstBytes(temp_array, sent[1])
    <3>1. sent[1] \in Seq(Bytes)
      BY <2>3, <2>4, ElementOfSeq
    <3>2. Len(<<>>) = 0 /\ 0 <= Len(sent[1]) /\ \A x \in 1 .. 0 : <<>>[x] = sent[1][x]
      BY <3>1
    <3> QED BY <1>2, <3>2 DEF FirstBytes
  <2> QED BY <2>2, <2>4, <2>5, <2>6, <2>7 DEF BetweenFrames
<1> QED BY <1>2, <1>3, <1>4 DEF FrameInv

LEMMA ReceiveFrames ==
    ASSUME FrameInv, Receive PROVE FrameInv'
<1>1. /\ pc = "receive" /\ i' = 1 /\ pc' = "parse" /\ decoder' = InitDecoder
      /\ temp_array' = <<>> /\ sent' = sent /\ starts' = starts /\ disturbed' = disturbed
      /\ packets' = packets
  BY DEF Receive
<1>2. IsBus(sent, starts)
  BY DEF FrameInv
<1>3. ASSUME ~disturbed PROVE LineOf(line', sent, starts) /\ ParsingFrame'
  <2>1. LineOf(line, sent, starts) /\ BetweenFrames
    BY <1>1, <1>3 DEF FrameInv
  <2>2. PICK j \in 0 .. Len(sent) :
          line[1].at = End(sent, starts, j) /\ packets = WantedOf(sent, j)
    BY <2>1 DEF BetweenFrames
  <2>3. PICK n \in 2 .. Len(line) :
          /\ line[n].slices >= 10 /\ \A k \in 2 .. n - 1 : line[k].slices <= 10
          /\ received_symbols' = SubSeq(line, 2, n - 1)
          /\ line' = SubSeq(line, n, Len(line))
    BY DEF Receive
  <2>4. PICK k \in 1 .. Len(sent) :
          /\ k - 1 = j
          /\ line[n].at = End(sent, starts, k)
          /\ FrameSymbols(SubSeq(line, 2, n - 1), sent[k], starts[k])
    BY <1>2, <2>1, <2>2, <2>3, FrameReceived, SMTT(30)
  <2>5. LineOf(line', sent, starts) /\ line'[1] = line[n]
    <3>1. n \in 1 .. Len(line)
      BY <2>1 DEF LineOf, IsLine
    <3> QED BY <2>1, <2>3, <3>1, RestOfLine
  <2>6. FrameSymbols(received_symbols', sent[k], starts[k])
    BY <2>3, <2>4
  <2>7. Decoded(received_symbols', 1, sent[k], starts[k], InitDecoder, <<>>)
    <3>1. sent[k] \in Seq(Bytes) /\ starts[k] \in Nat
      BY <1>2, FrameFacts
    <3> QED BY <2>6, <3>1, DecodesFirst
  <2>8. ParsingFrame'
    BY <1>1, <2>2, <2>4, <2>5, <2>6, <2>7 DEF ParsingFrame
  <2> QED BY <2>5, <2>8
<1> QED BY <1>1, <1>2, <1>3 DEF FrameInv

LEMMA ParseLevelFrames ==
    ASSUME TypeOK, ArrayInv, FrameInv, ParseLevel PROVE FrameInv'
<1>1. /\ pc = "parse" /\ pc' = pc /\ i' = i + 1
      /\ sent' = sent /\ starts' = starts /\ disturbed' = disturbed /\ line' = line
      /\ received_symbols' = received_symbols /\ packets' = packets
  BY DEF ParseLevel, busVars
<1>2. IsBus(sent, starts)
  BY DEF FrameInv
<1>3. i \in 1 .. Len(received_symbols)
  <2>1. Len(received_symbols) \in Nat
    BY DEF TypeOK
  <2> QED BY <2>1 DEF ParseLevel, MoreToParse, TypeOK
<1>4. ASSUME ~disturbed PROVE LineOf(line, sent, starts) /\ ParsingFrame'
  <2>1. LineOf(line, sent, starts) /\ ParsingFrame
    BY <1>1, <1>4 DEF FrameInv
  <2>2. PICK j \in 1 .. Len(sent) :
          /\ line[1].at = End(sent, starts, j)
          /\ packets = WantedOf(sent, j - 1)
          /\ FrameSymbols(received_symbols, sent[j], starts[j])
          /\ Decoded(received_symbols, i, sent[j], starts[j], decoder, temp_array)
    BY <2>1 DEF ParsingFrame
  <2>3. PICK jitter \in -3 .. 4 :
          decoder' = ParseByte(decoder, received_symbols[i].level,
                               received_symbols[i].slices * 8 + jitter)
    BY JitterAssumption DEF ParseLevel
  <2>4. temp_array' = IF decoder'.complete THEN Append(temp_array, decoder'.finalByte)
                      ELSE temp_array
    BY DEF ParseLevel
  <2>5. sent[j] \in Seq(Bytes) /\ Len(sent[j]) > 0 /\ starts[j] \in Nat
    <3>1. sent[j] \in Seq(Bytes) /\ Len(sent[j]) \in 5 .. 33 /\ starts[j] \in Nat
      BY <1>2, FrameFacts
    <3>2. PICK n \in 5 .. 33 : n = Len(sent[j])
      BY <3>1, Zenon
    <3>3. n > 0
      OBVIOUS
    <3> QED BY <3>1, <3>2, <3>3, Zenon
  <2>6. IsDecoder(decoder) /\ temp_array \in Seq(Bytes)
    BY DEF ArrayInv, TypeOK
  <2>7. Decoded(received_symbols, i + 1, sent[j], starts[j], decoder', temp_array')
    BY <1>3, <2>2, <2>3, <2>4, <2>5, <2>6, DecodesOn
  <2>8. ParsingFrame'
    BY <1>1, <2>2, <2>7 DEF ParsingFrame
  <2> QED BY <2>1, <2>8
<1> QED BY <1>1, <1>2, <1>4 DEF FrameInv

LEMMA ParseEndsFrames ==
    ASSUME TypeOK, FrameInv, ParseEnds PROVE FrameInv'
<1>1. /\ pc = "parse" /\ pc' = "receive"
      /\ sent' = sent /\ starts' = starts /\ disturbed' = disturbed /\ line' = line
      /\ temp_array' = temp_array
  BY DEF ParseEnds, busVars
<1>2. IsBus(sent, starts)
  BY DEF FrameInv
<1>3. ASSUME ~disturbed PROVE LineOf(line, sent, starts) /\ BetweenFrames'
  <2>1. LineOf(line, sent, starts) /\ ParsingFrame
    BY <1>1, <1>3 DEF FrameInv
  <2>2. PICK j \in 1 .. Len(sent) :
          /\ line[1].at = End(sent, starts, j)
          /\ packets = WantedOf(sent, j - 1)
          /\ FrameSymbols(received_symbols, sent[j], starts[j])
          /\ Decoded(received_symbols, i, sent[j], starts[j], decoder, temp_array)
    BY <2>1 DEF ParsingFrame
  <2>3. sent[j] \in Seq(Bytes) /\ Len(sent[j]) \in 5 .. 33
    BY <1>2, FrameFacts
  <2>4. temp_array \in Seq(Bytes) /\ i \in Nat /\ Len(received_symbols) \in Nat
        /\ Len(temp_array) \in Nat
    BY DEF TypeOK
  <2>5. FirstBytes(temp_array, sent[j])
        /\ (i > Len(received_symbols) => temp_array = sent[j])
    BY <2>2, <2>3, <2>4, DecodedIsFrame
  <2>6. temp_array = sent[j]
    <3>1. ~IsFull(Len(temp_array))
      <4>1. Len(temp_array) <= Len(sent[j])
        BY <2>5 DEF FirstBytes
      <4>2. PICK m \in 5 .. 33, n \in Nat : m = Len(sent[j]) /\ n = Len(temp_array)
        BY <2>3, <2>4, Zenon
      <4>3. n <= m
        BY <4>1, <4>2, Zenon
      <4>4. ~(n >= 40)
        BY <4>3
      <4> QED BY <4>2, <4>4, Zenon DEF IsFull, VAN_MAX_PACKET_LEN
    <3>2. i > Len(received_symbols)
      BY <2>4, <3>1 DEF ParseEnds, MoreToParse
    <3> QED BY <2>5, <3>2
  <2>7. IsCrcOk(temp_array)
    <3>1. IsFrame(sent[j])
      BY <1>2 DEF IsBus
    <3>2. PICK frame : frame = sent[j] /\ Len(frame) \in 5 .. 33
      BY <2>3, Zenon
    <3>3. PICK n \in 5 .. 33 : n = Len(frame)
      BY <3>2, Zenon
    <3>4. frame[n - 1] * 256 + frame[n] = Crc15(SubSeq(frame, 2, n - 2))
      BY <3>1, <3>2, <3>3 DEF IsFrame
    <3>5. n >= 5 /\ n - 3 <= 32
      OBVIOUS
    <3> QED BY <2>6, <3>2, <3>3, <3>4, <3>5 DEF IsCrcOk
  <2>8. packets' = WantedOf(sent, j)
    <3>1. sent \in Seq(Seq(Bytes))
      BY <1>2 DEF IsBus
    <3>2. WantedOf(sent, j) = IF Len(sent[j]) > 5
                              THEN Append(WantedOf(sent, j - 1), PacketOf(sent[j]))
                              ELSE WantedOf(sent, j - 1)
      BY <3>1, WantedSteps
    <3>3. Len(temp_array) < VAN_MAX_PACKET_LEN
      <4>1. PICK n \in 5 .. 33 : n = Len(temp_array)
        BY <2>3, <2>6, Zenon
      <4>2. n < 40
        OBVIOUS
      <4> QED BY <4>1, <4>2, Zenon DEF VAN_MAX_PACKET_LEN
    <3>4. packets' = IF Len(temp_array) > 5 THEN Append(packets, PacketOf(temp_array))
                     ELSE packets
      BY <2>7, <3>3 DEF ParseEnds, IsAccepted
    <3> QED BY <2>2, <2>6, <3>2, <3>4
  <2>9. j \in 0 .. Len(sent)
    OBVIOUS
  <2>10. BetweenFrames'
    BY <1>1, <2>2, <2>5, <2>8, <2>9 DEF BetweenFrames
  <2> QED BY <2>1, <2>10
<1> QED BY <1>1, <1>2, <1>3 DEF FrameInv

LEMMA FrameInvIsEnough ==
    ASSUME TypeOK, FrameInv PROVE DecodesWhatWasSent
<1> SUFFICES ASSUME ~disturbed
             PROVE  /\ \E k \in 1 .. Len(sent) : IsPrefix(temp_array, sent[k])
                    /\ IsPrefix(packets, Wanted(sent))
                    /\ pc = "receive" /\ Len(line) = 1 => packets = Wanted(sent)
  BY DEF DecodesWhatWasSent
<1>1. /\ IsBus(sent, starts) /\ LineOf(line, sent, starts)
      /\ sent \in Seq(Seq(Bytes)) /\ Len(sent) \in Nat
      /\ temp_array \in Seq(Bytes)
  BY DEF FrameInv, IsBus, TypeOK
<1>2. ASSUME NEW k \in 1 .. Len(sent), FirstBytes(temp_array, sent[k])
      PROVE  IsPrefix(temp_array, sent[k])
  <2>1. sent[k] \in Seq(Bytes)
    BY <1>1, ElementOfSeq
  <2> QED BY <1>1, <1>2, <2>1, FirstIsPrefix DEF FirstBytes
<1>3. CASE pc = "receive"
  <2>1. PICK j \in 0 .. Len(sent) :
          /\ line[1].at = End(sent, starts, j)
          /\ packets = WantedOf(sent, j)
          /\ \E k \in 1 .. Len(sent) : FirstBytes(temp_array, sent[k])
    BY <1>3 DEF FrameInv, BetweenFrames
  <2>2. IsPrefix(packets, Wanted(sent))
    BY <1>1, <2>1, WantedGrows
  <2>3. ASSUME Len(line) = 1 PROVE packets = Wanted(sent)
    <3>1. PICK n \in 1 .. Len(line) : n = 1 /\ n = Len(line)
      BY <2>3
    <3>2. j = Len(sent)
      <4>1. line[n].at = End(sent, starts, j)
        BY <2>1, <3>1
      <4>2. n = Len(line) <=> j = Len(sent)
        BY <1>1, <4>1, LevelOfGap
      <4> QED BY <3>1, <4>2
    <3> QED BY <2>1, <3>2 DEF Wanted
  <2> QED BY <1>2, <2>1, <2>2, <2>3
<1>4. CASE pc = "parse"
  <2>1. PICK j \in 1 .. Len(sent) :
          /\ packets = WantedOf(sent, j - 1)
          /\ Decoded(received_symbols, i, sent[j], starts[j], decoder, temp_array)
    BY <1>4 DEF FrameInv, ParsingFrame
  <2>2. j - 1 \in 0 .. Len(sent)
    BY <1>1
  <2>3. IsPrefix(packets, Wanted(sent))
    BY <1>1, <2>1, <2>2, WantedGrows
  <2>4. sent[j] \in Seq(Bytes) /\ i \in Nat
    BY <1>1, ElementOfSeq DEF TypeOK
  <2>5. FirstBytes(temp_array, sent[j])
    BY <1>1, <2>1, <2>4, DecodedIsFrame
  <2> QED BY <1>2, <1>4, <2>3, <2>5
<1> QED BY <1>3, <1>4 DEF TypeOK

\* Whatever frames are on the bus, of any number and length the bus has, and however each
\* duration is off by up to 3 us early and 4 us late: when no slice is disturbed, the
\* frames are received byte by byte and in their order, none is lost, and nothing is
\* taken for a frame that is none (van_rmt_rx.c:84-115, van_rmt_task.c:37-79).
THEOREM FramesAreReceived == Spec => []DecodesWhatWasSent
<1>1. Init => TypeOK /\ ArrayInv /\ FrameInv
  BY InitTypes, InitFrames
<1>2. TypeOK /\ ArrayInv /\ FrameInv /\ [Next]_vars => TypeOK' /\ ArrayInv' /\ FrameInv'
  <2> SUFFICES ASSUME TypeOK, ArrayInv, FrameInv, [Next]_vars
               PROVE  TypeOK' /\ ArrayInv' /\ FrameInv'
    OBVIOUS
  <2>1. CASE Receive
    BY <2>1, ReceiveTypes, ReceiveFrames
  <2>2. CASE ParseLevel
    BY <2>2, ParseLevelTypes, ParseLevelFrames
  <2>3. CASE ParseEnds
    BY <2>3, ParseEndsTypes, ParseEndsFrames
  <2>4. CASE UNCHANGED vars
    BY <2>4 DEF TypeOK, ArrayInv, FrameInv, BetweenFrames, ParsingFrame, vars, busVars
  <2> QED BY <2>1, <2>2, <2>3, <2>4 DEF Next
<1>3. TypeOK /\ FrameInv => DecodesWhatWasSent
  BY FrameInvIsEnough
<1> QED BY <1>1, <1>2, <1>3, PTL DEF Spec

----------------------------------------------------------------------------
(* The line of any bus *)

\* What is read when no duration is off, one level after the other.
ReadingTypes == [decoder : Decoders, bytes : Seq(Bytes)]
FirstReading == [decoder |-> InitDecoder, bytes |-> <<>>]

LEMMA FirstReadingType == FirstReading \in ReadingTypes
<1>1. InitDecoder \in Decoders
  BY DecoderStaysInByte, DecoderType
<1>2. <<>> \in Seq(Bytes)
  BY EmptySeq
<1> QED BY <1>1, <1>2 DEF FirstReading, ReadingTypes

LEMMA ReadOnType ==
    ASSUME NEW symbols \in Seq(Symbols), NEW k \in 1 .. Len(symbols), NEW r \in ReadingTypes
    PROVE  ReadOn(r, symbols, k) \in ReadingTypes
<1>1. symbols[k] \in Symbols
  BY ElementOfSeq
<1>2. r.decoder \in Decoders /\ r.bytes \in Seq(Bytes)
  BY DEF ReadingTypes
<1>3. symbols[k].level \in {0, 1} /\ symbols[k].slices * 8 \in Int
  BY <1>1 DEF Symbols
<1>4. PICK d : d = ParseByte(r.decoder, symbols[k].level, symbols[k].slices * 8)
  OBVIOUS
<1>5. d \in Decoders
  <2>1. IsDecoder(r.decoder)
    BY <1>2 DEF Decoders
  <2>2. IsDecoder(d)
    BY <1>3, <1>4, <2>1, ParseByteIsDecoder
  <2> QED BY <2>2, DecoderType
<1>6. d.finalByte \in Bytes
  BY <1>5 DEF Decoders
<1>7. Append(r.bytes, d.finalByte) \in Seq(Bytes)
  BY <1>2, <1>6, AppendProperties
<1>8. /\ [decoder |-> d, bytes |-> Append(r.bytes, d.finalByte)] \in ReadingTypes
      /\ [decoder |-> d, bytes |-> r.bytes] \in ReadingTypes
  BY <1>2, <1>5, <1>7 DEF ReadingTypes
<1> QED BY <1>4, <1>8 DEF ReadOn

LEMMA ReadingSteps ==
    ASSUME NEW symbols \in Seq(Symbols)
    PROVE  /\ ReadingOf(symbols, 0) = FirstReading
           /\ \A k \in 1 .. Len(symbols) :
                ReadingOf(symbols, k) = ReadOn(ReadingOf(symbols, k - 1), symbols, k)
<1> DEFINE T == CHOOSE g : g = [k \in 0 .. Len(symbols) |->
                    IF k = 0 THEN [decoder |-> InitDecoder, bytes |-> <<>>]
                    ELSE ReadOn(g[k - 1], symbols, k)]
<1>0. PICK s : s = [x \in Nat \X ReadingTypes |->
                    IF x[1] \in 1 .. Len(symbols) THEN ReadOn(x[2], symbols, x[1]) ELSE x[2]]
  OBVIOUS
<1>1. Len(symbols) \in Nat
  OBVIOUS
<1>2. s \in [Nat \X ReadingTypes -> ReadingTypes]
  <2>1. ASSUME NEW x \in Nat \X ReadingTypes
        PROVE  (IF x[1] \in 1 .. Len(symbols) THEN ReadOn(x[2], symbols, x[1]) ELSE x[2])
                    \in ReadingTypes
    <3>1. x[2] \in ReadingTypes
      OBVIOUS
    <3> QED BY <3>1, ReadOnType
  <2> QED BY <1>0, <2>1
<1>3. PICK f \in [Nat -> ReadingTypes] :
            f[0] = FirstReading /\ \A k \in Nat : f[k + 1] = s[<<k + 1, f[k]>>]
  <2>1. \E f : GoesOn(f, ReadingTypes, FirstReading, s)
    BY <1>2, FirstReadingType, Recursion
  <2> QED BY <2>1 DEF GoesOn
<1>4. ASSUME NEW k \in 1 .. Len(symbols)
      PROVE  f[k] = ReadOn(f[k - 1], symbols, k)
  <2>1. k - 1 \in Nat /\ (k - 1) + 1 = k /\ k \in Nat /\ f[k - 1] \in ReadingTypes
    BY <1>1
  <2>2. f[k] = s[<<k, f[k - 1]>>]
    BY <1>3, <2>1
  <2>3. <<k, f[k - 1]>> \in Nat \X ReadingTypes
    BY <2>1
  <2> QED BY <1>0, <2>2, <2>3
<1> DEFINE F == [k \in 0 .. Len(symbols) |-> f[k]]
<1>5. ASSUME NEW k \in 0 .. Len(symbols)
      PROVE  F[k] = IF k = 0 THEN [decoder |-> InitDecoder, bytes |-> <<>>]
                    ELSE ReadOn(F[k - 1], symbols, k)
  <2>1. CASE k = 0
    BY <1>1, <1>3, <2>1 DEF FirstReading
  <2>2. CASE k # 0
    <3>1. k \in 1 .. Len(symbols) /\ k - 1 \in 0 .. Len(symbols)
      BY <1>1, <2>2
    <3>2. F[k] = f[k] /\ F[k - 1] = f[k - 1]
      BY <3>1
    <3> QED BY <1>4, <2>2, <3>1, <3>2
  <2> QED BY <2>1, <2>2
<1>6. F = [k \in 0 .. Len(symbols) |->
                    IF k = 0 THEN [decoder |-> InitDecoder, bytes |-> <<>>]
                    ELSE ReadOn(F[k - 1], symbols, k)]
  <2>1. F = [k \in 0 .. Len(symbols) |-> F[k]]
    OBVIOUS
  <2> HIDE DEF F
  <2> QED BY <1>5, <2>1
<1>7. T = [k \in 0 .. Len(symbols) |->
                    IF k = 0 THEN [decoder |-> InitDecoder, bytes |-> <<>>]
                    ELSE ReadOn(T[k - 1], symbols, k)]
  <2> HIDE DEF F
  <2> QED BY <1>6
<1>8. \A k \in 0 .. Len(symbols) : ReadingOf(symbols, k) = T[k]
  BY DEF ReadingOf
<1> HIDE DEF T, F
<1>9. ReadingOf(symbols, 0) = FirstReading
  BY <1>1, <1>7, <1>8 DEF FirstReading
<1>10. ASSUME NEW k \in 1 .. Len(symbols)
       PROVE  ReadingOf(symbols, k) = ReadOn(ReadingOf(symbols, k - 1), symbols, k)
  <2>1. k \in 0 .. Len(symbols) /\ k - 1 \in 0 .. Len(symbols) /\ k # 0
    BY <1>1
  <2>2. T[k] = ReadOn(T[k - 1], symbols, k)
    BY <1>7, <2>1
  <2> QED BY <1>8, <2>1, <2>2
<1> QED BY <1>9, <1>10

\* A level of at most ten slices is read as what it is however its duration is off.
LEMMA JitterDoesNotMatter ==
    ASSUME NEW d, NEW symbol \in Symbols, symbol.slices <= 10, NEW jitter \in -3 .. 4
    PROVE  ParseByte(d, symbol.level, symbol.slices * 8 + jitter)
            = ParseByte(d, symbol.level, symbol.slices * 8)
<1>1. PICK n \in 1 .. 10 : n = symbol.slices
  <2>1. symbol.slices \in Nat \ {0}
    BY DEF Symbols
  <2>2. symbol.slices \in 1 .. 10
    BY <2>1
  <2> QED BY <2>2
<1>2. CountOfTimeSlices(n * 8 + jitter) = n
  BY DurationIsRounded
<1>3. CountOfTimeSlices(n * 8) = n
  <2>1. 0 \in -3 .. 4 /\ n * 8 + 0 = n * 8
    OBVIOUS
  <2> QED BY <2>1, DurationIsRounded
<1> QED BY <1>1, <1>2, <1>3 DEF ParseByte

\* What is left of a line from its m-th level on.
IsRest(rest, levels, m) ==
    /\ Len(rest) = Len(levels) - m + 1
    /\ \A x \in 1 .. Len(rest) : rest[x] = levels[m + x - 1]

\* The line is what is left of one of the buses, from a level on that is long enough to end
\* a reception, and what is parsed was received just before.
Received(symbols, levels, m) ==
    \E first \in 2 .. m :
        IsReception(levels, first, m - 1) /\ symbols = SubSeq(levels, first, m - 1)
LineInv ==
    \E bus \in Buses : \E m \in 1 .. Len(bus.line) :
        /\ sent = bus.frames /\ disturbed = bus.disturbed
        /\ IsRest(line, bus.line, m)
        /\ m = 1 \/ bus.line[m].slices >= 10
        /\ pc = "parse" => Received(received_symbols, bus.line, m)

LEMMA BusLine ==
    ASSUME NEW bus \in Buses
    PROVE  bus.line \in Seq(Symbols) /\ Len(bus.line) \in Nat /\ Len(bus.line) > 0
<1>1. bus.line \in Seq(Symbols) /\ bus.line # <<>>
  BY BusAssumption DEF IsLine
<1> QED BY <1>1

LEMMA InitLine ==
    ASSUME Init PROVE LineInv
<1>1. PICK bus \in Buses :
        sent = bus.frames /\ disturbed = bus.disturbed /\ line = bus.line
  BY DEF Init
<1>2. Len(bus.line) \in Nat /\ Len(bus.line) > 0
  BY BusLine
<1>3. IsRest(line, bus.line, 1)
  BY <1>1, <1>2 DEF IsRest
<1>4. 1 \in 1 .. Len(bus.line) /\ pc # "parse"
  BY <1>2 DEF Init
<1> QED BY <1>1, <1>3, <1>4 DEF LineInv

\* The rest of a rest of a line, and what is received of it, are of the line.
LEMMA RestOfRest ==
    ASSUME NEW levels \in Seq(Symbols), NEW rest \in Seq(Symbols), NEW m \in 1 .. Len(levels),
           IsRest(rest, levels, m), NEW n \in 2 .. Len(rest)
    PROVE  /\ SubSeq(rest, 2, n - 1) = SubSeq(levels, m + 1, m + n - 2)
           /\ IsRest(SubSeq(rest, n, Len(rest)), levels, m + n - 1)
<1>1. Len(levels) \in Nat /\ Len(rest) \in Nat /\ Len(rest) = Len(levels) - m + 1
  BY DEF IsRest
<1>2. \A x \in 1 .. Len(rest) : rest[x] = levels[m + x - 1]
  BY DEF IsRest
<1>3. SubSeq(rest, 2, n - 1) = SubSeq(levels, m + 1, m + n - 2)
  <2>1. PICK u, v : u = SubSeq(rest, 2, n - 1) /\ v = SubSeq(levels, m + 1, m + n - 2)
    OBVIOUS
  <2>2. /\ u \in Seq(Symbols) /\ Len(u) = n - 2
        /\ \A x \in 1 .. n - 2 : u[x] = rest[x + 1]
    <3>1. \A x \in 2 .. n - 1 : rest[x] \in Symbols
      BY <1>1
    <3> QED BY <1>1, <2>1, <3>1, SubSeqProperties
  <2>3. /\ v \in Seq(Symbols) /\ Len(v) = n - 2
        /\ \A x \in 1 .. n - 2 : v[x] = levels[m + x]
    <3>1. \A x \in m + 1 .. m + n - 2 : levels[x] \in Symbols
      BY <1>1
    <3> QED BY <1>1, <2>1, <3>1, SubSeqProperties
  <2>4. \A x \in 1 .. n - 2 : u[x] = v[x]
    <3> SUFFICES ASSUME NEW x \in 1 .. n - 2 PROVE u[x] = v[x]
      OBVIOUS
    <3>1. x + 1 \in 1 .. Len(rest) /\ m + (x + 1) - 1 = m + x
      BY <1>1
    <3> QED BY <1>2, <2>2, <2>3, <3>1
  <2>5. u = v
    BY <2>2, <2>3, <2>4, SeqEqual
  <2> QED BY <2>1, <2>5
<1>4. IsRest(SubSeq(rest, n, Len(rest)), levels, m + n - 1)
  <2>1. PICK u : u = SubSeq(rest, n, Len(rest))
    OBVIOUS
  <2>2. /\ Len(u) = Len(rest) - n + 1
        /\ \A x \in 1 .. Len(rest) - n + 1 : u[x] = rest[n + x - 1]
    <3>1. \A x \in n .. Len(rest) : rest[x] \in Symbols
      BY <1>1
    <3> QED BY <1>1, <2>1, <3>1, SubSeqProperties
  <2>3. Len(u) = Len(levels) - (m + n - 1) + 1
    BY <1>1, <2>2
  <2>4. \A x \in 1 .. Len(u) : u[x] = levels[(m + n - 1) + x - 1]
    <3> SUFFICES ASSUME NEW x \in 1 .. Len(u) PROVE u[x] = levels[(m + n - 1) + x - 1]
      OBVIOUS
    <3>1. n + x - 1 \in 1 .. Len(rest) /\ m + (n + x - 1) - 1 = (m + n - 1) + x - 1
      BY <1>1, <2>2
    <3> QED BY <1>2, <2>2, <3>1
  <2> QED BY <2>1, <2>3, <2>4 DEF IsRest
<1> QED BY <1>3, <1>4

LEMMA ReceiveLine ==
    ASSUME TypeOK, LineInv, Receive PROVE LineInv'
<1>1. PICK bus \in Buses : \E m \in 1 .. Len(bus.line) :
        /\ sent = bus.frames /\ disturbed = bus.disturbed
        /\ IsRest(line, bus.line, m)
        /\ m = 1 \/ bus.line[m].slices >= 10
  BY DEF LineInv
<1>2. PICK levels : levels = bus.line
  OBVIOUS
<1>3. PICK m \in 1 .. Len(levels) :
        /\ sent = bus.frames /\ disturbed = bus.disturbed
        /\ IsRest(line, levels, m)
        /\ m = 1 \/ levels[m].slices >= 10
  BY <1>1, <1>2
<1>4. levels \in Seq(Symbols) /\ Len(levels) \in Nat /\ line \in Seq(Symbols)
  BY <1>2, BusLine DEF TypeOK
<1>5. PICK n \in 2 .. Len(line) :
        /\ line[n].slices >= 10 /\ \A k \in 2 .. n - 1 : line[k].slices <= 10
        /\ received_symbols' = SubSeq(line, 2, n - 1)
        /\ line' = SubSeq(line, n, Len(line))
  BY DEF Receive
<1>6. /\ Len(line) = Len(levels) - m + 1
      /\ \A x \in 1 .. Len(line) : line[x] = levels[m + x - 1]
  BY <1>3 DEF IsRest
<1>7. PICK new \in 1 .. Len(levels) : new = m + n - 1
  <2>1. m + n - 1 \in 1 .. Len(levels)
    BY <1>4, <1>6
  <2> QED BY <2>1
<1>8. PICK first \in 2 .. new : first = m + 1
  <2>1. m + 1 \in 2 .. new
    BY <1>4, <1>6, <1>7
  <2> QED BY <2>1
<1>9. levels[new].slices >= 10
  <2>1. n \in 1 .. Len(line)
    BY <1>4, <1>6
  <2>2. line[n] = levels[new]
    BY <1>6, <1>7, <2>1
  <2> QED BY <1>5, <2>2
<1>10. IsReception(levels, first, new - 1)
  <2>1. first = 2 \/ levels[first - 1].slices >= 10
    <3>1. first - 1 = m /\ (m = 1 => first = 2)
      BY <1>4, <1>8
    <3> QED BY <1>3, <3>1
  <2>2. (new - 1) + 1 = new
    BY <1>4, <1>7
  <2>3. ASSUME NEW k \in first .. new - 1 PROVE levels[k].slices <= 10
    <3>1. PICK x \in 2 .. n - 1 : x = k - m + 1
      <4>1. k - m + 1 \in 2 .. n - 1
        BY <1>4, <1>7, <1>8
      <4> QED BY <4>1
    <3>2. x \in 1 .. Len(line)
      BY <1>4
    <3>3. k \in Int /\ m + x - 1 = k
      BY <1>4, <1>7, <1>8, <3>1
    <3>4. line[x] = levels[k]
      BY <1>6, <3>2, <3>3
    <3> QED BY <1>5, <3>1, <3>4
  <2> QED BY <1>9, <2>1, <2>2, <2>3 DEF IsReception
<1>11. received_symbols' = SubSeq(levels, first, new - 1)
       /\ IsRest(line', levels, new)
  <2>1. new - 1 = m + n - 2
    BY <1>4, <1>7
  <2>2. SubSeq(line, 2, n - 1) = SubSeq(levels, m + 1, m + n - 2)
    BY <1>3, <1>4, RestOfRest
  <2>3. IsRest(SubSeq(line, n, Len(line)), levels, m + n - 1)
    BY <1>3, <1>4, RestOfRest
  <2> QED BY <1>5, <1>7, <1>8, <2>1, <2>2, <2>3
<1>12. Received(received_symbols', levels, new)
  BY <1>10, <1>11 DEF Received
<1>13. sent' = bus.frames /\ disturbed' = bus.disturbed
  BY <1>1 DEF Receive
<1> QED BY <1>2, <1>9, <1>11, <1>12, <1>13 DEF LineInv

\* What is being parsed was received of the line of the bus.
LEMMA ParsedIsReceived ==
    ASSUME LineInv, pc = "parse"
    PROVE  \E bus \in Buses : \E first \in 2 .. Len(bus.line) :
            \E last \in first - 1 .. Len(bus.line) - 1 :
                /\ sent = bus.frames /\ disturbed = bus.disturbed
                /\ IsReception(bus.line, first, last)
                /\ received_symbols = SubSeq(bus.line, first, last)
<1>1. PICK bus \in Buses : \E m \in 1 .. Len(bus.line) :
        /\ sent = bus.frames /\ disturbed = bus.disturbed
        /\ Received(received_symbols, bus.line, m)
  BY DEF LineInv
<1>2. PICK m \in 1 .. Len(bus.line) : Received(received_symbols, bus.line, m)
  BY <1>1
<1>3. PICK first \in 2 .. m :
        /\ IsReception(bus.line, first, m - 1)
        /\ received_symbols = SubSeq(bus.line, first, m - 1)
  BY <1>2 DEF Received
<1>4. first \in 2 .. Len(bus.line) /\ m - 1 \in first - 1 .. Len(bus.line) - 1
  BY BusLine, <1>2, <1>3
<1> QED BY <1>1, <1>3, <1>4

\* No level of a reception is longer than ten slices.
LEMMA ReceivedIsShort ==
    ASSUME TypeOK, LineInv, pc = "parse", NEW x \in 1 .. Len(received_symbols)
    PROVE  received_symbols[x] \in Symbols /\ received_symbols[x].slices <= 10
<1>1. PICK bus \in Buses : \E first \in 2 .. Len(bus.line) :
        \E last \in first - 1 .. Len(bus.line) - 1 :
            /\ IsReception(bus.line, first, last)
            /\ received_symbols = SubSeq(bus.line, first, last)
  BY ParsedIsReceived
<1>2. PICK levels : levels = bus.line
  OBVIOUS
<1>3. levels \in Seq(Symbols) /\ Len(levels) \in Nat
  BY <1>2, BusLine
<1>4. PICK first \in 2 .. Len(levels) : \E last \in first - 1 .. Len(levels) - 1 :
            /\ IsReception(levels, first, last)
            /\ received_symbols = SubSeq(levels, first, last)
  BY <1>1, <1>2
<1>5. PICK last \in first - 1 .. Len(levels) - 1 :
            /\ IsReception(levels, first, last)
            /\ received_symbols = SubSeq(levels, first, last)
  BY <1>4
<1>6. /\ Len(received_symbols) = last - first + 1
      /\ \A k \in 1 .. last - first + 1 : received_symbols[k] = levels[first + k - 1]
  <2>1. \A k \in first .. last : levels[k] \in Symbols
    BY <1>3
  <2> QED BY <1>3, <1>5, <2>1, SubSeqProperties
<1>7. PICK y \in first .. last : y = first + x - 1
  <2>1. first + x - 1 \in first .. last
    BY <1>3, <1>6
  <2> QED BY <2>1
<1>8. received_symbols[x] = levels[y] /\ y \in 1 .. Len(levels)
  BY <1>3, <1>6, <1>7
<1> QED BY <1>3, <1>5, <1>7, <1>8 DEF IsReception

----------------------------------------------------------------------------
(* What is read of any bus *)

\* However the durations are off and however the bus is disturbed, what is decoded is what
\* would be if no duration were off.
ReadsAsExact ==
    pc = "parse" =>
        /\ decoder = ReadingOf(received_symbols, i - 1).decoder
        /\ temp_array = ReadingOf(received_symbols, i - 1).bytes

LEMMA ReceiveRead ==
    ASSUME TypeOK, ArrayInv, Receive PROVE ReadsAsExact'
<1>1. received_symbols' \in Seq(Symbols)
  BY ReceiveTypes DEF TypeOK
<1>2. i' = 1 /\ decoder' = InitDecoder /\ temp_array' = <<>>
  BY DEF Receive
<1>3. ReadingOf(received_symbols', 0) = FirstReading
  BY <1>1, ReadingSteps
<1>4. i' - 1 = 0
  BY <1>2
<1> QED BY <1>2, <1>3, <1>4 DEF ReadsAsExact, FirstReading

LEMMA ParseLevelRead ==
    ASSUME TypeOK, LineInv, ReadsAsExact, ParseLevel PROVE ReadsAsExact'
<1>1. /\ pc = "parse" /\ MoreToParse /\ i' = i + 1 /\ received_symbols' = received_symbols
  BY DEF ParseLevel
<1>2. received_symbols \in Seq(Symbols) /\ i \in 1 .. Len(received_symbols)
  <2>1. Len(received_symbols) \in Nat
    BY DEF TypeOK
  <2> QED BY <1>1, <2>1 DEF MoreToParse, TypeOK
<1>3. PICK jitter \in -3 .. 4 :
        decoder' = ParseByte(decoder, received_symbols[i].level,
                             received_symbols[i].slices * 8 + jitter)
  BY JitterAssumption DEF ParseLevel
<1>4. PICK symbol \in Symbols : symbol = received_symbols[i] /\ symbol.slices <= 10
  BY <1>1, <1>2, ReceivedIsShort
<1>5. PICK d : d = ParseByte(decoder, symbol.level, symbol.slices * 8)
  OBVIOUS
<1>6. decoder' = d
  BY <1>3, <1>4, <1>5, JitterDoesNotMatter, Zenon
<1>7. temp_array' = IF d.complete THEN Append(temp_array, d.finalByte) ELSE temp_array
  BY <1>6 DEF ParseLevel
<1>8. PICK r : r = ReadingOf(received_symbols, i - 1)
  OBVIOUS
<1>9. decoder = r.decoder /\ temp_array = r.bytes
  BY <1>1, <1>8 DEF ReadsAsExact
<1>10. ReadingOf(received_symbols, i) = ReadOn(r, received_symbols, i)
  BY <1>2, <1>8, ReadingSteps
<1>11. ~(IsFull(Len(r.bytes)) /\ i % 2 = 1)
  BY <1>1, <1>9 DEF MoreToParse
<1>12. ReadOn(r, received_symbols, i)
        = [decoder |-> d,
           bytes |-> IF d.complete THEN Append(r.bytes, d.finalByte) ELSE r.bytes]
  BY <1>4, <1>5, <1>9, <1>11, Zenon DEF ReadOn
<1>13. ReadOn(r, received_symbols, i) = [decoder |-> decoder', bytes |-> temp_array']
  BY <1>6, <1>7, <1>9, <1>12
<1>14. i' - 1 = i
  BY <1>1, <1>2
<1> QED BY <1>1, <1>10, <1>13, <1>14 DEF ReadsAsExact

\* What is accepted is what the whole reception reads as.
LEMMA AcceptedIsRead ==
    ASSUME TypeOK, ReadsAsExact, ParseEnds, IsAccepted(temp_array)
    PROVE  temp_array = ReadingOf(received_symbols, Len(received_symbols)).bytes
<1>1. /\ pc = "parse" /\ ~MoreToParse
  BY DEF ParseEnds
<1>2. ~IsFull(Len(temp_array))
  <2>1. Len(temp_array) \in Nat /\ Len(temp_array) < VAN_MAX_PACKET_LEN
    BY DEF TypeOK, IsAccepted
  <2> QED BY <2>1 DEF IsFull, VAN_MAX_PACKET_LEN
<1>3. i - 1 = Len(received_symbols)
  <2>1. ~(i <= Len(received_symbols))
    BY <1>1, <1>2 DEF MoreToParse
  <2>2. Len(received_symbols) \in Nat /\ i \in 1 .. Len(received_symbols) + 1
    BY DEF TypeOK
  <2> QED BY <2>1, <2>2
<1> QED BY <1>1, <1>3 DEF ReadsAsExact

\* What has been accepted is of the frames on the bus.
AcceptedOf(received, frames) == \A p \in Range(received) : p \in Range(Wanted(frames))
DisturbedInv == disturbed => AcceptedOf(packets, sent)

LEMMA AcceptsOneMore ==
    ASSUME NEW received \in Seq(Packets), NEW packet \in Packets, NEW frames,
           AcceptedOf(received, frames), packet \in Range(Wanted(frames))
    PROVE  AcceptedOf(Append(received, packet), frames)
<1>1. PICK all : all = Append(received, packet)
  OBVIOUS
<1>2. /\ all \in Seq(Packets) /\ Len(all) = Len(received) + 1 /\ Len(received) \in Nat
      /\ \A x \in 1 .. Len(received) : all[x] = received[x]
      /\ all[Len(received) + 1] = packet
  BY <1>1, AppendProperties
<1>3. ASSUME NEW p \in Range(all) PROVE p \in Range(Wanted(frames))
  <2>1. PICK x \in 1 .. Len(all) : p = all[x]
    BY <1>2 DEF Range
  <2>2. CASE x \in 1 .. Len(received)
    <3>1. received[x] \in Range(received)
      BY <2>2 DEF Range
    <3> QED BY <1>2, <2>1, <2>2, <3>1 DEF AcceptedOf
  <2>3. CASE x = Len(received) + 1
    BY <1>2, <2>1, <2>3
  <2> QED BY <1>2, <2>2, <2>3
<1> QED BY <1>1, <1>3 DEF AcceptedOf

LEMMA ParseEndsDisturbed ==
    ASSUME CrcTellsDisturbances, TypeOK, LineInv, ReadsAsExact, DisturbedInv, ParseEnds
    PROVE  DisturbedInv'
<1>1. sent' = sent /\ disturbed' = disturbed
  BY DEF ParseEnds, busVars
<1>2. SUFFICES ASSUME disturbed PROVE AcceptedOf(packets', sent)
  BY <1>1 DEF DisturbedInv
<1>3. packets \in Seq(Packets) /\ temp_array \in Seq(Bytes)
  BY DEF TypeOK, Packets, Identifiers
<1>4. CASE IsAccepted(temp_array)
  <2>1. PICK bus \in Buses : \E first \in 2 .. Len(bus.line) :
            \E last \in first - 1 .. Len(bus.line) - 1 :
                /\ sent = bus.frames /\ disturbed = bus.disturbed
                /\ IsReception(bus.line, first, last)
                /\ received_symbols = SubSeq(bus.line, first, last)
    BY ParsedIsReceived DEF ParseEnds
  <2>2. bus \in {b \in Buses : b.disturbed} /\ sent = bus.frames
    BY <1>2, <2>1
  <2>3. PICK first \in 2 .. Len(bus.line) : \E last \in first - 1 .. Len(bus.line) - 1 :
                /\ IsReception(bus.line, first, last)
                /\ received_symbols = SubSeq(bus.line, first, last)
    BY <2>1
  <2>4. PICK last \in first - 1 .. Len(bus.line) - 1 :
                /\ IsReception(bus.line, first, last)
                /\ received_symbols = SubSeq(bus.line, first, last)
    BY <2>3
  <2>5. temp_array = ReadingOf(received_symbols, Len(received_symbols)).bytes
    BY <1>4, AcceptedIsRead
  <2>6. PacketOf(temp_array) \in Range(Wanted(sent))
    BY <1>4, <2>2, <2>4, <2>5 DEF CrcTellsDisturbances
  <2>7. PICK packet \in Packets : packet = PacketOf(temp_array)
    <3>1. Len(temp_array) > 5
      BY <1>4 DEF IsAccepted
    <3> QED BY <1>3, <3>1, PacketOfFrame
  <2>8. packets' = Append(packets, packet)
    BY <1>4, <2>7 DEF ParseEnds
  <2> QED BY <1>2, <1>3, <2>6, <2>7, <2>8, AcceptsOneMore DEF DisturbedInv
<1>5. CASE ~IsAccepted(temp_array)
  BY <1>2, <1>5 DEF ParseEnds, DisturbedInv
<1> QED BY <1>4, <1>5

\* On a bus that is not disturbed, what has been received is the beginning of what the frames
\* should become.
LEMMA UndisturbedIsSent ==
    ASSUME TypeOK, DecodesWhatWasSent, ~disturbed PROVE AcceptedIsSent
<1>1. IsPrefix(packets, Wanted(sent))
  BY DEF DecodesWhatWasSent
<1>2. PICK p, w : p = packets /\ w = Wanted(sent)
  OBVIOUS
<1>3. p \in Seq(Packets) /\ w \in Seq(Packets)
  <2>1. sent \in Seq(Seq(Bytes)) /\ Len(sent) \in 0 .. Len(sent)
    BY DEF TypeOK
  <2>2. WantedOf(sent, Len(sent)) \in Seq(Packets)
    BY <2>1, WantedSteps
  <2>3. packets \in Seq(Packets)
    BY DEF TypeOK, Packets, Identifiers
  <2> QED BY <1>2, <2>2, <2>3 DEF Wanted
<1>4. Len(p) <= Len(w) /\ \A x \in 1 .. Len(p) : p[x] = w[x]
  <2>1. Len(p) <= Len(w) /\ SubSeq(p, 1, Len(p)) = SubSeq(w, 1, Len(p))
    BY <1>1, <1>2 DEF IsPrefix
  <2>2. \A x \in 1 .. Len(p) : SubSeq(p, 1, Len(p))[x] = p[x] /\ SubSeq(w, 1, Len(p))[x] = w[x]
    BY <1>3, <2>1
  <2> QED BY <2>1, <2>2
<1>5. ASSUME NEW e \in Range(p) PROVE e \in Range(w)
  <2>1. PICK x \in 1 .. Len(p) : e = p[x]
    BY <1>3 DEF Range
  <2>2. x \in 1 .. Len(w) /\ e = w[x]
    BY <1>3, <1>4, <2>1
  <2> QED BY <1>3, <2>2 DEF Range
<1> QED BY <1>2, <1>5 DEF AcceptedIsSent

DisturbedInvs == TypeOK /\ ArrayInv /\ LineInv /\ ReadsAsExact

LEMMA InitReads ==
    ASSUME Init PROVE DisturbedInvs /\ DisturbedInv
<1>1. packets = <<>> /\ pc = "receive"
  BY DEF Init
<1>2. Range(packets) = {}
  BY <1>1 DEF Range
<1>3. ReadsAsExact
  BY <1>1 DEF ReadsAsExact
<1> QED BY <1>2, <1>3, InitTypes, InitLine DEF DisturbedInvs, DisturbedInv, AcceptedOf

LEMMA ReadsOn ==
    ASSUME DisturbedInvs, [Next]_vars PROVE DisturbedInvs'
<1>1. TypeOK /\ ArrayInv /\ LineInv /\ ReadsAsExact
  BY DEF DisturbedInvs
<1>2. CASE Receive
  BY <1>1, <1>2, ReceiveTypes, ReceiveLine, ReceiveRead DEF DisturbedInvs
<1>3. CASE ParseLevel
  <2>1. LineInv'
    BY <1>1, <1>3 DEF LineInv, ParseLevel, busVars
  <2> QED BY <1>1, <1>3, <2>1, ParseLevelTypes, ParseLevelRead DEF DisturbedInvs
<1>4. CASE ParseEnds
  <2>1. LineInv'
    BY <1>1, <1>4 DEF LineInv, ParseEnds, busVars
  <2>2. ReadsAsExact'
    BY <1>4 DEF ReadsAsExact, ParseEnds
  <2> QED BY <1>1, <1>4, <2>1, <2>2, ParseEndsTypes DEF DisturbedInvs
<1>5. CASE UNCHANGED vars
  BY <1>1, <1>5 DEF DisturbedInvs, TypeOK, ArrayInv, LineInv, ReadsAsExact, vars, busVars
<1> QED BY <1>2, <1>3, <1>4, <1>5 DEF Next

\* Whatever is on the bus and however it is disturbed, durations that are off by up to 3 us
\* early and 4 us late change nothing: decoder and array are always those of a reception whose
\* durations are exact (van_rmt_rx.c:84-115, van_rmt_task.c:39-57).
THEOREM EveryBusReadsAsExact == Spec => []ReadsAsExact
<1>1. Init => DisturbedInvs
  BY InitReads
<1>2. DisturbedInvs /\ [Next]_vars => DisturbedInvs'
  BY ReadsOn
<1>3. DisturbedInvs => ReadsAsExact
  BY DEF DisturbedInvs
<1> QED BY <1>1, <1>2, <1>3, PTL DEF Spec

LEMMA DisturbedStep ==
    ASSUME CrcTellsDisturbances, DisturbedInvs, DisturbedInv, [Next]_vars
    PROVE  DisturbedInv'
<1>1. CASE Receive
  BY <1>1 DEF Receive, DisturbedInv, AcceptedOf
<1>2. CASE ParseLevel
  BY <1>2 DEF ParseLevel, busVars, DisturbedInv, AcceptedOf
<1>3. CASE ParseEnds
  BY <1>3, ParseEndsDisturbed DEF DisturbedInvs
<1>4. CASE UNCHANGED vars
  BY <1>4 DEF DisturbedInv, AcceptedOf, vars, busVars
<1> QED BY <1>1, <1>2, <1>3, <1>4 DEF Next

\* When the CRC tells the disturbances of the buses, which is a fact about the levels on
\* them, what is accepted is what was sent, wherever a reception begins and ends and however
\* its durations are off (van_rmt_rx.c:72-118, 172-203, van_rmt_task.c:22-87).
THEOREM AcceptedWasSent == CrcTellsDisturbances => (Spec => []AcceptedIsSent)
<1> SUFFICES ASSUME CrcTellsDisturbances PROVE Spec => []AcceptedIsSent
  OBVIOUS
<1>1. Init => DisturbedInvs /\ DisturbedInv
  BY InitReads
<1>2. DisturbedInvs /\ DisturbedInv /\ [Next]_vars => DisturbedInvs' /\ DisturbedInv'
  BY ReadsOn, DisturbedStep
<1>3. DisturbedInvs /\ DisturbedInv /\ DecodesWhatWasSent => AcceptedIsSent
  BY UndisturbedIsSent DEF DisturbedInvs, DisturbedInv, AcceptedOf, AcceptedIsSent
<1> QED BY <1>1, <1>2, <1>3, FramesAreReceived, PTL DEF Spec
=============================================================================
