----------------------------- MODULE MCVanDecode -----------------------------
(* VanDecode with the firmware's CRC-15, and with short frames that are      *)
(* disturbed in any two slices, frames that a disturbed gap joins, and       *)
(* frames of every length that the bus has.  The CRC a sender sends is the   *)
(* remainder of the division of polynomials, not the one of the firmware's   *)
(* table.                                                                    *)
EXTENDS VanDecode, Checksums

SentCrc(frame) == 2 * (Remainder(32767, Bits(frame), 15, 3997) ^^ 32767)
Framed(frame) ==
    LET crc == SentCrc(frame)
    IN  <<StartOfFrame>> \o frame \o <<crc \div 256, crc % 256>>

Gap == [k \in 1 .. GapLength |-> 1]
Slices(frame) == [k \in 1 .. FrameLength(frame) |-> FrameSlice(frame, k - 1)]

\* All frames, one after the other.
OnTheBus(frames) == FlattenSeq([k \in 1 .. Len(frames) |-> Slices(frames[k]) \o Gap])
Starts(frames) == [k \in 1 .. Len(frames) |-> GapLength + Len(OnTheBus(SubSeq(frames, 1, k - 1)))]
Flip(slices, flips) ==
    [k \in 1 .. Len(slices) |-> IF k \in flips THEN 1 - slices[k] ELSE slices[k]]

\* The levels, from slice at on, and for how many slices the line stays at each.
RECURSIVE Levels(_, _)
Levels(slices, at) ==
    IF slices = <<>> THEN <<>>
    ELSE LET level == Head(slices)
             n == CHOOSE k \in 1 .. Len(slices) :
                    /\ k = Len(slices) \/ slices[k + 1] # level
                    /\ \A j \in 1 .. k : slices[j] = level
         IN  <<[level |-> level, at |-> at, slices |-> n]>>
                \o Levels(SubSeq(slices, n + 1, Len(slices)), at + n)

\* A frame with flags, and what a byte of it may be at the limits.
Frame(n) == [k \in 1 .. n |-> CASE k = 1 -> 94 [] k = 2 -> 72 [] OTHER -> (37 * k + 91 * n) % 256]
Doors == <<79, 168, 255>>
Zeros == <<94, 72, 0>>

Traffic ==
    { <<Zeros>>, <<Doors>>, <<Doors, Zeros>>, <<Frame(2), Doors>>, <<Frame(30), Frame(30)>> }
        \union { <<Frame(n)>> : n \in 2 .. 30 }

\* A frame of one byte of data in two slices, two frames in the gap between them,
\* others nowhere.
Disturbed(frames) ==
    LET end(k) == Len(OnTheBus(SubSeq(frames, 1, k)))
    IN  CASE Len(frames) = 2 -> { {a} : a \in end(1) - 13 .. end(1) } \union {{}}
          [] Len(frames[1]) = 6 -> { {a, b} : a, b \in 1 .. end(1) } \union {{}}
          [] OTHER -> {{}}

BusesOf(frames) ==
    { [frames |-> frames, starts |-> Starts(frames), disturbed |-> flips # {},
       line |-> Levels(Gap \o Flip(OnTheBus(frames), flips), 0)] : flips \in Disturbed(frames) }
MCBuses ==
    UNION { BusesOf([k \in 1 .. Len(traffic) |-> Framed(traffic[k])]) : traffic \in Traffic }

MCJitters == {-3, 0, 4}

\* Both tables are the remainders of the bytes.
ASSUME TablesAreRemainders ==
    \A b \in Bytes :
        /\ crc8tab[b + 1] = Remainder(0, Bits(<<b>>), 8, 213)
        /\ crcTable[b + 1] = Remainder(0, Bits(<<b>>), 15, 3997)

\* The CRC tells every disturbance of these buses.
ASSUME DisturbancesAreTold == CrcTellsDisturbances
==============================================================================
