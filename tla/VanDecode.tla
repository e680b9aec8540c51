------------------------------ MODULE VanDecode ------------------------------
(***************************************************************************)
(* From the levels of the VAN bus to packets.  The RMT peripheral measures *)
(* how long the line stays at a level, in microseconds, until it stays at  *)
(* one for longer than ten time slices.  van_parse_bytes                   *)
(* (van_rmt_task.c:22-87) turns the durations into bytes with              *)
(* van_rmt_rx_parse_byte (van_rmt_rx.c:72-118), and takes what has a CRC   *)
(* that fits for a packet.                                                 *)
(*                                                                         *)
(* The bus itself is not the firmware's: frames follow one another, every  *)
(* nibble is followed by the complement of its last bit, slices may be     *)
(* disturbed, and every duration may be a little off.                      *)
(*                                                                         *)
(* What becomes of the symbols between the interrupt and the task is in    *)
(* VanReceive; here every reception is parsed before the next one ends.    *)
(***************************************************************************)
EXTENDS Integers, SequencesExt, Common

CONSTANTS
    Buses,          \* what may be on the bus, each with the frames it is made of
    Jitters,        \* how far a duration may be off, in microseconds
    Crc15(_)        \* van_rmt_rx_crc15

VAN_MAX_PACKET_LEN == 40

VARIABLES
    sent,           \* the frames on the bus, with SOF and CRC
    starts,         \* the time slices they start at
    disturbed,      \* whether slices of them were disturbed
    line,           \* the levels to come, [level, at, slices], the first one is idle
    received_symbols,
    i,              \* the next one of them
    pc,             \* where van_rmt_task is
    decoder,        \* bitCounter, mask, tempByte and finalByte
    temp_array,     \* the bytes so far
    packets         \* the packets for main_task

busVars == <<sent, starts, disturbed, line>>
vars == <<busVars, received_symbols, i, pc, decoder, temp_array, packets>>

----------------------------------------------------------------------------
(* The bus *)

StartOfFrame == 14
GapLength == 12     \* end of frame, and space between frames

\* A byte is ten slices, of which the fifth and the tenth are complements.
Weight == <<128, 64, 32, 16, 16, 8, 4, 2, 1, 1>>
ByteSlice(byte, k) ==
    LET bit == (byte \div Weight[k + 1]) % 2
    IN  IF k \in {4, 9} THEN 1 - bit ELSE bit

\* The very last slice of the bytes is 0, which no complement is there: the end of the
\* data.  It is followed by the acknowledgement.
FrameLength(frame) == 10 * Len(frame) + 2
FrameSlice(frame, k) ==
    IF k >= 10 * Len(frame) - 1 THEN IF k = 10 * Len(frame) THEN 1 ELSE 0
    ELSE ByteSlice(frame[(k \div 10) + 1], k % 10)

\* A frame has an identifier and at most 28 bytes of data, and the CRC the receiver
\* computes.
IsFrame(frame) ==
    LET n == Len(frame)
    IN  /\ frame \in Seq(Bytes) /\ n \in 5 .. 33
        /\ frame[1] = StartOfFrame
        /\ Crc15(SubSeq(frame, 2, n - 2)) = frame[n - 1] * 256 + frame[n]

\* The line changes its level from entry to entry.
Symbols == [level : {0, 1}, at : Nat, slices : Nat \ {0}]
IsLine(levels) ==
    /\ levels \in Seq(Symbols)
    /\ levels # <<>>
    /\ \A n \in 1 .. Len(levels) - 1 :
        /\ levels[n + 1].level = 1 - levels[n].level
        /\ levels[n + 1].at = levels[n].at + levels[n].slices

\* Frames and gaps between them, from slice 0; the end of no frames at all is 0.
End(frames, begins, k) == IF k = 0 THEN 0 ELSE begins[k] + FrameLength(frames[k])
Follow(frames, begins) ==
    /\ Len(begins) = Len(frames)
    /\ \A k \in 1 .. Len(begins) : begins[k] = End(frames, begins, k - 1) + GapLength

\* What the line carries when it is not disturbed.
Carry(symbol, frames, begins) ==
    \A t \in symbol.at .. symbol.at + symbol.slices - 1 :
        /\ \A k \in 1 .. Len(frames) :
            t \in begins[k] .. End(frames, begins, k) - 1 =>
                symbol.level = FrameSlice(frames[k], t - begins[k])
        /\ \A k \in 0 .. Len(frames) :
            t \in End(frames, begins, k) .. End(frames, begins, k) + GapLength - 1 =>
                symbol.level = 1
CarriesFrames(levels, frames, begins) ==
    LET last == levels[Len(levels)]
    IN  /\ levels[1].at = 0
        /\ last.at + last.slices = End(frames, begins, Len(frames)) + GapLength
        /\ \A n \in 1 .. Len(levels) : Carry(levels[n], frames, begins)

ASSUME BusAssumption ==
    \A bus \in Buses :
        /\ bus.frames \in Seq(Seq(Bytes)) /\ bus.frames # <<>>
        /\ \A k \in 1 .. Len(bus.frames) : IsFrame(bus.frames[k])
        /\ bus.starts \in Seq(Nat) /\ Follow(bus.frames, bus.starts)
        /\ bus.disturbed \in BOOLEAN
        /\ IsLine(bus.line)
        /\ ~bus.disturbed => CarriesFrames(bus.line, bus.frames, bus.starts)
ASSUME JitterAssumption == Jitters \subseteq -3 .. 4

----------------------------------------------------------------------------
(* van_rmt_rx_parse_byte *)

\* RX_VAN_NETWORK_COMFORT: one slice is 8 us.
rmt_rx_time_slice_divisor == 8

\* bitCounter, mask, tempByte and finalByte of van_parse_bytes, and whether the last
\* duration has completed a byte.
InitDecoder == [bitCounter |-> 0, mask |-> 128, tempByte |-> 0, finalByte |-> 0, complete |-> FALSE]

\* The duration becomes a byte when it is rounded.
CountOfTimeSlices(duration) ==
    RoundToNearest(duration % 256, rmt_rx_time_slice_divisor) \div rmt_rx_time_slice_divisor

\* One turn of the loop of van_rmt_rx_parse_byte: every fifth slice is skipped, and the
\* tenth completes the byte.  bitCounter is a byte: -1 is 255, and 255 + 1 is 0.
Slice(d, level) ==
    IF (d.bitCounter + 1) % 5 # 0
    THEN [d EXCEPT !.tempByte = @ + level * d.mask, !.mask = @ \div 2, !.bitCounter = @ + 1]
    ELSE IF d.bitCounter = 9
         THEN [bitCounter |-> 0, mask |-> 128, tempByte |-> 0, finalByte |-> d.tempByte,
               complete |-> TRUE]
         ELSE [d EXCEPT !.bitCounter = @ + 1]

\* A duration, which is so many turns of the loop.
SlicesOf(d, level, n) ==
    LET turns[k \in Nat] == IF k = 0 THEN d ELSE Slice(turns[k - 1], level)
    IN  turns[n]
ParseByte(d, level, duration) ==
    SlicesOf([d EXCEPT !.complete = FALSE], level, CountOfTimeSlices(duration))

----------------------------------------------------------------------------
(* van_parse_bytes *)

Init ==
    \E bus \in Buses :
        /\ sent = bus.frames /\ starts = bus.starts /\ disturbed = bus.disturbed
        /\ line = bus.line
        /\ received_symbols = <<>> /\ i = 1
        /\ pc = "receive"
        /\ decoder = InitDecoder
        /\ temp_array = <<>>
        /\ packets = <<>>

\* The line stays at a level for longer than ten slices, and the reception ends before
\* that; at ten it may.  The peripheral starts again with the next level.
Receive ==
    /\ pc = "receive"
    /\ \E n \in 2 .. Len(line) :
        /\ line[n].slices >= 10
        /\ \A k \in 2 .. n - 1 : line[k].slices <= 10
        /\ received_symbols' = SubSeq(line, 2, n - 1)
        /\ line' = SubSeq(line, n, Len(line))
    /\ i' = 1
    /\ pc' = "parse"
    /\ decoder' = InitDecoder
    /\ temp_array' = <<>>
    /\ UNCHANGED <<sent, starts, disturbed, packets>>

\* A mutant: the loop looks at a bound beyond the end of the array.
IsFullLate(length) == length >= 255

\* Looked at once for the two levels of a symbol.
IsFull(length) == length >= VAN_MAX_PACKET_LEN

MoreToParse ==
    /\ i <= Len(received_symbols)
    /\ i % 2 = 1 => ~IsFull(Len(temp_array))

ParseLevel ==
    /\ pc = "parse"
    /\ MoreToParse
    /\ \E jitter \in Jitters :
        decoder' = ParseByte(decoder, received_symbols[i].level,
                             received_symbols[i].slices * 8 + jitter)
    /\ temp_array' = IF decoder'.complete THEN Append(temp_array, decoder'.finalByte)
                     ELSE temp_array
    /\ i' = i + 1
    /\ UNCHANGED <<busVars, received_symbols, pc, packets>>

\* van_rmt_rx_is_crc_ok
IsCrcOk(vanMessage) ==
    LET n == Len(vanMessage)
    IN  /\ n >= 5 /\ n - 3 <= 32
        /\ vanMessage[n - 1] * 256 + vanMessage[n] = Crc15(SubSeq(vanMessage, 2, n - 2))

PacketOf(vanMessage) ==
    [iden |-> GetIdenFromBytes(vanMessage[2], vanMessage[3]),
     data |-> SubSeq(vanMessage, 4, Len(vanMessage) - 2)]

IsAccepted(vanMessage) ==
    /\ Len(vanMessage) > 5 /\ Len(vanMessage) < VAN_MAX_PACKET_LEN
    /\ IsCrcOk(vanMessage)

\* A mutant: a CRC that does not fit is logged, and accepted.
ParseEndsAndLogs ==
    /\ pc = "parse"
    /\ ~MoreToParse
    /\ packets' = IF Len(temp_array) \in 6 .. 35 THEN Append(packets, PacketOf(temp_array))
                  ELSE packets
    /\ pc' = "receive"
    /\ UNCHANGED <<busVars, received_symbols, i, decoder, temp_array>>

ParseEnds ==
    /\ pc = "parse"
    /\ ~MoreToParse
    /\ packets' = IF IsAccepted(temp_array) THEN Append(packets, PacketOf(temp_array))
                  ELSE packets
    /\ pc' = "receive"
    /\ UNCHANGED <<busVars, received_symbols, i, decoder, temp_array>>

Next == Receive \/ ParseLevel \/ ParseEnds

Spec == Init /\ [][Next]_vars

----------------------------------------------------------------------------
(* What the bus should become *)

\* The packets the first n frames should become: all but those without data.
WantedOf(frames, n) ==
    LET wanted[k \in 0 .. Len(frames)] ==
            IF k = 0 THEN <<>>
            ELSE IF Len(frames[k]) > 5 THEN Append(wanted[k - 1], PacketOf(frames[k]))
            ELSE wanted[k - 1]
    IN  wanted[n]
Wanted(frames) == WantedOf(frames, Len(frames))

\* What the first n levels of a reception become when no duration is off.
ReadOn(reading, symbols, k) ==
    LET d == ParseByte(reading.decoder, symbols[k].level, symbols[k].slices * 8)
    IN  IF IsFull(Len(reading.bytes)) /\ k % 2 = 1 THEN reading
        ELSE [decoder |-> d,
              bytes |-> IF d.complete THEN Append(reading.bytes, d.finalByte) ELSE reading.bytes]
ReadingOf(symbols, n) ==
    LET reading[k \in 0 .. Len(symbols)] ==
            IF k = 0 THEN [decoder |-> InitDecoder, bytes |-> <<>>]
            ELSE ReadOn(reading[k - 1], symbols, k)
    IN  reading[n]

\* The RMT peripheral may receive this part of a line.
IsReception(levels, first, last) ==
    /\ first = 2 \/ levels[first - 1].slices >= 10
    /\ levels[last + 1].slices >= 10
    /\ \A k \in first .. last : levels[k].slices <= 10

\* A formula about constants: the CRC tells the disturbances of the buses, and what passes
\* it, read without a duration that is off, is a frame that was sent.
CrcTellsDisturbances ==
    \A bus \in {b \in Buses : b.disturbed} :
        \A first \in 2 .. Len(bus.line) : \A last \in first - 1 .. Len(bus.line) - 1 :
            IsReception(bus.line, first, last) =>
                LET symbols == SubSeq(bus.line, first, last)
                    message == ReadingOf(symbols, Len(symbols)).bytes
                IN  IsAccepted(message) => PacketOf(message) \in Range(Wanted(bus.frames))

----------------------------------------------------------------------------
(* Properties *)

\* Every variable has its type; in particular the bytes fit into temp_array, which has
\* room for 50, although its bound is looked at only before every second level
\* (van_rmt_task.c:34-57).
TypeOK ==
    /\ sent \in Seq(Seq(Bytes)) /\ starts \in Seq(Nat) /\ disturbed \in BOOLEAN
    /\ line \in Seq(Symbols) /\ received_symbols \in Seq(Symbols)
    /\ i \in 1 .. Len(received_symbols) + 1
    /\ pc \in {"receive", "parse"}
    /\ decoder \in [bitCounter : 0 .. 9, mask : 0 .. 128, tempByte : Bytes, finalByte : Bytes,
                    complete : BOOLEAN]
    /\ temp_array \in Seq(Bytes) /\ Len(temp_array) < VAN_MAX_PACKET_LEN + 10
    /\ packets \in Seq([iden : 0 .. 4095, data : Seq(Bytes)])

\* However the durations are off by up to 3 us early and 4 us late, the frames of an
\* undisturbed bus are received byte by byte, in their order, and nothing between them
\* (van_rmt_rx.c:84-115, van_rmt_task.c:37-79).
DecodesWhatWasSent ==
    ~disturbed =>
        /\ \E k \in 1 .. Len(sent) : IsPrefix(temp_array, sent[k])
        /\ IsPrefix(packets, Wanted(sent))
        /\ pc = "receive" /\ Len(line) = 1 => packets = Wanted(sent)

\* What is accepted from a disturbed bus is what was sent: a disturbance of one or two
\* slices, wherever they are, never makes another packet, or two frames one
\* (van_rmt_rx.c:172-203).
AcceptedIsSent == \A p \in Range(packets) : p \in Range(Wanted(sent))
==============================================================================
