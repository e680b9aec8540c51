----------------------------- MODULE UartReceive -----------------------------
(***************************************************************************)
(* The way of a packet from the infotainment computer to main_task.        *)
(* uart_rx_task (uart_task.c:142-186) reads a header, then as many bytes   *)
(* as the header says and a checksum, each with a timeout, into one        *)
(* receive buffer; what passes the checksum is copied into the next buffer *)
(* of a ring, and a pointer to that is sent to main_task.                  *)
(*                                                                         *)
(* Bytes are sent by a computer that may pause anywhere, over a line that  *)
(* may lose some.  A timeout may end a read whenever the bytes it waits    *)
(* for are not there.  main_task has the higher priority and runs between  *)
(* any two steps of uart_rx_task, which in turn never sees main_task in    *)
(* the middle of a received packet: that handler does not wait.            *)
(*                                                                         *)
(* The checksum is a parameter: bytes to a byte.                           *)
(***************************************************************************)
EXTENDS Integers, EventQueue, FiniteSets

CONSTANTS
    BuffersNum,         \* PSA_MAIN_UART_SEND_BUFFERS_NUM (20)
    QueueLen,           \* length of the main queue (20, main.c:365)
    Kinds,              \* what the computer sends: records of iden and data
    Heap,               \* values malloc may leave in the receive buffer
    Checksum(_),        \* psa_crc8_checksum
    MaxPackets,         \* bound on the packets of one behaviour
    MaxLost             \* bound on the bytes lost on the line

ASSUME BuffersNumAssumption == BuffersNum \in Nat \ {0}
ASSUME QueueLenAssumption == QueueLen \in Nat \ {0}
ASSUME BoundsAssumption == MaxPackets \in Nat /\ MaxLost \in Nat

Byte == 0 .. 255

\* Two bytes, the lower one first.
Idens == {low + 256 * high : low \in Byte, high \in Byte}

\* A buffer of the ring has room for 128 bytes (global_tasks.h:74), which nothing
\* checks: the computer is assumed to send no more.
ASSUME KindsAssumption ==
    \A kind \in Kinds :
        kind \in [iden : Idens, data : Seq(Byte)] /\ Len(kind.data) <= 128
ASSUME HeapAssumption == Heap \subseteq Byte

\* The checksum is that of identifier, size and data, and a byte.
Covered(kind) == <<kind.iden % 256, kind.iden \div 256, Len(kind.data)>> \o kind.data
ASSUME ChecksumAssumption == \A kind \in Kinds : Checksum(Covered(kind)) \in Byte

VARIABLES
    line,               \* bytes the computer has sent and that have not arrived
    fifo,               \* bytes in the UART driver's buffer
    rx_buffer,          \* what has been read so far; behind it is what malloc left
    heap,               \* ... which is this value
    pc,                 \* where uart_rx_task is
    uart_recv_buffer_num,           \* index of the next buffer of the ring
    global_uart_receive_buffers,    \* the ring: the packets that head and data are of
    task_packet,        \* the buffer being filled
    main_queue,         \* global_main_queue
    \* The remaining variables record what happened.
    packets,            \* the packets the computer has sent
    accepted,           \* the packets that passed the checksum
    late,               \* those of them that met a full main queue
    clean,              \* packets sent to a silent line and a task waiting for a header
    disturbed,          \* packets with a byte that was lost, or a pause that was too long
    lost                \* bytes lost

lineVars == <<line, fifo, packets, clean, lost>>
readVars == <<rx_buffer, heap, accepted>>
ringVars == <<uart_recv_buffer_num, global_uart_receive_buffers, task_packet>>
queueVars == <<main_queue, late>>
vars == <<lineVars, readVars, ringVars, queueVars, pc, disturbed>>

Buffers == 0 .. BuffersNum - 1

\* Events without a received packet: all others that main_task receives.
OtherEvent == [buffer |-> -1, seq |-> 0]

IsPacket(event) == event.seq # 0

\* sizeof(struct psa_header): start, direction, two bytes of identifier, size.
HeaderSize == 5
StartMagic == 105
ToAdapter == 60

\* The bytes of a packet.
Encoded(kind) ==
    <<StartMagic, ToAdapter>> \o Covered(kind) \o <<Checksum(Covered(kind))>>

Init ==
    /\ line = <<>>
    /\ fifo = <<>>
    /\ rx_buffer = <<>>
    /\ heap \in Heap
    /\ pc = "header"
    /\ uart_recv_buffer_num = 0
    /\ global_uart_receive_buffers = [b \in Buffers |-> [head |-> 0, data |-> 0]]
    /\ task_packet = 0
    /\ main_queue = <<>>
    /\ packets = <<>>
    /\ accepted = <<>>
    /\ late = {}
    /\ clean = {}
    /\ disturbed = {}
    /\ lost = 0

----------------------------------------------------------------------------
(* The computer and the line *)

\* Nothing is on its way, and the task waits for a header.
AtRest == line = <<>> /\ fifo = <<>> /\ pc = "header"

ComputerSends(kind) ==
    LET number == Len(packets) + 1
        bytes == Encoded(kind)
    IN  /\ number <= MaxPackets
        /\ packets' = Append(packets, kind)
        /\ line' = line \o [i \in 1 .. Len(bytes) |-> [of |-> number, at |-> i, value |-> bytes[i]]]
        /\ clean' = IF AtRest THEN clean \union {number} ELSE clean
        /\ UNCHANGED <<fifo, lost, readVars, ringVars, queueVars, pc, disturbed>>

ByteArrives ==
    /\ line # <<>>
    /\ fifo' = Append(fifo, Head(line))
    /\ line' = Tail(line)
    /\ UNCHANGED <<packets, clean, lost, readVars, ringVars, queueVars, pc, disturbed>>

\* There is no parity and no flow control.
ByteLost ==
    /\ line # <<>>
    /\ lost < MaxLost
    /\ lost' = lost + 1
    /\ disturbed' = disturbed \union {Head(line).of}
    /\ line' = Tail(line)
    /\ UNCHANGED <<fifo, packets, clean, readVars, ringVars, queueVars, pc>>

----------------------------------------------------------------------------
(* uart_rx_task: reading *)

\* Mutants: the checksum is not compared; a header is waited for without a timeout.
ChecksumFitsAlways(buffer) == TRUE
HeaderTimeoutNever == FALSE

\* The receive buffer with `bytes' read into it behind the first `offset' ones.
Overwrite(offset, bytes) ==
    SubSeq(rx_buffer, 1, offset) \o bytes
        \o SubSeq(rx_buffer, offset + Len(bytes) + 1, Len(rx_buffer))

\* A byte of the buffer, by the offset of the code.
Cell(buffer, i) == IF i < Len(buffer) THEN buffer[i + 1].value ELSE heap

Iden(buffer) == Cell(buffer, 2) + 256 * Cell(buffer, 3)
Size(buffer) == Cell(buffer, 4)
Data(buffer) == [i \in 1 .. Size(buffer) |-> Cell(buffer, HeaderSize + i - 1)]

\* Mutant: the last byte of the data is taken for the checksum.
ChecksumFitsTooEarly(buffer) ==
    Cell(buffer, HeaderSize + Size(buffer) - 1)
        = Checksum([i \in 1 .. Size(buffer) + 3 |-> Cell(buffer, i + 1)])

ChecksumFits(buffer) ==
    Cell(buffer, HeaderSize + Size(buffer))
        = Checksum([i \in 1 .. Size(buffer) + 3 |-> Cell(buffer, i + 1)])

\* What was read as identifier and size of a packet is just that.
InStep(buffer) ==
    \A i \in 3 .. HeaderSize : buffer[i].of = buffer[HeaderSize].of /\ buffer[i].at = i

\* What uart_read_bytes takes when it asks for `wanted' bytes and returns now.
Taken(wanted) == SubSeq(fifo, 1, IF Len(fifo) < wanted THEN Len(fifo) ELSE wanted)
LeftBy(wanted) == SubSeq(fifo, Len(Taken(wanted)) + 1, Len(fifo))

\* A whole header, line 160.  Neither start nor direction is looked at.
ReadHeader ==
    /\ pc = "header"
    /\ Len(fifo) >= HeaderSize
    /\ rx_buffer' = Overwrite(0, Taken(HeaderSize))
    /\ fifo' = LeftBy(HeaderSize)
    /\ pc' = "payload"
    /\ UNCHANGED <<line, packets, clean, lost, heap, accepted, ringVars, queueVars, disturbed>>

\* A second without the rest of a header: what there is of it is dropped.
HeaderTimeout ==
    /\ pc = "header"
    /\ Len(fifo) \in 1 .. HeaderSize - 1
    /\ rx_buffer' = Overwrite(0, fifo)
    /\ fifo' = <<>>
    /\ disturbed' = disturbed \union {fifo[i].of : i \in 1 .. Len(fifo)}
    /\ UNCHANGED <<line, packets, clean, lost, heap, accepted, ringVars, queueVars, pc>>

\* Lines 169-171: payload and checksum are read, as far as they come, and the
\* checksum is compared in what is then in the buffer.
Check(wanted, inTime) ==
    \E buffer \in {Overwrite(HeaderSize, Taken(wanted))} :
        /\ rx_buffer' = buffer
        /\ fifo' = LeftBy(wanted)
        /\ IF ChecksumFits(buffer)
           THEN /\ pc' = "head"
                /\ accepted' = Append(accepted, [iden |-> Iden(buffer), data |-> Data(buffer),
                                                 of |-> buffer[HeaderSize].of, inTime |-> inTime,
                                                inStep |-> InStep(buffer)])
           ELSE /\ pc' = "header"
                /\ UNCHANGED accepted
        /\ UNCHANGED <<line, packets, clean, lost, heap, ringVars, queueVars>>

ReadPayload ==
    /\ pc = "payload"
    /\ Len(fifo) > Size(rx_buffer)
    /\ Check(Size(rx_buffer) + 1, TRUE)
    /\ UNCHANGED disturbed

\* Five milliseconds without the rest; the number of bytes read is not looked at.
PayloadTimeout ==
    /\ pc = "payload"
    /\ Len(fifo) <= Size(rx_buffer)
    /\ Check(Size(rx_buffer) + 1, FALSE)
    /\ disturbed' = disturbed \union {rx_buffer[i].of : i \in 1 .. HeaderSize}
                              \union {fifo[i].of : i \in 1 .. Len(fifo)}

----------------------------------------------------------------------------
(* uart_rx_task: handing over *)

\* Mutants: the ring is left by one; the data is not copied.
NextBufferLate(b) == IF b >= BuffersNum THEN 0 ELSE b + 1
FillDataForgotten ==
    /\ pc = "data"
    /\ pc' = "send"
    /\ UNCHANGED <<lineVars, readVars, queueVars, ringVars, disturbed>>

NextBuffer(b) == IF b >= BuffersNum - 1 THEN 0 ELSE b + 1

\* The packet being handed over, and those that have met a full queue with it.
Current == Len(accepted)
LateNow == IF IsFull(main_queue, QueueLen) THEN late \union {Current} ELSE late

\* Lines 174-176: the next buffer, and into it identifier and size.
FillHead ==
    /\ pc = "head"
    /\ task_packet' = uart_recv_buffer_num
    /\ uart_recv_buffer_num' = NextBuffer(uart_recv_buffer_num)
    /\ global_uart_receive_buffers' =
            [global_uart_receive_buffers EXCEPT ![uart_recv_buffer_num].head = Current]
    /\ late' = LateNow
    /\ pc' = "data"
    /\ UNCHANGED <<lineVars, readVars, main_queue, disturbed>>

\* Line 177: the data.
FillData ==
    /\ pc = "data"
    /\ global_uart_receive_buffers' =
            [global_uart_receive_buffers EXCEPT ![task_packet].data = Current]
    /\ pc' = "send"
    /\ UNCHANGED <<lineVars, readVars, queueVars, uart_recv_buffer_num, task_packet, disturbed>>

\* Lines 178-179: the pointer, or nothing if there is no room.
SendPacket ==
    /\ pc = "send"
    /\ main_queue' = SendToBack(main_queue, [buffer |-> task_packet, seq |-> Current], QueueLen)
    /\ late' = LateNow
    /\ pc' = "header"
    /\ UNCHANGED <<lineVars, readVars, ringVars, disturbed>>

UartRxTask ==
    ReadHeader \/ HeaderTimeout \/ ReadPayload \/ PayloadTimeout
        \/ FillHead \/ FillData \/ SendPacket

----------------------------------------------------------------------------
(* main_task and whoever else sends to it *)

PostOther ==
    /\ ~IsFull(main_queue, QueueLen)
    /\ main_queue' = SendToBack(main_queue, OtherEvent, QueueLen)
    /\ UNCHANGED <<lineVars, readVars, ringVars, late, pc, disturbed>>

\* main_task takes an event and handles it.  It reads a received packet through the
\* pointer and does not wait while it does (main.c:651-681).
MainHandles ==
    /\ main_queue # <<>>
    /\ main_queue' = Tail(main_queue)
    /\ UNCHANGED <<lineVars, readVars, ringVars, late, pc, disturbed>>

Next ==
    \/ \E kind \in Kinds : ComputerSends(kind)
    \/ ByteArrives \/ ByteLost
    \/ UartRxTask
    \/ PostOther \/ MainHandles

\* What was sent arrives, or is lost; the reads return for bytes or for a timeout.
Spec == Init /\ [][Next]_vars /\ WF_vars(ByteArrives) /\ WF_vars(UartRxTask)

----------------------------------------------------------------------------
(* What the checksum tells.  These are formulas about constants: a checksum of one byte *)
(* tells some packets and losses from each other and cannot tell all.                   *)

\* The bytes of packets, and their order.
BytesOf(sent, n) == Len(sent[n].data) + 6
ByteOf(sent, n, k) == [of |-> n, at |-> k, value |-> Encoded(sent[n])[k]]
AllBytes(sent) ==
    UNION {{ByteOf(sent, n, k) : k \in 1 .. BytesOf(sent, n)} : n \in 1 .. Len(sent)}
Before(a, b) == a.of < b.of \/ (a.of = b.of /\ a.at < b.at)

Rank(S, b) == Cardinality({a \in S : Before(a, b)}) + 1
Sorted(S) == [x \in 1 .. Cardinality(S) |-> CHOOSE b \in S : Rank(S, b) = x]

\* What there is to be read of packets, from any byte on, when so many are lost.
Sendings == UNION {[1 .. n -> Kinds] : n \in 1 .. MaxPackets}
Arriving(sent, missing, first) == {b \in AllBytes(sent) \ missing : ~Before(b, first)}
Readings(sent) ==
    UNION {{Sorted(Arriving(sent, missing, first)) : first \in AllBytes(sent)} :
           missing \in {bytes \in SUBSET AllBytes(sent) : Cardinality(bytes) <= MaxLost}}

SizeIn(s) == s[HeaderSize].value
Fits(values) ==
    LET size == values[HeaderSize]
    IN  values[HeaderSize + size + 1] = Checksum([x \in 1 .. size + 3 |-> values[x + 2]])

\* What is read in full and fits is a packet, from its identifier on.
ChecksumTellsPackets ==
    \A sent \in Sendings : \A s \in Readings(sent) :
        /\ Len(s) >= HeaderSize /\ Len(s) > HeaderSize + SizeIn(s)
        /\ Fits([x \in 1 .. Len(s) |-> s[x].value])
        => \A x \in 3 .. HeaderSize + SizeIn(s) + 1 : s[x].of = s[HeaderSize].of /\ s[x].at = x

\* A header, as much of a payload as came, and what may be left in the buffer behind it.
LeftOver(sent, n) == Heap \union {b.value : b \in {byte \in AllBytes(sent) : byte.of <= n}}
CompletedWith(s, came, left) ==
    [x \in 1 .. HeaderSize + SizeIn(s) + 1 |->
        IF x <= HeaderSize + came THEN s[x].value ELSE left[x]]

\* The header of a packet that is completed so and fits is that packet or an earlier one.
ChecksumTellsRepeats ==
    \A sent \in Sendings : \A s \in Readings(sent) :
        Len(s) >= HeaderSize /\ InStep(s) =>
            LET of == s[HeaderSize].of
                end == HeaderSize + SizeIn(s) + 1
            IN  \A came \in 0 .. SizeIn(s) + 1 : HeaderSize + came <= Len(s) =>
                    \A left \in [HeaderSize + came + 1 .. end -> LeftOver(sent, of)] :
                        LET values == CompletedWith(s, came, left)
                        IN  Fits(values) =>
                                \E n \in 1 .. of :
                                    /\ sent[n].iden = sent[of].iden
                                    /\ sent[n].data
                                        = [x \in 1 .. SizeIn(s) |-> values[HeaderSize + x]]

----------------------------------------------------------------------------
(* Properties *)

Events == [buffer : Buffers, seq : Nat \ {0}] \union {OtherEvent}
LineBytes == [of : 1 .. MaxPackets, at : Nat, value : Byte]
Accepted == [iden : Idens, data : Seq(Byte), of : 1 .. MaxPackets,
             inTime : BOOLEAN, inStep : BOOLEAN]

\* Every variable has its type.
TypeOK ==
    /\ line \in Seq(LineBytes) /\ fifo \in Seq(LineBytes) /\ rx_buffer \in Seq(LineBytes)
    /\ heap \in Heap
    /\ pc \in {"header", "payload", "head", "data", "send"}
    /\ uart_recv_buffer_num \in Buffers
    /\ global_uart_receive_buffers \in
            [Buffers -> [head : 0 .. Len(accepted), data : 0 .. Len(accepted)]]
    /\ task_packet \in Buffers
    /\ main_queue \in Seq(Events) /\ Len(main_queue) <= QueueLen
    /\ packets \in Seq(Kinds) /\ Len(packets) <= MaxPackets
    /\ accepted \in Seq(Accepted)
    /\ late \subseteq 1 .. Len(accepted)
    /\ clean \subseteq 1 .. Len(packets)
    /\ disturbed \subseteq 1 .. Len(packets)
    /\ lost \in 0 .. MaxLost

IsPacketSent(packet, n) == packet.iden = packets[n].iden /\ packet.data = packets[n].data

\* What is accepted with all of its payload is the packet the computer sent, and
\* each such packet is accepted once, in order, whatever was lost on the line and
\* wherever a pause has put the reader out of step (uart_task.c:160-179).
InTimeAsSent ==
    \A i \in 1 .. Len(accepted) :
        accepted[i].inTime =>
            /\ IsPacketSent(accepted[i], accepted[i].of)
            /\ \A j \in 1 .. i - 1 : accepted[j].of < accepted[i].of

\* A packet whose payload does not come in time is completed from what earlier ones
\* left in the buffer, and may then fit its checksum (uart_task.c:169): a request may
\* be taken for an earlier one of the computer, never for one that it did not send,
\* as long as what is read as a header is one.
LateIsARepeat ==
    \A i \in 1 .. Len(accepted) :
        accepted[i].inStep => \E n \in 1 .. accepted[i].of : IsPacketSent(accepted[i], n)

\* The first a accepted packets were sent before packet c, and those behind them are the
\* packets from c on.
AsSent(packet, n) == packet.inTime /\ packet.of = n /\ IsPacketSent(packet, n)
Following(c, a) ==
    /\ \A j \in 1 .. a : accepted[j].of < c
    /\ \A j \in a + 1 .. Len(accepted) : AsSent(accepted[j], c + j - a - 1)

\* No byte of packet c or of a later one was lost, and no pause in one was too long.
Undisturbed(c) == \A n \in disturbed : n < c

\* A packet that is sent into silence puts the reader in step, whatever was lost before.
\* From that packet on, until the next byte is lost or the next pause is too long, every
\* packet is accepted: once, in order, in time and as it was sent, and when all is at rest
\* none is missing (uart_task.c:160-179).
InStepAgain ==
    \A c \in clean :
        Undisturbed(c) =>
            \E a \in 0 .. Len(accepted) :
                /\ Following(c, a)
                /\ AtRest => c + Len(accepted) - a = Len(packets) + 1

\* The ring has no buffer to spare: a packet that waits for main_task is overwritten
\* by the packet that finds as many others queued as there are buffers.  It survives
\* BuffersNum - QueueLen packets that met a full queue (uart_task.c:38-45).
Overrun(event) == Cardinality({s \in late : s > event.seq})
QueuedUntilOverrun ==
    \A i \in 1 .. Len(main_queue) :
        IsPacket(main_queue[i]) /\ Overrun(main_queue[i]) <= BuffersNum - QueueLen =>
            global_uart_receive_buffers[main_queue[i].buffer]
                = [head |-> main_queue[i].seq, data |-> main_queue[i].seq]

\* Silence puts the reader back in step: it ends up waiting for a header with nothing
\* read, and a packet sent then is accepted, unless a byte of it is lost or a pause in
\* the middle of it is too long (uart_task.c:160-169).
SilenceResynchronises ==
    /\ (line = <<>>) ~> (AtRest \/ line # <<>>)
    /\ \A n \in 1 .. MaxPackets :
        (n \in clean)
            ~> (n \in disturbed \/ \E i \in 1 .. Len(accepted) :
                                        accepted[i].of = n /\ accepted[i].inTime)
=============================================================================
