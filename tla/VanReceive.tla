----------------------------- MODULE VanReceive -----------------------------
(***************************************************************************)
(* The way of a frame from the VAN bus to main_task.  When a frame has     *)
(* ended, the interrupt of the RMT peripheral (van_rmt_rx.c:58-70) re-arms *)
(* the receiver and queues a pointer to the received symbols with their    *)
(* number.  van_rmt_task (van_rmt_task.c:89-147) decodes the symbols it    *)
(* finds there, checks their CRC, writes a valid packet into the next of a *)
(* ring of buffers, and sends a pointer to that through the main queue.    *)
(*                                                                         *)
(* There is a queue of pointers, but a single symbol buffer: whatever ends *)
(* on the bus before van_rmt_task has read the last symbol of a frame      *)
(* replaces the symbols of that frame.  The interrupt may come between any *)
(* two symbols van_rmt_task reads.  main_task runs on the other core       *)
(* (main.c:387-403): it takes and reads packets while van_rmt_task is      *)
(* writing another one.                                                    *)
(*                                                                         *)
(* A frame is a number, in the order of the bus, a length in parts, and    *)
(* whether it is valid: undisturbed, and of a length that is accepted      *)
(* (van_rmt_task.c:68-69).  A part stands for symbols that are read        *)
(* between two interrupts, and is known by the frame it belongs to.        *)
(***************************************************************************)
EXTENDS Integers, EventQueue

CONSTANTS
    BuffersNum,         \* VAN_MAX_NUM_PACKETS (50)
    QueueLen,           \* length of the main queue (20, main.c:365)
    ReceiveQueueLen,    \* length of the receive queue (30, van_rmt_rx.c:264)
    MaxParts,           \* parts of the longest frame
    Kinds,              \* the kinds of frames on the bus: their parts, their validity
    MaxFrames           \* bound on the frames of one behaviour

ASSUME BuffersNumAssumption == BuffersNum \in Nat \ {0}
ASSUME QueueLenAssumption == QueueLen \in Nat \ {0}
ASSUME ReceiveQueueLenAssumption == ReceiveQueueLen \in Nat \ {0}
ASSUME BoundsAssumption == MaxParts \in Nat \ {0} /\ MaxFrames \in Nat
ASSUME KindsAssumption == Kinds \subseteq [parts : 1 .. MaxParts, valid : BOOLEAN]

VARIABLES
    rmt_symbol_buffer,  \* the frame each part of the symbol buffer is from, 0 if none
    receive_queue,      \* what the interrupt sent
    pc,                 \* where van_rmt_task is
    rx_data,            \* the event it works on
    temp_array,         \* the parts it has decoded so far
    packet_num,         \* index of the next buffer of the ring
    van_packets,        \* the ring: the packets that head and data are of
    main_queue,         \* global_main_queue
    held,               \* the event main_task works on
    \* The remaining variables record what happened.
    frames,             \* the frames that have ended on the bus
    parsed,             \* what each received event turned out to be
    sent,               \* packets sent to main_task, which number them
    dropped             \* those that found the main queue full

busVars == <<rmt_symbol_buffer, receive_queue, frames>>
taskVars == <<pc, rx_data, temp_array, parsed>>
ringVars == <<packet_num, van_packets, sent, dropped>>
mainVars == <<main_queue, held>>
vars == <<busVars, taskVars, ringVars, mainVars>>

Buffers == 0 .. BuffersNum - 1

\* The events of the receive queue name the frame they were sent for only in
\* the model: in the code all of them point to the same symbols.
Received == [frame : 1 .. MaxFrames, num_symbols : 1 .. MaxParts]
NoData == [frame |-> 0, num_symbols |-> 0]

\* Events without a packet: all others that main_task receives.
OtherEvent == [buffer |-> -1, seq |-> 0, drops |-> 0]

IsPacket(event) == event.seq # 0

Init ==
    /\ rmt_symbol_buffer = [p \in 1 .. MaxParts |-> 0]
    /\ receive_queue = <<>>
    /\ pc = "receive"
    /\ rx_data = NoData
    /\ temp_array = <<>>
    /\ packet_num = 0
    /\ van_packets = [b \in Buffers |-> [head |-> 0, data |-> 0]]
    /\ main_queue = <<>>
    /\ held = OtherEvent
    /\ frames = <<>>
    /\ parsed = <<>>
    /\ sent = 0
    /\ dropped = 0

----------------------------------------------------------------------------
(* The interrupt *)

\* A frame ends: its symbols are in the buffer, the receiver is armed with the
\* same buffer again, and the event is queued unless the queue is full.
FrameEnds(frame) ==
    LET number == Len(frames) + 1
    IN  /\ number <= MaxFrames
        /\ frames' = Append(frames, frame)
        /\ rmt_symbol_buffer' = [p \in 1 .. MaxParts |->
                                    IF p <= frame.parts THEN number ELSE rmt_symbol_buffer[p]]
        /\ receive_queue' = SendToBack(receive_queue,
                                       [frame |-> number, num_symbols |-> frame.parts],
                                       ReceiveQueueLen)
        /\ UNCHANGED <<taskVars, ringVars, mainVars>>

----------------------------------------------------------------------------
(* van_rmt_task *)

\* Mutants: the ring is left by one, or one too short; the decoder's state is not
\* reset between frames; the shortest frame that is valid is refused.
NextPacketLate(b) == IF b = BuffersNum THEN 0 ELSE b + 1
NextPacketShort(b) == IF b = BuffersNum - 2 THEN 0 ELSE b + 1
KeptArray == temp_array
CrcOkUnlessShort(parts) ==
    /\ Len(parts) > 1
    /\ frames[parts[1]].valid /\ Len(parts) = frames[parts[1]].parts
    /\ \A p \in 1 .. Len(parts) : parts[p] = parts[1]

\* A mutant of SendPacket: the pointer goes to the front of the queue.
SendPacketFirst ==
    /\ pc = "send"
    /\ sent' = sent + 1
    /\ main_queue' = SendToFront(main_queue,
                                 [buffer |-> packet_num, seq |-> sent + 1, drops |-> dropped],
                                 QueueLen)
    /\ dropped' = IF IsFull(main_queue, QueueLen) THEN dropped + 1 ELSE dropped
    /\ packet_num' = IF packet_num = BuffersNum - 1 THEN 0 ELSE packet_num + 1
    /\ pc' = "receive"
    /\ UNCHANGED <<busVars, rx_data, temp_array, parsed, van_packets, held>>

NextPacket(b) == IF b = BuffersNum - 1 THEN 0 ELSE b + 1

\* The decoder starts from nothing: temp_array is cleared, the bit counter is 0.
ClearedArray == <<>>

\* xQueueReceive, line 133.
Receive ==
    /\ pc = "receive"
    /\ receive_queue # <<>>
    /\ rx_data' = Head(receive_queue)
    /\ receive_queue' = Tail(receive_queue)
    /\ temp_array' = ClearedArray
    /\ pc' = "parse"
    /\ UNCHANGED <<rmt_symbol_buffer, frames, parsed, ringVars, mainVars>>

\* Lines 39-57: the next symbols, as many as the event says, whoever they are from.
ParseSymbols ==
    /\ pc = "parse"
    /\ Len(temp_array) < rx_data.num_symbols
    /\ temp_array' = Append(temp_array, rmt_symbol_buffer[Len(temp_array) + 1])
    /\ UNCHANGED <<busVars, pc, rx_data, parsed, ringVars, mainVars>>

\* The length and the CRC fit a whole valid frame, and nothing else.
CrcOk(parts) ==
    /\ frames[parts[1]].valid /\ Len(parts) = frames[parts[1]].parts
    /\ \A p \in 1 .. Len(parts) : parts[p] = parts[1]

\* What an event was parsed as, and which frame was the last on the bus then.
Outcome(as) == [frame |-> rx_data.frame, as |-> as, last |-> Len(frames)]

ParseEnds ==
    /\ pc = "parse"
    /\ Len(temp_array) = rx_data.num_symbols
    /\ UNCHANGED <<busVars, rx_data, temp_array, mainVars>>

\* Lines 68-74: the CRC of a packet is right.  Its identifier, size and pointer go into
\* the next buffer of the ring...
FillHead ==
    /\ ParseEnds
    /\ CrcOk(temp_array)
    /\ parsed' = Append(parsed, Outcome(temp_array[1]))
    /\ van_packets' = [van_packets EXCEPT ![packet_num].head = sent + 1]
    /\ pc' = "data"
    /\ UNCHANGED <<packet_num, sent, dropped>>

\* Lines 75-76: ... and its data.
FillData ==
    /\ pc = "data"
    /\ van_packets' = [van_packets EXCEPT ![packet_num].data = sent + 1]
    /\ pc' = "send"
    /\ UNCHANGED <<busVars, rx_data, temp_array, parsed, packet_num, sent, dropped, mainVars>>

\* Lines 138-142: the pointer goes to main_task, or nowhere if there is no room.  The
\* index, which nobody else reads, moves on all the same.
SendPacket ==
    /\ pc = "send"
    /\ sent' = sent + 1
    /\ main_queue' = SendToBack(main_queue,
                                [buffer |-> packet_num, seq |-> sent + 1, drops |-> dropped],
                                QueueLen)
    /\ dropped' = IF IsFull(main_queue, QueueLen) THEN dropped + 1 ELSE dropped
    /\ packet_num' = NextPacket(packet_num)
    /\ pc' = "receive"
    /\ UNCHANGED <<busVars, rx_data, temp_array, parsed, van_packets, held>>

\* A CRC error: nothing is written, and the index stays where it is.
RefusePacket ==
    /\ ParseEnds
    /\ ~CrcOk(temp_array)
    /\ parsed' = Append(parsed, Outcome(0))
    /\ pc' = "receive"
    /\ UNCHANGED ringVars

VanRmtTask ==
    Receive \/ ParseSymbols \/ FillHead \/ FillData \/ SendPacket \/ RefusePacket

----------------------------------------------------------------------------
(* main_task and whoever else sends to it *)

\* Any other event at the back of the main queue.
PostOther ==
    /\ ~IsFull(main_queue, QueueLen)
    /\ main_queue' = SendToBack(main_queue, OtherEvent, QueueLen)
    /\ UNCHANGED <<busVars, taskVars, ringVars, held>>

\* The sleep event, at the front (main.c:602).
PostOtherToFront ==
    /\ ~IsFull(main_queue, QueueLen)
    /\ main_queue' = SendToFront(main_queue, OtherEvent, QueueLen)
    /\ UNCHANGED <<busVars, taskVars, ringVars, held>>

\* main_task takes an event; from here on it reads the packet through the pointer.
MainTakes ==
    /\ main_queue # <<>>
    /\ held = OtherEvent
    /\ held' = Head(main_queue)
    /\ main_queue' = Tail(main_queue)
    /\ UNCHANGED <<busVars, taskVars, ringVars>>

\* The frame is parsed, and main_task sleeps 10 ms.
MainReleases ==
    /\ IsPacket(held)
    /\ held' = OtherEvent
    /\ UNCHANGED <<busVars, taskVars, ringVars, main_queue>>

Next ==
    \/ \E frame \in Kinds : FrameEnds(frame)
    \/ VanRmtTask
    \/ PostOther \/ PostOtherToFront
    \/ MainTakes \/ MainReleases

\* van_rmt_task is the only task of its core that does not wait for anything else.
Spec == Init /\ [][Next]_vars /\ WF_vars(VanRmtTask)

----------------------------------------------------------------------------
(* Properties *)

Events == [buffer : Buffers, seq : Nat \ {0}, drops : Nat] \union {OtherEvent}
Outcomes == [frame : 1 .. MaxFrames, as : 0 .. MaxFrames, last : 1 .. MaxFrames]

\* Every variable has its type.
TypeOK ==
    /\ rmt_symbol_buffer \in [1 .. MaxParts -> 0 .. Len(frames)]
    /\ receive_queue \in Seq(Received)
    /\ Len(receive_queue) <= ReceiveQueueLen
    /\ pc \in {"receive", "parse", "data", "send"}
    /\ rx_data \in Received \union {NoData}
    /\ temp_array \in Seq(1 .. MaxFrames)
    /\ Len(temp_array) <= rx_data.num_symbols
    /\ packet_num \in Buffers
    /\ van_packets \in [Buffers -> [head : 0 .. Len(parsed), data : 0 .. Len(parsed)]]
    /\ main_queue \in Seq(Events)
    /\ Len(main_queue) <= QueueLen
    /\ held \in Events
    /\ frames \in Seq(Kinds)
    /\ Len(frames) <= MaxFrames
    /\ parsed \in Seq(Outcomes)
    /\ sent \in 0 .. Len(parsed)
    /\ dropped \in 0 .. sent

\* main_task never sees an older frame after a newer one, although van_rmt_task may
\* find another frame's symbols than its event was sent for: what it forwards is
\* that frame or a later one, and no earlier than what it forwarded before
\* (van_rmt_task.c:38-57).
NeverOlder ==
    \A i \in 1 .. Len(parsed) :
        parsed[i].as # 0 =>
            /\ parsed[i].as >= parsed[i].frame
            /\ \A j \in 1 .. i - 1 : parsed[j].as <= parsed[i].as

\* A frame is forwarded more often than once only in the place of frames that came
\* before it and were overwritten; a frame nothing overwrote is forwarded if it is
\* valid and not otherwise, and once for its own event (van_rmt_rx.c:63-68).
Overwritten(i) == parsed[i].last > parsed[i].frame
OnceEach ==
    /\ \A i \in 1 .. Len(parsed) :
        ~Overwritten(i) =>
            parsed[i].as = IF frames[parsed[i].frame].valid THEN parsed[i].frame ELSE 0
    /\ \A i, j \in 1 .. Len(parsed) :
        i < j /\ parsed[i].as = parsed[j].as /\ parsed[i].as # 0 =>
            Overwritten(i) /\ parsed[i].frame < parsed[j].frame

\* When the bus falls silent, its last frame gets through: a valid frame whose event
\* was queued is sent to main_task, or another one ends on the bus (van_rmt_task.c:131-144).
Announced(n) == \E i \in 1 .. Len(receive_queue) : receive_queue[i].frame = n
Forwarded(n) ==
    \E i \in 1 .. Len(parsed) :
        parsed[i].as = n /\ (i < Len(parsed) \/ pc \notin {"data", "send"})
LastFrameArrives ==
    \A n \in 1 .. MaxFrames :
        Announced(n) /\ frames[n].valid ~> Len(frames) > n \/ Forwarded(n)

\* A queued packet is as it was sent while fewer than BuffersNum - QueueLen packets that
\* came behind it were lost, and the one main_task reads while one fewer was.  Lost
\* packets use buffers up all the same, and with the queue full of later ones the next
\* to be written is the oldest, long before its own fate is known (van_rmt_task.c:72-76,
\* 138-142).
Overrun(event) == dropped - event.drops
Intact(event) == van_packets[event.buffer] = [head |-> event.seq, data |-> event.seq]
FramesSurvive ==
    /\ \A i \in 1 .. Len(main_queue) :
        IsPacket(main_queue[i]) /\ Overrun(main_queue[i]) < BuffersNum - QueueLen
            => Intact(main_queue[i])
    /\ IsPacket(held) /\ Overrun(held) < BuffersNum - QueueLen - 1 => Intact(held)

\* main_task gets packets in the order they were sent and each of them once, whatever
\* is lost and whatever else is put before them (van_rmt_task.c:140, main.c:602).
FramesInOrder ==
    /\ \A i, j \in 1 .. Len(main_queue) :
        i < j /\ IsPacket(main_queue[i]) /\ IsPacket(main_queue[j])
            => main_queue[i].seq < main_queue[j].seq
    /\ \A i \in 1 .. Len(main_queue) :
        IsPacket(main_queue[i]) /\ IsPacket(held) => held.seq < main_queue[i].seq
=============================================================================
