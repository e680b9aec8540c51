------------------------------ MODULE UartSend ------------------------------
(***************************************************************************)
(* The way of a packet from main_task to the infotainment computer:        *)
(* libpsa_send_packet (psa_helper.c:11-151) copies one of the global data  *)
(* buffers into the next buffer of a ring and sends a pointer to uart_task *)
(* (uart_task.c:49-140), which reads the buffer through the pointer,       *)
(* builds a frame around it and writes the frame to the UART.              *)
(*                                                                         *)
(* main_task (priority 20) preempts uart_task (15) on the same core at any *)
(* point, never the other way round.  So a send is one step, and uart_task *)
(* takes one step for each time it goes back to the shared buffer.         *)
(*                                                                         *)
(* The data is abstracted to the one value whose delivery matters, the CD  *)
(* changer command in the CAR_STATUS packet: a command is to be carried    *)
(* out once, while every other value is sent again with the next packet.   *)
(* Commands are numbered in the order the radio gives them.                *)
(***************************************************************************)
EXTENDS Integers, FiniteSets, EventQueue, PsaPacketDefs

CONSTANTS
    BuffersNum,     \* PSA_MAIN_UART_SEND_BUFFERS_NUM (20)
    QueueLen,       \* length of the UART queue (10, main.c:368)
    Idents,         \* the identifiers libpsa_send_packet is called with
    MaxSends,       \* bound on the packets sent in one behaviour
    MaxCommands     \* bound on the CD changer commands of one behaviour

ASSUME BuffersNumAssumption == BuffersNum \in Nat \ {0}
ASSUME QueueLenAssumption == QueueLen \in Nat \ {0}
ASSUME IdentsAssumption == Idents \subseteq Nat
ASSUME BoundsAssumption == MaxSends \in Nat /\ MaxCommands \in Nat

VARIABLES
    cd_changer_command,         \* status_data->cd_changer_command
    uart_send_buffer_num,       \* index of the next buffer of the ring
    global_uart_send_buffers,   \* the ring
    uart_queue,                 \* global_uart_queue
    timerArmed,                 \* uart_timer_handle is running
    pc,                         \* where uart_task is
    uart_packet,                \* the event uart_task works on
    uart_buffer,                \* the frame uart_task builds
    \* The remaining variables record what happened.
    asked,                      \* asked[s]: the identifier of send number s
    dropped,                    \* sends that found the queue full
    commands,                   \* CD changer commands so far
    replaced,                   \* commands replaced before any packet took them
    lost,                       \* commands that left with a dropped packet
    wire                        \* the frames written to the UART

mainVars == <<cd_changer_command, uart_send_buffer_num, global_uart_send_buffers,
              asked, dropped, commands, replaced, lost>>
taskVars == <<pc, uart_packet, uart_buffer, wire>>
vars == <<mainVars, uart_queue, timerArmed, taskVars>>

Buffers == 0 .. BuffersNum - 1
NONE == 0       \* PSA_CD_CHANGER_COMM_NONE

\* A packet in the ring: `seq' is the number of the send that filled it.
EmptyPacket == [iden |-> 0, command |-> NONE, seq |-> 0]

\* An event points to a ring buffer (MIVE_EVENT_UART_SEND), or to none (the
\* timer's).  `seq' and `drops' record which send it is for and how many sends
\* had been dropped by then.
NULL == -1
TimerEvent == [buffer |-> NULL, seq |-> 0, drops |-> 0]
SendEvent(b) == [buffer |-> b, seq |-> Len(asked) + 1, drops |-> dropped]

NoFrame == [iden |-> 0, header |-> 0, body |-> 0, command |-> NONE]

Init ==
    /\ cd_changer_command = NONE
    /\ uart_send_buffer_num = 0
    /\ global_uart_send_buffers = [b \in Buffers |-> EmptyPacket]
    /\ uart_queue = <<>>
    /\ timerArmed = TRUE
    /\ pc = "receive"
    /\ uart_packet = TimerEvent
    /\ uart_buffer = NoFrame
    /\ asked = <<>>
    /\ dropped = 0
    /\ commands = 0
    /\ replaced = {}
    /\ lost = {}
    /\ wire = <<>>

----------------------------------------------------------------------------
(* main_task *)

\* psa_parse_cdc_command: the radio gives the CD changer a command.  It replaces
\* one that no packet has taken yet.
SetCommand ==
    /\ commands < MaxCommands
    /\ commands' = commands + 1
    /\ cd_changer_command' = commands + 1
    /\ replaced' = replaced \union ({cd_changer_command} \ {NONE})
    /\ UNCHANGED <<uart_send_buffer_num, global_uart_send_buffers, asked, dropped,
                   lost, uart_queue, timerArmed, taskVars>>

\* The same for a command value the parser does not know: nothing is left to do.
ClearCommand ==
    /\ cd_changer_command # NONE
    /\ cd_changer_command' = NONE
    /\ replaced' = replaced \union {cd_changer_command}
    /\ UNCHANGED <<uart_send_buffer_num, global_uart_send_buffers, asked, dropped,
                   commands, lost, uart_queue, timerArmed, taskVars>>

\* Mutants: the ring is left by one, or one too short; any packet takes the
\* command; the command is cleared before it is copied.
NextBufferLate(b) == IF b >= BuffersNum THEN 0 ELSE b + 1
NextBufferShort(b) == IF b >= BuffersNum - 2 THEN 0 ELSE b + 1
TakenByAny(ident) == cd_changer_command
TakenTooLate(ident) == NONE

\* get_uart_send_buffer.
NextBuffer(b) == IF b >= BuffersNum - 1 THEN 0 ELSE b + 1

\* A packet takes the pending CD changer command if it is the CAR_STATUS packet.
Taken(ident) == IF ident = PSA_IDENT_CAR_STATUS THEN cd_changer_command ELSE NONE

\* libpsa_send_packet.  The command is cleared once it is in the packet, whether
\* or not the packet then finds room in the queue.
SendPacket(ident) ==
    /\ Len(asked) < MaxSends
    /\ asked' = Append(asked, ident)
    /\ uart_send_buffer_num' = NextBuffer(uart_send_buffer_num)
    /\ global_uart_send_buffers' =
            [global_uart_send_buffers EXCEPT ![uart_send_buffer_num] =
                [iden |-> PacketIden(ident), command |-> Taken(ident), seq |-> Len(asked) + 1]]
    /\ cd_changer_command' =
            IF ident = PSA_IDENT_CAR_STATUS THEN NONE ELSE cd_changer_command
    /\ uart_queue' = SendToBack(uart_queue, SendEvent(uart_send_buffer_num), QueueLen)
    /\ IF IsFull(uart_queue, QueueLen)
         THEN /\ dropped' = dropped + 1
              /\ lost' = lost \union ({Taken(ident)} \ {NONE})
         ELSE UNCHANGED <<dropped, lost>>
    /\ UNCHANGED <<commands, replaced, timerArmed, taskVars>>

----------------------------------------------------------------------------
(* The timer interrupt and uart_task *)

\* uart_timer_callback_f.  uart_task starts the timer once; the event it sends is
\* not the one that would start it again (uart_task.c:28, 103).
TimerFires ==
    /\ timerArmed
    /\ timerArmed' = FALSE
    /\ uart_queue' = SendToBack(uart_queue, TimerEvent, QueueLen)
    /\ UNCHANGED <<mainVars, taskVars>>

\* xQueueReceive.  An event that is not MIVE_EVENT_UART_SEND has no handler.
Receive ==
    /\ pc = "receive"
    /\ uart_queue # <<>>
    /\ uart_queue' = Tail(uart_queue)
    /\ uart_packet' = Head(uart_queue)
    /\ pc' = IF Head(uart_queue) = TimerEvent THEN "receive" ELSE "header"
    /\ UNCHANGED <<mainVars, timerArmed, uart_buffer, wire>>

\* The packet uart_task sees through its pointer now.
Shared == global_uart_send_buffers[uart_packet.buffer]

\* Lines 110-117: check the packet and fill in the header of the frame.
WriteHeader ==
    /\ pc = "header"
    /\ Writable(Shared.iden)
    /\ uart_buffer' = [NoFrame EXCEPT !.iden = Shared.iden, !.header = Shared.seq]
    /\ pc' = "body"
    /\ UNCHANGED <<mainVars, uart_queue, timerArmed, uart_packet, wire>>

\* The packet is outside the limits: nothing is written, the task still sleeps.
RefusePacket ==
    /\ pc = "header"
    /\ ~Writable(Shared.iden)
    /\ uart_packet' = TimerEvent
    /\ pc' = "delay"
    /\ UNCHANGED <<mainVars, uart_queue, timerArmed, uart_buffer, wire>>

\* Lines 119-123: copy the data and put the checksum of what was copied after it.
CopyData ==
    /\ pc = "body"
    /\ uart_buffer' = [uart_buffer EXCEPT !.body = Shared.seq, !.command = Shared.command]
    /\ pc' = "write"
    /\ UNCHANGED <<mainVars, uart_queue, timerArmed, uart_packet, wire>>

\* Lines 125-128: write as many bytes as the packet's size now says.  The task is
\* done with the buffer.
WriteBytes ==
    /\ pc = "write"
    /\ wire' = Append(wire,
                [iden |-> uart_buffer.iden, command |-> uart_buffer.command,
                 header |-> uart_buffer.header, body |-> uart_buffer.body,
                 length |-> Shared.seq,
                 seq |-> uart_packet.seq, overrun |-> dropped - uart_packet.drops])
    /\ uart_packet' = TimerEvent
    /\ pc' = "delay"
    /\ UNCHANGED <<mainVars, uart_queue, timerArmed, uart_buffer>>

\* vTaskDelay(1), line 130.
DelayOver ==
    /\ pc = "delay"
    /\ pc' = "receive"
    /\ UNCHANGED <<mainVars, uart_queue, timerArmed, uart_packet, uart_buffer, wire>>

UartTask == Receive \/ WriteHeader \/ RefusePacket \/ CopyData \/ WriteBytes \/ DelayOver

Next ==
    \/ SetCommand
    \/ ClearCommand
    \/ \E ident \in Idents : SendPacket(ident)
    \/ TimerFires
    \/ UartTask

\* uart_task runs whenever main_task waits for an event or sleeps, and main_task
\* handles finitely many events at a time.
Spec == Init /\ [][Next]_vars /\ WF_vars(UartTask)

----------------------------------------------------------------------------
(* Properties *)

Events == [buffer : Buffers, seq : Nat \ {0}, drops : Nat] \union {TimerEvent}

Packets == [iden : KnownIdents \union {0}, command : 0 .. MaxCommands, seq : 0 .. MaxSends]
Frames == [iden : KnownIdents \union {0}, header : 0 .. MaxSends, body : 0 .. MaxSends,
           command : 0 .. MaxCommands]
Written == [iden : KnownIdents \union {0}, header : 0 .. MaxSends, body : 0 .. MaxSends,
            command : 0 .. MaxCommands, length : 0 .. MaxSends, seq : 1 .. MaxSends,
            overrun : Nat]

\* Every variable has its type.
TypeOK ==
    /\ cd_changer_command \in 0 .. MaxCommands
    /\ uart_send_buffer_num \in Buffers
    /\ global_uart_send_buffers \in [Buffers -> Packets]
    /\ uart_queue \in Seq(Events)
    /\ Len(uart_queue) <= QueueLen
    /\ timerArmed \in BOOLEAN
    /\ pc \in {"receive", "header", "body", "write", "delay"}
    /\ uart_packet \in Events
    /\ uart_buffer \in Frames
    /\ asked \in Seq(Idents)
    /\ Len(asked) <= MaxSends
    /\ dropped \in 0 .. Len(asked)
    /\ commands \in 0 .. MaxCommands
    /\ replaced \subseteq 1 .. MaxCommands
    /\ lost \subseteq 1 .. MaxCommands
    /\ wire \in Seq(Written)

\* The drops a packet survives, from its send until uart_task is done with it.
Spare == BuffersNum - QueueLen

\* A frame on the wire is the packet it was sent as: header, data and length are
\* of one packet, of the one its pointer was queued for, and of the identifier
\* asked for, as long as fewer than Spare sends were dropped meanwhile.  Nothing
\* else would show a mixed frame: uart_task computes the checksum of the frame
\* from the copied bytes, so it fits them (uart_task.c:119-123).
WireFaithful ==
    \A i \in 1 .. Len(wire) :
        wire[i].overrun < Spare =>
            /\ {wire[i].header, wire[i].body, wire[i].length} = {wire[i].seq}
            /\ wire[i].iden = asked[wire[i].seq]

\* A CD changer command reaches the computer at most once, so that "next track"
\* skips one track, unless the ring has been overrun (psa_helper.c:97).
CommandAtMostOnce ==
    dropped < Spare =>
        \A command \in 1 .. commands :
            Cardinality({i \in 1 .. Len(wire) : wire[i].command = command}) <= 1

\* The commands in packets that uart_task still has to write.
InFlight ==
    {global_uart_send_buffers[uart_queue[i].buffer].command :
        i \in {j \in 1 .. Len(uart_queue) : uart_queue[j] # TimerEvent}}
    \union (IF uart_packet # TimerEvent THEN {Shared.command} ELSE {})

\* No CD changer command disappears without a trace: it waits for a packet, is on
\* its way, was written, was replaced by a later command before a packet took it,
\* or its packet was dropped; and it is in one of these places only.
CommandAccounted ==
    dropped < Spare =>
        \A command \in 1 .. commands :
            LET places == <<command = cd_changer_command,
                            command \in InFlight,
                            \E i \in 1 .. Len(wire) : wire[i].command = command,
                            command \in replaced,
                            command \in lost>>
            IN  Cardinality({i \in DOMAIN places : places[i]}) = 1

\* A packet that found room in the queue is written, or its buffer is overwritten
\* after Spare drops; identifiers without a case are never written.
Queued(s) == \E i \in 1 .. Len(uart_queue) : uart_queue[i].seq = s
OnWire(s) == \E i \in 1 .. Len(wire) : wire[i].seq = s
AcceptedIsWritten ==
    \A s \in 1 .. MaxSends :
        Queued(s) /\ asked[s] \in KnownIdents ~> OnWire(s) \/ dropped >= Spare

\* "PSA_IDENT_VERSIONS = 0x4000, // Send API and firmware version numbers"
\* (psa_packet_defs.h:12): a packet asked for with that identifier is written.
VersionsAreSent ==
    \A s \in 1 .. MaxSends : Queued(s) /\ asked[s] = PSA_IDENT_VERSIONS ~> OnWire(s)

\* The ring and the queue hand packets over as RingChannel promises.
Channel == INSTANCE RingChannel WITH
    nextBuffer <- uart_send_buffer_num,
    buffers <- [b \in Buffers |-> global_uart_send_buffers[b].seq],
    queue <- uart_queue,
    held <- uart_packet,
    sent <- Len(asked)
ImplementsChannel == Channel!Spec
=============================================================================
