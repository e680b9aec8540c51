--------------------------- MODULE UartSendProofs ---------------------------
(***************************************************************************)
(* UartSend implements RingChannel, and therefore what uart_task writes to *)
(* the UART is what libpsa_send_packet was asked for as long as the ring   *)
(* has buffers to spare.                                                   *)
(*                                                                         *)
(* The argument has two halves.  The channel's theorem says that the       *)
(* buffer uart_task reads is intact while fewer than Spare sends have been *)
(* dropped; the number of drops only grows, so every earlier read of the   *)
(* same packet found it intact too, and the parts of the frame agree.      *)
(*                                                                         *)
(* The CD changer command is taken out of the data by the send that copies *)
(* it, so that one send has it, and each command is with one packet that is*)
(* queued, in work, written or dropped.                                    *)
(***************************************************************************)
EXTENDS UartSend, FiniteSetTheorems, TLAPS

P == INSTANCE RingChannelProofs WITH
    nextBuffer <- uart_send_buffer_num,
    buffers <- [b \in Buffers |-> global_uart_send_buffers[b].seq],
    queue <- uart_queue,
    held <- uart_packet,
    sent <- Len(asked)

Working == pc \in {"header", "body", "write"}

\* uart_task has a packet exactly while it works on one, and every packet was sent.
Pointers ==
    /\ Working <=> uart_packet # TimerEvent
    /\ uart_packet.seq <= Len(asked) /\ uart_packet.drops <= dropped
    /\ \A i \in 1 .. Len(uart_queue) :
        uart_queue[i].seq <= Len(asked) /\ uart_queue[i].drops <= dropped

\* A buffer of the ring was filled for the identifier the send asked for.
Filled ==
    \A b \in Buffers :
        LET packet == global_uart_send_buffers[b]
        IN  packet.seq # 0 =>
                packet.seq <= Len(asked) /\ packet.iden = PacketIden(asked[packet.seq])

\* What uart_task has already put into the frame is from the packet it works on.
Overrun == dropped - uart_packet.drops
Building ==
    Overrun < Spare =>
        /\ pc \in {"body", "write"} =>
                /\ uart_buffer.header = uart_packet.seq
                /\ uart_buffer.iden = asked[uart_packet.seq]
        /\ pc = "write" => uart_buffer.body = uart_packet.seq

\* A written frame is the packet it was sent as.
Faithful(frame, requests) ==
    /\ frame.seq <= Len(requests)
    /\ frame.overrun < Spare =>
        /\ {frame.header, frame.body, frame.length} = {frame.seq}
        /\ frame.iden = requests[frame.seq]

----------------------------------------------------------------------------
(* UartSend implements the channel *)

LEMMA InitRefines == Init => P!Init
<1> SUFFICES ASSUME Init PROVE P!Init
  OBVIOUS
<1>1. [b \in Buffers |-> global_uart_send_buffers[b].seq] = [b \in P!Buffers |-> 0]
  BY DEF Init, EmptyPacket, Buffers, P!Buffers
<1> QED
  BY <1>1 DEF Init, P!Init, TimerEvent, NULL, P!OtherEvent, P!NoBuffer

LEMMA SeqsUnchanged ==
    ASSUME UNCHANGED global_uart_send_buffers
    PROVE  UNCHANGED [b \in Buffers |-> global_uart_send_buffers[b].seq]
OBVIOUS

LEMMA StepRefines == TypeOK /\ Pointers /\ [Next]_vars => [P!Next]_P!vars
<1> SUFFICES ASSUME TypeOK, Pointers, [Next]_vars PROVE [P!Next]_P!vars
  OBVIOUS
<1>1. TimerEvent = P!OtherEvent
  BY DEF TimerEvent, NULL, P!OtherEvent, P!NoBuffer
<1>2. CASE UNCHANGED <<uart_send_buffer_num, global_uart_send_buffers, uart_queue, uart_packet, asked, dropped>>
  BY <1>2 DEF P!vars
<1>3. ASSUME NEW ident \in Idents, SendPacket(ident) PROVE P!Put
  <2>1. uart_send_buffer_num \in Buffers /\ asked \in Seq(Idents)
    BY DEF TypeOK
  <2>2. Len(asked') = Len(asked) + 1 /\ Len(asked) < MaxSends
    BY <1>3, <2>1 DEF SendPacket
  <2>3. [b \in Buffers |-> global_uart_send_buffers'[b].seq] =
          [[b \in Buffers |-> global_uart_send_buffers[b].seq]
              EXCEPT ![uart_send_buffer_num] = Len(asked) + 1]
    BY <1>3, <2>1 DEF SendPacket, TypeOK
  <2>4. uart_send_buffer_num' = P!NextBuffer(uart_send_buffer_num)
    BY <1>3 DEF SendPacket, NextBuffer, P!NextBuffer
  <2>5. uart_queue' = P!SendToBack(uart_queue,
                         [buffer |-> uart_send_buffer_num, seq |-> Len(asked) + 1, drops |-> dropped],
                         QueueLen)
    BY <1>3 DEF SendPacket, SendEvent, SendToBack, P!SendToBack, IsFull, P!IsFull
  <2>6. dropped' = IF P!IsFull(uart_queue, QueueLen) THEN dropped + 1 ELSE dropped
    BY <1>3 DEF SendPacket, IsFull, P!IsFull
  <2>7. uart_packet' = uart_packet
    BY <1>3 DEF SendPacket, taskVars
  <2> QED
    BY <2>2, <2>3, <2>4, <2>5, <2>6, <2>7 DEF P!Put
<1>4. CASE TimerFires
  <2>1. UNCHANGED <<uart_send_buffer_num, global_uart_send_buffers, uart_packet, asked, dropped>>
    BY <1>4 DEF TimerFires, mainVars, taskVars
  <2>2. CASE IsFull(uart_queue, QueueLen)
    BY <1>4, <2>1, <2>2 DEF TimerFires, SendToBack, P!vars
  <2>3. CASE ~IsFull(uart_queue, QueueLen)
    <3>1. uart_queue' = P!SendToBack(uart_queue, P!OtherEvent, QueueLen)
      BY <1>1, <1>4 DEF TimerFires, SendToBack, P!SendToBack, IsFull, P!IsFull
    <3>2. ~P!IsFull(uart_queue, QueueLen)
      BY <2>3 DEF IsFull, P!IsFull
    <3> QED
      BY <2>1, <3>1, <3>2, SeqsUnchanged DEF P!Next, P!PostOther
  <2> QED
    BY <2>2, <2>3
<1>5. CASE Receive
  <2>1. uart_packet = TimerEvent
    BY <1>5 DEF Receive, Pointers, Working
  <2> QED
    <3>1. /\ uart_queue # <<>> /\ uart_packet = P!OtherEvent
          /\ uart_packet' = Head(uart_queue) /\ uart_queue' = Tail(uart_queue)
          /\ UNCHANGED <<uart_send_buffer_num, global_uart_send_buffers, asked, dropped>>
      BY <1>1, <1>5, <2>1 DEF Receive, mainVars
    <3> QED
      BY <3>1, SeqsUnchanged DEF P!Next, P!Take
<1>6. CASE RefusePacket \/ WriteBytes
  <2>1. uart_packet # TimerEvent
    BY <1>6 DEF RefusePacket, WriteBytes, Pointers, Working
  <2>2. uart_packet.seq # 0
    BY <2>1 DEF TypeOK, Events
  <2> QED
    <3>1. /\ uart_packet' = P!OtherEvent
          /\ UNCHANGED <<uart_send_buffer_num, global_uart_send_buffers, uart_queue, asked, dropped>>
      BY <1>1, <1>6 DEF RefusePacket, WriteBytes, mainVars
    <3> QED
      BY <2>2, <3>1, SeqsUnchanged DEF P!Next, P!Release, P!IsPacket
<1>7. CASE SetCommand
  BY <1>2, <1>7 DEF SetCommand, taskVars
<1>8. CASE ClearCommand
  BY <1>2, <1>8 DEF ClearCommand, taskVars
<1>9. CASE WriteHeader \/ CopyData \/ DelayOver
  BY <1>2, <1>9 DEF WriteHeader, CopyData, DelayOver, mainVars
<1>10. CASE UNCHANGED vars
  BY <1>2, <1>10 DEF vars, mainVars, taskVars
<1> QED
  BY <1>3, <1>4, <1>5, <1>6, <1>7, <1>8, <1>9, <1>10 DEF Next, UartTask, P!Next

----------------------------------------------------------------------------
(* Type correctness *)

\* While uart_task works on a packet, its pointer leads to a buffer of the ring.
LEMMA WorkingPacket ==
    ASSUME TypeOK, Pointers, Working
    PROVE  /\ uart_packet.buffer \in Buffers
           /\ uart_packet.seq \in 1 .. MaxSends
           /\ uart_packet.drops \in Nat /\ dropped - uart_packet.drops \in Nat
           /\ Shared \in Packets
<1>1. uart_packet \in [buffer : Buffers, seq : Nat \ {0}, drops : Nat]
  BY DEF TypeOK, Pointers, Events
<1>2. Len(asked) \in Nat /\ Len(asked) <= MaxSends /\ dropped \in Nat
  BY DEF TypeOK
<1>3. uart_packet.seq <= Len(asked) /\ uart_packet.drops <= dropped
  BY DEF Pointers
<1>4. global_uart_send_buffers[uart_packet.buffer] \in Packets
  BY <1>1 DEF TypeOK
<1> QED
  BY <1>1, <1>2, <1>3, <1>4, BoundsAssumption DEF Shared

LEMMA InitType == Init => TypeOK
<1> USE BuffersNumAssumption, QueueLenAssumption, IdentsAssumption, BoundsAssumption
<1> SUFFICES ASSUME Init PROVE TypeOK
  OBVIOUS
<1>1. TimerEvent \in Events
  BY DEF Events
<1>2. EmptyPacket \in Packets /\ NoFrame \in Frames
  BY DEF EmptyPacket, Packets, NoFrame, Frames, NONE
<1>3. uart_send_buffer_num \in Buffers /\ global_uart_send_buffers \in [Buffers -> Packets]
  BY <1>2 DEF Init, Buffers
<1>4. /\ uart_queue \in Seq(Events) /\ Len(uart_queue) <= QueueLen
      /\ asked \in Seq(Idents) /\ Len(asked) = 0 /\ wire \in Seq(Written)
  BY DEF Init
<1> QED
  BY <1>1, <1>2, <1>3, <1>4 DEF Init, TypeOK, NONE

LEMMA SendPacketType ==
    ASSUME TypeOK, NEW ident \in Idents, SendPacket(ident)
    PROVE  TypeOK'
<1> USE BuffersNumAssumption, QueueLenAssumption, IdentsAssumption, BoundsAssumption
<1>1. /\ asked \in Seq(Idents) /\ Len(asked) \in Nat /\ Len(asked) < MaxSends
      /\ uart_send_buffer_num \in Buffers /\ dropped \in 0 .. Len(asked)
      /\ cd_changer_command \in 0 .. MaxCommands
      /\ uart_queue \in Seq(Events) /\ Len(uart_queue) <= QueueLen
  BY DEF TypeOK, SendPacket
<1>2. asked' \in Seq(Idents) /\ Len(asked') = Len(asked) + 1
  BY <1>1 DEF SendPacket
<1>3. uart_send_buffer_num' \in Buffers
  BY <1>1 DEF SendPacket, NextBuffer, Buffers
<1>4. Taken(ident) \in 0 .. MaxCommands /\ cd_changer_command' \in 0 .. MaxCommands
  BY <1>1 DEF SendPacket, Taken, NONE
<1>5. global_uart_send_buffers' \in [Buffers -> Packets]
  <2>1. [iden |-> PacketIden(ident), command |-> Taken(ident), seq |-> Len(asked) + 1] \in Packets
    BY <1>1, <1>4 DEF Packets, PacketIden
  <2> QED
    BY <1>1, <2>1 DEF SendPacket, TypeOK
<1>6. uart_queue' \in Seq(Events) /\ Len(uart_queue') <= QueueLen
  <2>1. SendEvent(uart_send_buffer_num) \in Events
    BY <1>1 DEF SendEvent, Events
  <2> QED
    BY <1>1, <2>1 DEF SendPacket, SendToBack, IsFull
<1>7. dropped' \in 0 .. Len(asked')
  <2>1. dropped' = dropped + 1 \/ dropped' = dropped
    BY DEF SendPacket
  <2> QED
    BY <1>1, <1>2, <2>1
<1>8. lost' \subseteq 1 .. MaxCommands
  <2>1. lost \subseteq 1 .. MaxCommands
    BY DEF TypeOK
  <2>2. {Taken(ident)} \ {NONE} \subseteq 1 .. MaxCommands
    BY <1>4 DEF NONE
  <2>3. lost' = lost \/ lost' = lost \union ({Taken(ident)} \ {NONE})
    BY DEF SendPacket
  <2> QED
    BY <2>1, <2>2, <2>3
<1>9. UNCHANGED <<commands, replaced, timerArmed, pc, uart_packet, uart_buffer, wire>>
  BY DEF SendPacket, taskVars
<1>10. /\ timerArmed' \in BOOLEAN
       /\ pc' \in {"receive", "header", "body", "write", "delay"}
       /\ uart_packet' \in Events /\ uart_buffer' \in Frames
       /\ commands' \in 0 .. MaxCommands /\ replaced' \subseteq 1 .. MaxCommands
       /\ wire' \in Seq(Written)
  BY <1>9 DEF TypeOK
<1>11. Len(asked') <= MaxSends
  BY <1>1, <1>2
<1> HIDE BuffersNumAssumption, QueueLenAssumption, IdentsAssumption, BoundsAssumption
<1> QED
  BY <1>2, <1>3, <1>4, <1>5, <1>6, <1>7, <1>8, <1>10, <1>11 DEF TypeOK

LEMMA NextType == TypeOK /\ Pointers /\ [Next]_vars => TypeOK'
<1> USE BuffersNumAssumption, QueueLenAssumption, IdentsAssumption, BoundsAssumption
<1> SUFFICES ASSUME TypeOK, Pointers, [Next]_vars PROVE TypeOK'
  OBVIOUS
<1>1. ASSUME NEW ident \in Idents, SendPacket(ident) PROVE TypeOK'
  BY <1>1, SendPacketType
<1>2. CASE SetCommand \/ ClearCommand
  <2>1. /\ commands \in 0 .. MaxCommands /\ cd_changer_command \in 0 .. MaxCommands
        /\ replaced \subseteq 1 .. MaxCommands
    BY DEF TypeOK
  <2>2. commands' \in 0 .. MaxCommands /\ cd_changer_command' \in 0 .. MaxCommands
    BY <1>2, <2>1 DEF SetCommand, ClearCommand, NONE
  <2>3. {cd_changer_command} \ {NONE} \subseteq 1 .. MaxCommands
    BY <2>1 DEF NONE
  <2>4. replaced' = replaced \union ({cd_changer_command} \ {NONE})
    BY <1>2 DEF SetCommand, ClearCommand
  <2>5. replaced' \subseteq 1 .. MaxCommands
    BY <2>1, <2>3, <2>4
  <2> QED
    BY <1>2, <2>2, <2>5 DEF SetCommand, ClearCommand, TypeOK, taskVars
<1>3. CASE TimerFires
  <2>1. TimerEvent \in Events
    BY DEF Events
  <2>2. uart_queue' \in Seq(Events) /\ Len(uart_queue') <= QueueLen
    BY <1>3, <2>1 DEF TimerFires, TypeOK, SendToBack, IsFull
  <2> QED
    BY <1>3, <2>2 DEF TimerFires, TypeOK, mainVars, taskVars
<1>4. CASE Receive
  <2>1. /\ uart_queue' \in Seq(Events) /\ Len(uart_queue') <= QueueLen /\ uart_packet' \in Events
    BY <1>4 DEF Receive, TypeOK
  <2>2. pc' \in {"receive", "header"}
    BY <1>4 DEF Receive
  <2> QED
    BY <1>4, <2>1, <2>2 DEF Receive, TypeOK, mainVars
<1>5. CASE WriteHeader \/ CopyData
  <2>1. Shared \in Packets
    BY <1>5, WorkingPacket DEF WriteHeader, CopyData, Working
  <2>2. uart_buffer \in Frames
    BY DEF TypeOK
  <2>3. CASE WriteHeader
    <3>1. uart_buffer' = [iden |-> Shared.iden, header |-> Shared.seq, body |-> 0, command |-> 0]
      BY <2>3 DEF WriteHeader, NoFrame, NONE
    <3>2. uart_buffer' \in Frames
      BY <2>1, <3>1 DEF Packets, Frames
    <3> QED
      BY <2>3, <3>2 DEF WriteHeader, TypeOK, mainVars
  <2>4. CASE CopyData
    <3>1. uart_buffer' \in Frames
      BY <2>1, <2>2, <2>4 DEF CopyData, Packets, Frames
    <3> QED
      BY <2>4, <3>1 DEF CopyData, TypeOK, mainVars
  <2> QED
    BY <1>5, <2>3, <2>4
<1>6. CASE RefusePacket \/ WriteBytes
  <2>1. uart_packet' \in Events
    BY <1>6 DEF RefusePacket, WriteBytes, Events
  <2>2. wire' \in Seq(Written)
    <3>1. CASE RefusePacket
      BY <3>1 DEF RefusePacket, TypeOK
    <3>2. CASE WriteBytes
      <4>1. /\ Shared \in Packets /\ uart_packet.seq \in 1 .. MaxSends
            /\ dropped - uart_packet.drops \in Nat
        BY <3>2, WorkingPacket DEF WriteBytes, Working
      <4>2. [iden |-> uart_buffer.iden, command |-> uart_buffer.command,
             header |-> uart_buffer.header, body |-> uart_buffer.body,
             length |-> Shared.seq,
             seq |-> uart_packet.seq, overrun |-> dropped - uart_packet.drops] \in Written
        BY <4>1 DEF TypeOK, Frames, Packets, Written
      <4> QED
        BY <3>2, <4>2 DEF WriteBytes, TypeOK
    <3> QED
      BY <1>6, <3>1, <3>2
  <2> QED
    BY <1>6, <2>1, <2>2 DEF RefusePacket, WriteBytes, TypeOK, mainVars
<1>7. CASE DelayOver
  BY <1>7 DEF DelayOver, TypeOK, mainVars
<1>8. CASE UNCHANGED vars
  BY <1>8 DEF vars, mainVars, taskVars, TypeOK
<1> QED
  BY <1>1, <1>2, <1>3, <1>4, <1>5, <1>6, <1>7, <1>8 DEF Next, UartTask

----------------------------------------------------------------------------
(* Pointers, buffers and frames *)

LEMMA InitPointers == Init => Pointers
<1> SUFFICES ASSUME Init PROVE Pointers
  OBVIOUS
<1>1. uart_packet = TimerEvent /\ pc = "receive" /\ asked = <<>> /\ dropped = 0 /\ uart_queue = <<>>
  BY DEF Init
<1> QED
  BY <1>1 DEF Pointers, Working, TimerEvent

\* A send or the timer's event at the back of the queue.
LEMMA QueuedPointers ==
    ASSUME TypeOK, Pointers, NEW event \in Events, NEW count \in Nat, NEW drops \in Nat,
           Len(asked) <= count, dropped <= drops, event.seq <= count, event.drops <= drops,
           uart_queue' = SendToBack(uart_queue, event, QueueLen)
    PROVE  \A i \in 1 .. Len(uart_queue') :
               uart_queue'[i].seq <= count /\ uart_queue'[i].drops <= drops
<1>1. /\ uart_queue \in Seq(Events) /\ Len(asked) \in Nat /\ dropped \in Nat
  BY DEF TypeOK
<1>2. \A e \in Events : e.seq \in Nat /\ e.drops \in Nat
  BY DEF Events, TimerEvent
<1>3. ASSUME NEW i \in 1 .. Len(uart_queue)
      PROVE  uart_queue[i].seq <= count /\ uart_queue[i].drops <= drops
  <2>1. uart_queue[i] \in Events
    BY <1>1
  <2>2. uart_queue[i].seq <= Len(asked) /\ uart_queue[i].drops <= dropped
    BY DEF Pointers
  <2> QED
    BY <1>1, <1>2, <2>1, <2>2
<1>4. CASE uart_queue' = uart_queue
  BY <1>3, <1>4
<1>5. CASE uart_queue' = Append(uart_queue, event)
  <2> TAKE i \in 1 .. Len(uart_queue')
  <2>1. CASE i \in 1 .. Len(uart_queue)
    <3>1. uart_queue'[i] = uart_queue[i]
      BY <1>1, <1>5, <2>1
    <3> QED
      BY <1>3, <2>1, <3>1
  <2>2. CASE i = Len(uart_queue) + 1
    <3>1. uart_queue'[i] = event
      BY <1>1, <1>5, <2>2
    <3> QED
      BY <3>1
  <2> QED
    BY <1>1, <1>5, <2>1, <2>2
<1> QED
  BY <1>4, <1>5 DEF SendToBack

LEMMA NextPointers == TypeOK /\ Pointers /\ [Next]_vars => Pointers'
<1> SUFFICES ASSUME TypeOK, Pointers, [Next]_vars PROVE Pointers'
  OBVIOUS
<1>1. /\ uart_queue \in Seq(Events) /\ Len(asked) \in Nat /\ dropped \in Nat
      /\ asked \in Seq(Idents)
  BY DEF TypeOK
<1>2. CASE UNCHANGED <<uart_queue, uart_packet, asked, dropped, pc>>
  BY <1>2 DEF Pointers, Working
<1>3. ASSUME NEW ident \in Idents, SendPacket(ident) PROVE Pointers'
  <2>1. Len(asked') = Len(asked) + 1 /\ UNCHANGED <<pc, uart_packet>>
    BY <1>1, <1>3 DEF SendPacket, taskVars
  <2>2. dropped' = dropped \/ dropped' = dropped + 1
    BY <1>3 DEF SendPacket
  <2>3. uart_packet.seq \in Nat /\ uart_packet.drops \in Nat
    BY DEF TypeOK, Events, TimerEvent
  <2>4. uart_packet.seq <= Len(asked') /\ uart_packet.drops <= dropped'
    <3>1. uart_packet.seq <= Len(asked) /\ uart_packet.drops <= dropped
      BY DEF Pointers
    <3> QED
      BY <1>1, <2>1, <2>2, <2>3, <3>1
  <2>5. SendEvent(uart_send_buffer_num) \in Events
    <3>1. uart_send_buffer_num \in Buffers
      BY DEF TypeOK
    <3> QED
      BY <1>1, <3>1 DEF SendEvent, Events
  <2>6. uart_queue' = SendToBack(uart_queue, SendEvent(uart_send_buffer_num), QueueLen)
    BY <1>3 DEF SendPacket
  <2>7. \A i \in 1 .. Len(uart_queue') :
            uart_queue'[i].seq <= Len(asked') /\ uart_queue'[i].drops <= dropped'
    <3>1. /\ Len(asked) <= Len(asked') /\ dropped <= dropped' /\ Len(asked') \in Nat
          /\ dropped' \in Nat
          /\ SendEvent(uart_send_buffer_num).seq <= Len(asked')
          /\ SendEvent(uart_send_buffer_num).drops <= dropped'
      BY <1>1, <2>1, <2>2 DEF SendEvent
    <3> QED
      BY <2>5, <2>6, <3>1, QueuedPointers
  <2> QED
    BY <2>1, <2>4, <2>7 DEF Pointers, Working, TimerEvent
<1>4. CASE TimerFires
  <2>1. UNCHANGED <<uart_packet, asked, dropped, pc>>
    BY <1>4 DEF TimerFires, mainVars, taskVars
  <2>2. TimerEvent \in Events /\ TimerEvent.seq = 0 /\ TimerEvent.drops = 0
    BY DEF Events, TimerEvent
  <2>3. \A i \in 1 .. Len(uart_queue') :
            uart_queue'[i].seq <= Len(asked) /\ uart_queue'[i].drops <= dropped
    BY <1>1, <1>4, <2>2, QueuedPointers DEF TimerFires
  <2> QED
    BY <2>1, <2>3 DEF Pointers, Working
<1>5. CASE Receive
  <2>1. UNCHANGED <<asked, dropped>> /\ uart_packet' = uart_queue[1]
    BY <1>1, <1>5 DEF Receive, mainVars
  <2>2. uart_queue' = Tail(uart_queue) /\ Len(uart_queue) \in Nat \ {0}
    BY <1>1, <1>5 DEF Receive
  <2>3. \A i \in 1 .. Len(uart_queue') : uart_queue'[i] = uart_queue[i + 1] /\ i + 1 \in 1 .. Len(uart_queue)
    BY <1>1, <2>2
  <2>4. \A i \in 1 .. Len(uart_queue') :
            uart_queue'[i].seq <= Len(asked) /\ uart_queue'[i].drops <= dropped
    BY <2>3 DEF Pointers
  <2>5. uart_packet'.seq <= Len(asked) /\ uart_packet'.drops <= dropped
    BY <2>1, <2>2 DEF Pointers
  <2>6. Working' <=> uart_packet' # TimerEvent
    BY <1>1, <1>5 DEF Receive, Working
  <2> QED
    BY <2>1, <2>4, <2>5, <2>6 DEF Pointers, TimerEvent
<1>6. CASE RefusePacket \/ WriteBytes
  <2>1. UNCHANGED <<uart_queue, asked, dropped>> /\ uart_packet' = TimerEvent /\ pc' = "delay"
    BY <1>6 DEF RefusePacket, WriteBytes, mainVars
  <2> QED
    BY <1>1, <2>1 DEF Pointers, Working, TimerEvent
<1>7. CASE WriteHeader \/ CopyData \/ DelayOver
  <2>1. UNCHANGED <<uart_queue, asked, dropped, uart_packet>> /\ (Working' <=> Working)
    BY <1>7 DEF WriteHeader, CopyData, DelayOver, mainVars, Working
  <2> QED
    BY <2>1 DEF Pointers, TimerEvent
<1>8. CASE SetCommand \/ ClearCommand \/ UNCHANGED vars
  BY <1>2, <1>8 DEF SetCommand, ClearCommand, vars, mainVars, taskVars
<1> QED
  BY <1>3, <1>4, <1>5, <1>6, <1>7, <1>8 DEF Next, UartTask

----------------------------------------------------------------------------
(* Faithful frames *)

\* While fewer than Spare sends have been dropped, the buffer uart_task reads
\* holds the packet its event was sent for.
LEMMA SharedIntact ==
    ASSUME TypeOK, Pointers, Filled, P!HeldIntact, Working, Overrun < Spare
    PROVE  /\ Shared.seq = uart_packet.seq
           /\ Writable(Shared.iden) => Shared.iden = asked[uart_packet.seq]
<1>1. uart_packet.buffer \in Buffers /\ uart_packet.seq \in 1 .. MaxSends
  BY WorkingPacket
<1>2. P!IsPacket(uart_packet)
  BY <1>1 DEF P!IsPacket
<1>3. P!Intact(uart_packet)
  BY <1>2 DEF P!HeldIntact, P!Overrun, Overrun, Spare
<1>4. Shared.seq = uart_packet.seq
  BY <1>1, <1>3 DEF P!Intact, Shared
<1>5. Shared.iden = PacketIden(asked[uart_packet.seq])
  BY <1>1, <1>4 DEF Filled, Shared
<1>6. ~Writable(0)
  BY DEF Writable, PSA_MSP_MIN_IDENT, PSA_IDENT_VERSIONS
<1> QED
  BY <1>4, <1>5, <1>6 DEF PacketIden

LEMMA AskedGrows ==
    ASSUME TypeOK, NEW ident \in Idents, SendPacket(ident)
    PROVE  /\ Len(asked') = Len(asked) + 1 /\ asked'[Len(asked) + 1] = ident
           /\ \A s \in 1 .. Len(asked) : asked'[s] = asked[s]
BY DEF TypeOK, SendPacket

LEMMA NextFilled == TypeOK /\ Filled /\ [Next]_vars => Filled'
<1> SUFFICES ASSUME TypeOK, Filled, [Next]_vars PROVE Filled'
  OBVIOUS
<1>1. CASE UNCHANGED <<global_uart_send_buffers, asked>>
  BY <1>1 DEF Filled
<1>2. ASSUME NEW ident \in Idents, SendPacket(ident) PROVE Filled'
  <2> DEFINE new == [iden |-> PacketIden(ident), command |-> Taken(ident), seq |-> Len(asked) + 1]
  <2>1. /\ Len(asked') = Len(asked) + 1 /\ asked'[Len(asked) + 1] = ident
        /\ \A s \in 1 .. Len(asked) : asked'[s] = asked[s]
    BY <1>2, AskedGrows
  <2>2. Len(asked) \in Nat /\ global_uart_send_buffers \in [Buffers -> Packets]
    BY DEF TypeOK
  <2>3. global_uart_send_buffers' = [global_uart_send_buffers EXCEPT ![uart_send_buffer_num] = new]
    BY <1>2 DEF SendPacket
  <2> SUFFICES ASSUME NEW b \in Buffers, global_uart_send_buffers'[b].seq # 0
               PROVE  /\ global_uart_send_buffers'[b].seq <= Len(asked')
                      /\ global_uart_send_buffers'[b].iden =
                            PacketIden(asked'[global_uart_send_buffers'[b].seq])
    BY DEF Filled, PacketIden
  <2>4. CASE b = uart_send_buffer_num
    <3>1. global_uart_send_buffers'[b] = new
      BY <2>2, <2>3, <2>4
    <3> QED
      BY <2>1, <2>2, <3>1
  <2>5. CASE b # uart_send_buffer_num
    <3>1. global_uart_send_buffers'[b] = global_uart_send_buffers[b]
      BY <2>2, <2>3, <2>5
    <3>2. global_uart_send_buffers[b].seq \in Nat
      BY <2>2 DEF Packets
    <3>3. /\ global_uart_send_buffers[b].seq <= Len(asked)
          /\ global_uart_send_buffers[b].iden = PacketIden(asked[global_uart_send_buffers[b].seq])
      BY <3>1 DEF Filled
    <3>4. global_uart_send_buffers[b].seq \in 1 .. Len(asked)
      BY <2>2, <3>1, <3>2, <3>3
    <3> QED
      BY <2>1, <2>2, <3>1, <3>3, <3>4
  <2> QED
    BY <2>4, <2>5
<1> QED
  BY <1>1, <1>2 DEF Next, SetCommand, ClearCommand, TimerFires, UartTask, Receive, WriteHeader,
                    RefusePacket, CopyData, WriteBytes, DelayOver, vars, mainVars

LEMMA NextBuilding ==
    TypeOK /\ Pointers /\ Filled /\ Building /\ P!HeldIntact /\ [Next]_vars => Building'
<1> SUFFICES ASSUME TypeOK, Pointers, Filled, Building, P!HeldIntact, [Next]_vars
             PROVE  Building'
  OBVIOUS
<1>1. CASE UNCHANGED <<asked, dropped, taskVars>>
  BY <1>1 DEF Building, Overrun, taskVars
<1>2. ASSUME NEW ident \in Idents, SendPacket(ident) PROVE Building'
  <2>1. \A s \in 1 .. Len(asked) : asked'[s] = asked[s]
    BY <1>2, AskedGrows
  <2>2. UNCHANGED <<pc, uart_packet, uart_buffer>> /\ (dropped' = dropped \/ dropped' = dropped + 1)
    BY <1>2 DEF SendPacket, taskVars
  <2>3. ASSUME pc \in {"body", "write"}, Overrun' < Spare
        PROVE  Overrun < Spare /\ uart_packet.seq \in 1 .. Len(asked)
    <3>1. /\ uart_packet.seq \in 1 .. MaxSends /\ uart_packet.drops \in Nat
      BY <2>3, WorkingPacket DEF Working
    <3>2. dropped \in Nat /\ Len(asked) \in Nat
      BY DEF TypeOK
    <3>3. uart_packet.seq <= Len(asked)
      BY DEF Pointers
    <3>4. Spare \in Int
      BY BuffersNumAssumption, QueueLenAssumption DEF Spare
    <3> QED
      BY <2>2, <2>3, <3>1, <3>2, <3>3, <3>4 DEF Overrun
  <2> QED
    BY <2>1, <2>2, <2>3 DEF Building
<1>3. CASE WriteHeader
  <2>1. UNCHANGED <<asked, dropped, uart_packet>>
    BY <1>3 DEF WriteHeader, mainVars
  <2>2. /\ Writable(Shared.iden) /\ pc' = "body" /\ Working
        /\ uart_buffer'.header = Shared.seq /\ uart_buffer'.iden = Shared.iden
    BY <1>3 DEF WriteHeader, NoFrame, Working
  <2> QED
    BY <2>1, <2>2, SharedIntact DEF Building, Overrun
<1>4. CASE CopyData
  <2>1. UNCHANGED <<asked, dropped, uart_packet>>
    BY <1>4 DEF CopyData, mainVars
  <2>2. pc = "body" /\ Working /\ pc' = "write"
    BY <1>4 DEF CopyData, Working
  <2>3. /\ uart_buffer'.header = uart_buffer.header /\ uart_buffer'.iden = uart_buffer.iden
        /\ uart_buffer'.body = Shared.seq
    BY <1>4 DEF CopyData, TypeOK, Frames
  <2> QED
    BY <2>1, <2>2, <2>3, SharedIntact DEF Building, Overrun
<1>5. CASE Receive \/ RefusePacket \/ WriteBytes \/ DelayOver
  <2>1. pc' \notin {"body", "write"}
    BY <1>5 DEF Receive, RefusePacket, WriteBytes, DelayOver
  <2> QED
    BY <2>1 DEF Building
<1>6. CASE SetCommand \/ ClearCommand \/ TimerFires \/ UNCHANGED vars
  BY <1>1, <1>6 DEF SetCommand, ClearCommand, TimerFires, vars, mainVars
<1> QED
  BY <1>2, <1>3, <1>4, <1>5, <1>6 DEF Next, UartTask

LEMMA NextFaithful ==
    ASSUME TypeOK, Pointers, Filled, Building, P!HeldIntact, [Next]_vars,
           \A i \in 1 .. Len(wire) : Faithful(wire[i], asked)
    PROVE  \A i \in 1 .. Len(wire') : Faithful(wire'[i], asked')
<1>1. CASE UNCHANGED <<asked, wire>>
  BY <1>1
<1>2. ASSUME NEW ident \in Idents, SendPacket(ident)
      PROVE  \A i \in 1 .. Len(wire') : Faithful(wire'[i], asked')
  <2>1. /\ Len(asked') = Len(asked) + 1
        /\ \A s \in 1 .. Len(asked) : asked'[s] = asked[s]
    BY <1>2, AskedGrows
  <2>2. wire' = wire /\ wire \in Seq(Written) /\ Len(asked) \in Nat
    BY <1>2 DEF SendPacket, TypeOK, taskVars
  <2> SUFFICES ASSUME NEW i \in 1 .. Len(wire) PROVE Faithful(wire[i], asked')
    BY <2>2
  <2>3. wire[i].seq \in Nat \ {0}
    <3>1. wire[i] \in Written
      BY <2>2
    <3>2. wire[i].seq \in 1 .. MaxSends
      BY <3>1 DEF Written
    <3> QED
      BY <3>2, BoundsAssumption
  <2>4. Faithful(wire[i], asked)
    OBVIOUS
  <2>5. wire[i].seq \in 1 .. Len(asked) /\ wire[i].seq <= Len(asked')
    BY <2>1, <2>2, <2>3, <2>4 DEF Faithful
  <2> QED
    BY <2>1, <2>4, <2>5 DEF Faithful
<1>3. CASE WriteBytes
  <2> DEFINE frame == [iden |-> uart_buffer.iden, command |-> uart_buffer.command,
                       header |-> uart_buffer.header, body |-> uart_buffer.body,
                       length |-> Shared.seq,
                       seq |-> uart_packet.seq, overrun |-> dropped - uart_packet.drops]
  <2>1. asked' = asked /\ wire' = Append(wire, frame) /\ pc = "write" /\ Working
    BY <1>3 DEF WriteBytes, mainVars, Working
  <2>2. Faithful(frame, asked)
    <3>1. frame.seq <= Len(asked)
      BY DEF Pointers
    <3>2. ASSUME frame.overrun < Spare
          PROVE  /\ {frame.header, frame.body, frame.length} = {frame.seq}
                 /\ frame.iden = asked[frame.seq]
      BY <2>1, <3>2, SharedIntact DEF Building, Overrun
    <3> QED
      BY <3>1, <3>2 DEF Faithful
  <2>3. wire \in Seq(Written)
    BY DEF TypeOK
  <2> HIDE DEF frame
  <2> TAKE i \in 1 .. Len(wire')
  <2>4. CASE i \in 1 .. Len(wire)
    <3>1. wire'[i] = wire[i]
      BY <2>1, <2>3, <2>4
    <3> QED
      BY <2>1, <2>4, <3>1
  <2>5. CASE i = Len(wire) + 1
    <3>1. wire'[i] = frame
      BY <2>1, <2>3, <2>5
    <3> QED
      BY <2>1, <2>2, <3>1
  <2> QED
    BY <2>1, <2>3, <2>4, <2>5
<1> QED
  BY <1>1, <1>2, <1>3 DEF Next, SetCommand, ClearCommand, TimerFires, UartTask, Receive, WriteHeader,
                    RefusePacket, CopyData, DelayOver, vars, mainVars, taskVars

----------------------------------------------------------------------------
(* The theorems *)

LEMMA ChannelInvariant == Spec => [](TypeOK /\ Pointers) /\ P!Spec
<1>1. Init => TypeOK /\ Pointers
  BY InitType, InitPointers
<1>2. TypeOK /\ Pointers /\ [Next]_vars => (TypeOK /\ Pointers)'
  BY NextType, NextPointers
<1> QED
  BY <1>1, <1>2, InitRefines, StepRefines, PTL DEF Spec, P!Spec


\* Every variable keeps its type: psa_helper.c and uart_task.c stay within the
\* ring, the queue and the frame, whatever the sizes of the ring and the queue.
THEOREM TypeCorrect == Spec => []TypeOK
BY ChannelInvariant, PTL

\* The UART ring is a ring channel: uart_task gets the packets of
\* libpsa_send_packet as RingChannel hands them over.
THEOREM Implements == Spec => ImplementsChannel
<1>1. P!Init => Channel!Init
  BY DEF P!Init, P!Buffers, P!OtherEvent, P!NoBuffer,
         Channel!Init, Channel!Buffers, Channel!OtherEvent, Channel!NoBuffer
<1>2. [P!Next]_P!vars => [Channel!Next]_Channel!vars
  BY DEF P!Next, P!vars, P!Put, P!PostOther, P!PostOtherToFront, P!Take, P!Release,
         P!NextBuffer, P!SendToBack, P!SendToFront, P!IsFull, P!OtherEvent, P!NoBuffer, P!IsPacket,
         Channel!Next, Channel!vars, Channel!Put, Channel!PostOther, Channel!PostOtherToFront,
         Channel!Take, Channel!Release, Channel!NextBuffer, Channel!SendToBack,
         Channel!SendToFront, Channel!IsFull, Channel!OtherEvent, Channel!NoBuffer, Channel!IsPacket
<1> QED
  BY <1>1, <1>2, ChannelInvariant, PTL DEF P!Spec, Channel!Spec, ImplementsChannel

\* A frame on the UART is the packet libpsa_send_packet was called for, whole,
\* unless Spare sends or more were dropped while it waited or was being written.
THEOREM FramesAreFaithful == Spec => []WireFaithful
<1> DEFINE FaithfulWire == \A i \in 1 .. Len(wire) : Faithful(wire[i], asked)
           FrameInv == Filled /\ Building /\ FaithfulWire
<1>1. Init => FrameInv
  <2> SUFFICES ASSUME Init PROVE FrameInv
    OBVIOUS
  <2>1. Filled
    BY DEF Init, Filled, EmptyPacket
  <2>2. Building
    BY DEF Init, Building
  <2>3. FaithfulWire
    BY DEF Init
  <2> QED
    BY <2>1, <2>2, <2>3
<1>2. FrameInv /\ TypeOK /\ Pointers /\ P!HeldIntact /\ [Next]_vars => FrameInv'
  BY NextFilled, NextBuilding, NextFaithful
<1>3. FrameInv => WireFaithful
  BY DEF Faithful, WireFaithful
<1>4. P!Spec => []P!HeldIntact
  <2>1. P!BuffersNumAssumption /\ P!QueueLenAssumption /\ P!MaxSendsAssumption
    BY BuffersNumAssumption, QueueLenAssumption, BoundsAssumption
       DEF P!BuffersNumAssumption, P!QueueLenAssumption, P!MaxSendsAssumption
  <2> QED
    BY <2>1, P!HeldPacketSurvives, PTL
<1> HIDE DEF FrameInv
<1> QED
  BY <1>1, <1>2, <1>3, <1>4, ChannelInvariant, PTL DEF Spec

----------------------------------------------------------------------------
(* CD changer commands: none twice, and none lost without a trace *)

\* A command that is not to be taken any more.
Gone(c) == c <= commands /\ c # cd_changer_command /\ c \notin replaced

\* A command waits in one place only, and is one that has been given.
Waits ==
    /\ cd_changer_command <= commands /\ cd_changer_command \notin replaced
    /\ \A c \in replaced : c <= commands

\* Each command was taken by one packet at most, one of CAR_STATUS.
TakenOnce ==
    /\ \A b \in Buffers :
        LET packet == global_uart_send_buffers[b]
        IN  packet.command # NONE =>
                Gone(packet.command) /\ packet.iden = PSA_IDENT_CAR_STATUS
    /\ \A b, d \in Buffers :
        /\ global_uart_send_buffers[b].command = global_uart_send_buffers[d].command
        /\ global_uart_send_buffers[b].command # NONE
        => b = d

\* What has gone further has been taken.
FrameTaken == uart_buffer.command # NONE => Gone(uart_buffer.command)
WireTaken == \A i \in 1 .. Len(wire) : wire[i].command # NONE => Gone(wire[i].command)
LostTaken == \A c \in lost : Gone(c)

CommandsTaken == Waits /\ TakenOnce /\ FrameTaken /\ WireTaken /\ LostTaken

LEMMA CommandTypes ==
    ASSUME TypeOK
    PROVE  /\ commands \in Nat /\ cd_changer_command \in Nat /\ MaxCommands \in Nat
           /\ commands <= MaxCommands
           /\ \A c \in replaced \union lost : c \in 1 .. MaxCommands
           /\ \A b \in Buffers : global_uart_send_buffers[b].command \in Nat
           /\ uart_buffer.command \in Nat
           /\ \A i \in 1 .. Len(wire) : wire[i].command \in Nat
<1>1. commands \in 0 .. MaxCommands /\ cd_changer_command \in 0 .. MaxCommands /\ MaxCommands \in Nat
  BY BoundsAssumption DEF TypeOK
<1>2. \A c \in replaced \union lost : c \in 1 .. MaxCommands
  BY DEF TypeOK
<1>3. \A b \in Buffers : global_uart_send_buffers[b] \in Packets
  BY DEF TypeOK
<1>4. uart_buffer \in Frames /\ \A i \in 1 .. Len(wire) : wire[i] \in Written
  BY DEF TypeOK
<1> QED
  BY <1>1, <1>2, <1>3, <1>4 DEF Packets, Frames, Written

\* What is gone does not come back.
LEMMA GoneStays ==
    ASSUME TypeOK, Waits, [Next]_vars, NEW c \in Nat, c # NONE, Gone(c)
    PROVE  Gone(c)'
<1>1. commands \in Nat /\ c <= commands /\ c # cd_changer_command /\ c \notin replaced
  BY CommandTypes DEF Gone
<1>2. CASE SetCommand
  BY <1>1, <1>2 DEF SetCommand, Gone
<1>3. CASE ClearCommand
  BY <1>1, <1>3 DEF ClearCommand, Gone
<1>4. ASSUME NEW ident \in Idents, SendPacket(ident) PROVE Gone(c)'
  BY <1>1, <1>4 DEF SendPacket, Gone
<1>5. CASE UNCHANGED mainVars
  BY <1>1, <1>5 DEF Gone, mainVars
<1> QED
  BY <1>2, <1>3, <1>4, <1>5 DEF Next, TimerFires, UartTask, Receive, WriteHeader, RefusePacket,
                                CopyData, WriteBytes, DelayOver, vars

LEMMA WaitsStep == TypeOK /\ Waits /\ [Next]_vars => Waits'
<1> SUFFICES ASSUME TypeOK, Waits, [Next]_vars PROVE Waits'
  OBVIOUS
<1>1. /\ commands \in Nat /\ cd_changer_command \in Nat
      /\ cd_changer_command <= commands /\ cd_changer_command \notin replaced
      /\ \A c \in replaced : c <= commands /\ c \in Nat \ {0}
  <2>1. \A c \in replaced : c \in Nat \ {0}
    BY CommandTypes
  <2> QED
    BY <2>1, CommandTypes DEF Waits
<1>2. CASE SetCommand
  <2>1. commands' = commands + 1 /\ cd_changer_command' = commands + 1
        /\ replaced' = replaced \union ({cd_changer_command} \ {NONE})
    BY <1>2 DEF SetCommand
  <2>2. \A c \in replaced' : c <= commands
    BY <1>1, <2>1
  <2>3. commands + 1 \notin replaced'
    BY <1>1, <2>2
  <2> QED
    BY <1>1, <2>1, <2>2, <2>3 DEF Waits
<1>3. CASE ClearCommand
  <2>1. commands' = commands /\ cd_changer_command' = NONE
        /\ replaced' = replaced \union {cd_changer_command} /\ cd_changer_command # NONE
    BY <1>3 DEF ClearCommand
  <2>2. 0 \notin replaced'
    BY <1>1, <2>1 DEF NONE
  <2> QED
    BY <1>1, <2>1, <2>2 DEF Waits, NONE
<1>4. ASSUME NEW ident \in Idents, SendPacket(ident) PROVE Waits'
  <2>1. commands' = commands /\ replaced' = replaced /\ cd_changer_command' \in {NONE, cd_changer_command}
    BY <1>4 DEF SendPacket
  <2>2. 0 \notin replaced
    BY <1>1
  <2> QED
    BY <1>1, <2>1, <2>2 DEF Waits, NONE
<1>5. CASE UNCHANGED mainVars
  BY <1>1, <1>5 DEF Waits, mainVars
<1> QED
  BY <1>2, <1>3, <1>4, <1>5 DEF Next, TimerFires, UartTask, Receive, WriteHeader, RefusePacket,
                                CopyData, WriteBytes, DelayOver, vars

\* The command a packet takes is gone from then on.
LEMMA TakenIsGone ==
    ASSUME TypeOK, Waits, NEW ident \in Idents, SendPacket(ident),
           NEW taken, taken = Taken(ident), taken # NONE
    PROVE  /\ taken = cd_changer_command /\ ident = PSA_IDENT_CAR_STATUS
           /\ ~Gone(taken) /\ Gone(taken)'
<1>1. taken = cd_changer_command /\ ident = PSA_IDENT_CAR_STATUS
  BY DEF Taken
<1>2. commands' = commands /\ replaced' = replaced /\ cd_changer_command' = NONE
  BY <1>1 DEF SendPacket
<1> QED
  BY <1>1, <1>2 DEF Gone, Waits

LEMMA CarStatusKnown ==
    /\ PSA_IDENT_CAR_STATUS \in KnownIdents
    /\ Writable(PSA_IDENT_CAR_STATUS)
<1>1. <<PSA_IDENT_CAR_STATUS, 18>> \in DataSizes
  BY DEF DataSizes
<1>2. PSA_IDENT_CAR_STATUS \in KnownIdents
  BY <1>1 DEF KnownIdents
<1>3. \A entry \in DataSizes : entry[1] = PSA_IDENT_CAR_STATUS => entry[2] = 18
  BY DEF DataSizes, PSA_IDENT_ENGINE, PSA_IDENT_RADIO, PSA_IDENT_VIN, PSA_IDENT_RADIO_PRESETS,
         PSA_IDENT_CAR_STATUS, PSA_IDENT_HEADUNIT, PSA_IDENT_CD_PLAYER, PSA_IDENT_DASHBOARD,
         PSA_IDENT_TRIP, PSA_IDENT_DOORS
<1>4. PacketSize(PSA_IDENT_CAR_STATUS) = 18
  <2>1. PICK entry : entry = CHOOSE e \in DataSizes : e[1] = PSA_IDENT_CAR_STATUS
    OBVIOUS
  <2>2. entry \in DataSizes /\ entry[1] = PSA_IDENT_CAR_STATUS
    BY <1>1, <2>1
  <2> QED
    BY <1>2, <1>3, <2>1, <2>2 DEF PacketSize
<1>5. Writable(PSA_IDENT_CAR_STATUS)
  BY <1>4 DEF Writable, PSA_MSP_MIN_IDENT, PSA_IDENT_VERSIONS, PSA_IDENT_CAR_STATUS,
              PSA_MSP_MAX_SIZE
<1> QED
  BY <1>2, <1>5

LEMMA TakenStep == TypeOK /\ Pointers /\ CommandsTaken /\ [Next]_vars => CommandsTaken'
<1> SUFFICES ASSUME TypeOK, Pointers, CommandsTaken, [Next]_vars PROVE CommandsTaken'
  OBVIOUS
<1>1. Waits /\ TakenOnce /\ FrameTaken /\ WireTaken /\ LostTaken
  BY DEF CommandsTaken
<1>2. Waits'
  BY <1>1, WaitsStep
<1>3. ASSUME NEW c \in Nat, c # NONE, Gone(c) PROVE Gone(c)'
  BY <1>1, <1>3, GoneStays
<1>4. ASSUME UNCHANGED global_uart_send_buffers PROVE TakenOnce'
  BY <1>1, <1>3, <1>4, CommandTypes DEF TakenOnce
<1>5. ASSUME UNCHANGED uart_buffer PROVE FrameTaken'
  BY <1>1, <1>3, <1>5, CommandTypes DEF FrameTaken
<1>6. ASSUME UNCHANGED wire PROVE WireTaken'
  BY <1>1, <1>3, <1>6, CommandTypes DEF WireTaken
<1>7. ASSUME UNCHANGED lost PROVE LostTaken'
  <2>1. \A c \in lost : c \in Nat /\ c # NONE
    BY CommandTypes DEF NONE
  <2> QED
    BY <1>1, <1>3, <1>7, <2>1 DEF LostTaken
<1>8. ASSUME NEW ident \in Idents, SendPacket(ident) PROVE CommandsTaken'
  <2>1. UNCHANGED <<uart_buffer, wire>>
    BY <1>8 DEF SendPacket, taskVars
  <2>0. PICK taken : taken = Taken(ident)
    OBVIOUS
  <2>2. taken # NONE => Gone(taken)' /\ ~Gone(taken) /\ ident = PSA_IDENT_CAR_STATUS
    BY <1>1, <1>8, <2>0, TakenIsGone
  <2>3. LostTaken'
    <3>1. lost' \subseteq lost \union ({taken} \ {NONE})
      BY <1>8, <2>0 DEF SendPacket
    <3>2. \A c \in lost : c \in Nat /\ c # NONE
      BY CommandTypes DEF NONE
    <3> QED
      BY <1>1, <1>3, <2>2, <3>1, <3>2 DEF LostTaken
  <2>4. PICK new : new = [iden |-> PacketIden(ident), command |-> taken, seq |-> Len(asked) + 1]
    OBVIOUS
  <2>5. /\ global_uart_send_buffers' = [global_uart_send_buffers EXCEPT ![uart_send_buffer_num] = new]
        /\ global_uart_send_buffers \in [Buffers -> Packets] /\ uart_send_buffer_num \in Buffers
    BY <1>8, <2>0, <2>4 DEF SendPacket, TypeOK
  <2>6. /\ global_uart_send_buffers'[uart_send_buffer_num] = new
        /\ \A b \in Buffers :
             b # uart_send_buffer_num => global_uart_send_buffers'[b] = global_uart_send_buffers[b]
    BY <2>5
  <2>7. new.command = taken /\ (taken # NONE => new.iden = PSA_IDENT_CAR_STATUS)
    BY <2>2, <2>4, CarStatusKnown DEF PacketIden
  <2>8. ASSUME NEW b \in Buffers, b # uart_send_buffer_num,
               global_uart_send_buffers[b].command # NONE
        PROVE  /\ Gone(global_uart_send_buffers[b].command)
               /\ Gone(global_uart_send_buffers[b].command)'
               /\ global_uart_send_buffers[b].iden = PSA_IDENT_CAR_STATUS
    <3>1. PICK c \in Nat : c = global_uart_send_buffers[b].command
      BY CommandTypes
    <3>2. Gone(c) /\ global_uart_send_buffers[b].iden = PSA_IDENT_CAR_STATUS
      BY <1>1, <2>8, <3>1 DEF TakenOnce
    <3>3. Gone(c)'
      BY <1>3, <2>8, <3>1, <3>2
    <3>4. global_uart_send_buffers'[b].command = c
      BY <2>6, <2>8, <3>1
    <3> QED
      BY <2>6, <2>8, <3>1, <3>2, <3>3, <3>4
  <2>9. TakenOnce'
    <3>1. ASSUME NEW b \in Buffers, global_uart_send_buffers'[b].command # NONE
          PROVE  /\ Gone(global_uart_send_buffers[b].command)'
                 /\ global_uart_send_buffers'[b].iden = PSA_IDENT_CAR_STATUS
      <4>1. CASE b = uart_send_buffer_num
        BY <2>2, <2>6, <2>7, <3>1, <4>1 DEF Gone
      <4>2. CASE b # uart_send_buffer_num
        BY <2>6, <2>8, <3>1, <4>2
      <4> QED
        BY <4>1, <4>2
    <3>2. ASSUME NEW b \in Buffers, NEW d \in Buffers,
                 global_uart_send_buffers'[b].command = global_uart_send_buffers'[d].command,
                 global_uart_send_buffers'[b].command # NONE
          PROVE  b = d
      <4>1. CASE b # uart_send_buffer_num /\ d # uart_send_buffer_num
        BY <1>1, <2>6, <3>2, <4>1 DEF TakenOnce
      <4>2. CASE b = uart_send_buffer_num /\ d # uart_send_buffer_num
        BY <2>2, <2>6, <2>7, <2>8, <3>2, <4>2
      <4>3. CASE b # uart_send_buffer_num /\ d = uart_send_buffer_num
        BY <2>2, <2>6, <2>7, <2>8, <3>2, <4>3
      <4> QED
        BY <4>1, <4>2, <4>3
    <3> QED
      BY <3>1, <3>2 DEF TakenOnce
  <2> QED
    BY <1>2, <1>5, <1>6, <2>1, <2>3, <2>9 DEF CommandsTaken
<1>9. CASE SetCommand \/ ClearCommand \/ TimerFires \/ Receive \/ RefusePacket \/ DelayOver
           \/ UNCHANGED vars
  <2>1. UNCHANGED <<global_uart_send_buffers, uart_buffer, wire, lost>>
    BY <1>9 DEF SetCommand, ClearCommand, TimerFires, Receive, RefusePacket, DelayOver,
                vars, mainVars, taskVars
  <2> QED
    BY <1>2, <1>4, <1>5, <1>6, <1>7, <2>1 DEF CommandsTaken
<1>10. CASE WriteHeader
  <2>1. UNCHANGED <<global_uart_send_buffers, wire, lost>> /\ uart_buffer'.command = NONE
    BY <1>10 DEF WriteHeader, mainVars, NoFrame
  <2> QED
    BY <1>2, <1>4, <1>6, <1>7, <2>1 DEF CommandsTaken, FrameTaken
<1>11. CASE CopyData
  <2>1. UNCHANGED <<global_uart_send_buffers, wire, lost>> /\ Working
    BY <1>11 DEF CopyData, mainVars, Working
  <2>2. PICK b \in Buffers : b = uart_packet.buffer
    BY <2>1, WorkingPacket
  <2>3. uart_buffer'.command = global_uart_send_buffers[b].command
    BY <1>11, <2>2 DEF CopyData, Shared, TypeOK, Frames
  <2>4. PICK c \in Nat : c = global_uart_send_buffers[b].command
    BY CommandTypes
  <2>5. c # NONE => Gone(c)
    BY <1>1, <2>4 DEF TakenOnce
  <2>6. c # NONE => Gone(c)'
    BY <1>3, <2>5
  <2>7. FrameTaken'
    BY <2>3, <2>4, <2>6 DEF FrameTaken
  <2> QED
    BY <1>2, <1>4, <1>6, <1>7, <2>1, <2>7 DEF CommandsTaken
<1>12. CASE WriteBytes
  <2>1. UNCHANGED <<global_uart_send_buffers, uart_buffer, lost>>
    BY <1>12 DEF WriteBytes, mainVars
  <2>2. PICK frame : wire' = Append(wire, frame) /\ frame.command = uart_buffer.command
    BY <1>12 DEF WriteBytes
  <2>3. wire \in Seq(Written)
    BY DEF TypeOK
  <2>4. \A i \in 1 .. Len(wire') : wire'[i] = frame \/ (i \in 1 .. Len(wire) /\ wire'[i] = wire[i])
    BY <2>2, <2>3
  <2>5. WireTaken'
    <3> SUFFICES ASSUME NEW i \in 1 .. Len(wire'), wire'[i].command # NONE
                 PROVE  Gone(wire[i].command)'
      BY DEF WireTaken
    <3>1. PICK c \in Nat : c = wire'[i].command /\ Gone(c)
      BY <1>1, <2>2, <2>4, CommandTypes DEF WireTaken, FrameTaken
    <3>2. Gone(c)'
      BY <1>3, <3>1
    <3> QED
      BY <3>1, <3>2 DEF Gone
  <2> QED
    BY <1>2, <1>4, <1>5, <1>7, <2>1, <2>5 DEF CommandsTaken
<1> QED
  BY <1>8, <1>9, <1>10, <1>11, <1>12 DEF Next, UartTask

\* The packets that uart_task has still to write are where their events say, each in a
\* buffer of its own.
InFlightIntact ==
    dropped < Spare =>
        /\ \A i \in 1 .. Len(uart_queue) :
            uart_queue[i] # TimerEvent =>
                /\ global_uart_send_buffers[uart_queue[i].buffer].seq = uart_queue[i].seq
                /\ uart_packet # TimerEvent => uart_packet.buffer # uart_queue[i].buffer
        /\ uart_packet # TimerEvent => Shared.seq = uart_packet.seq

\* An event with a packet, and where it points.
LEMMA PacketEvent ==
    ASSUME NEW e \in Events, e # TimerEvent
    PROVE  e.buffer \in Buffers /\ e.seq \in Nat \ {0} /\ e.drops \in Nat
BY DEF Events

LEMMA IntactInFlight ==
    TypeOK /\ Pointers /\ P!QueuedIntact /\ P!HeldIntact /\ P!Fifo => InFlightIntact
<1> SUFFICES ASSUME TypeOK, Pointers, P!QueuedIntact, P!HeldIntact, P!Fifo, dropped < Spare
             PROVE  /\ \A i \in 1 .. Len(uart_queue) :
                        uart_queue[i] # TimerEvent =>
                            /\ global_uart_send_buffers[uart_queue[i].buffer].seq = uart_queue[i].seq
                            /\ uart_packet # TimerEvent => uart_packet.buffer # uart_queue[i].buffer
                    /\ uart_packet # TimerEvent => Shared.seq = uart_packet.seq
  BY DEF InFlightIntact
<1>1. Spare \in Int /\ dropped \in Nat
  BY BuffersNumAssumption, QueueLenAssumption DEF Spare, TypeOK
<1>2. ASSUME uart_packet # TimerEvent
      PROVE  Shared.seq = uart_packet.seq /\ uart_packet.seq \in Nat \ {0}
  <2>1. /\ uart_packet.buffer \in Buffers /\ uart_packet.seq \in Nat \ {0}
        /\ uart_packet.drops \in Nat
    BY <1>2, PacketEvent DEF TypeOK
  <2>2. P!Intact(uart_packet)
    BY <1>1, <2>1 DEF P!HeldIntact, P!IsPacket, P!Overrun, Spare
  <2> QED
    BY <2>1, <2>2 DEF P!Intact, Shared
<1>3. ASSUME NEW i \in 1 .. Len(uart_queue), uart_queue[i] # TimerEvent
      PROVE  /\ global_uart_send_buffers[uart_queue[i].buffer].seq = uart_queue[i].seq
             /\ uart_packet # TimerEvent => uart_packet.buffer # uart_queue[i].buffer
  <2>1. PICK e \in Events : e = uart_queue[i]
    BY DEF TypeOK
  <2>2. e.buffer \in Buffers /\ e.seq \in Nat \ {0} /\ e.drops \in Nat
    BY <1>3, <2>1, PacketEvent
  <2>3. dropped - e.drops <= BuffersNum - QueueLen
    BY <1>1, <2>2, BuffersNumAssumption, QueueLenAssumption DEF Spare
  <2>4. P!Intact(e)
    BY <2>1, <2>2, <2>3 DEF P!QueuedIntact, P!IsPacket, P!Overrun
  <2>5. global_uart_send_buffers[e.buffer].seq = e.seq
    BY <2>2, <2>4 DEF P!Intact
  <2>6. uart_packet # TimerEvent => uart_packet.seq < e.seq
    BY <1>2, <2>1, <2>2 DEF P!Fifo, P!IsPacket
  <2>7. uart_packet # TimerEvent => uart_packet.buffer # e.buffer
    BY <1>2, <2>2, <2>5, <2>6 DEF Shared
  <2> QED
    BY <2>1, <2>5, <2>7
<1> QED
  BY <1>2, <1>3

\* The packets with a command that are in the queue, in uart_task's hands, or written.
QueueCarries(c) ==
    \E i \in 1 .. Len(uart_queue) :
        /\ uart_queue[i] # TimerEvent
        /\ global_uart_send_buffers[uart_queue[i].buffer].command = c
TaskCarries(c) == uart_packet # TimerEvent /\ Shared.command = c
Carried(c) == QueueCarries(c) \/ TaskCarries(c)
WireCarries(c) == \E i \in 1 .. Len(wire) : wire[i].command = c

\* A send that does not overwrite what is in flight puts one packet more there, or none.
LEMMA SendCarries ==
    ASSUME TypeOK, Pointers, InFlightIntact', NEW ident \in Idents, SendPacket(ident),
           dropped' < Spare, NEW c, NEW taken, taken = Taken(ident)
    PROVE  Carried(c)' <=> Carried(c) \/ (c = taken /\ ~IsFull(uart_queue, QueueLen))
<1>1. /\ uart_queue \in Seq(Events) /\ Len(uart_queue) \in Nat /\ Len(asked) \in Nat
      /\ global_uart_send_buffers \in [Buffers -> Packets] /\ uart_send_buffer_num \in Buffers
  BY DEF TypeOK
<1>2. PICK new : new = [iden |-> PacketIden(ident), command |-> taken, seq |-> Len(asked) + 1]
  OBVIOUS
<1>3. /\ global_uart_send_buffers' = [global_uart_send_buffers EXCEPT ![uart_send_buffer_num] = new]
      /\ uart_packet' = uart_packet
  BY <1>2 DEF SendPacket, taskVars
<1>4. PICK event : event = SendEvent(uart_send_buffer_num)
  OBVIOUS
<1>5. event # TimerEvent /\ event.buffer = uart_send_buffer_num
  BY <1>1, <1>4 DEF SendEvent, TimerEvent
<1>6. uart_queue' = IF IsFull(uart_queue, QueueLen) THEN uart_queue ELSE Append(uart_queue, event)
  BY <1>4 DEF SendPacket, SendToBack
<1>7. ASSUME NEW b \in Buffers, NEW seq \in Nat, seq <= Len(asked),
             global_uart_send_buffers'[b].seq = seq
      PROVE  global_uart_send_buffers'[b] = global_uart_send_buffers[b]
  BY <1>1, <1>2, <1>3, <1>7
<1>8. TaskCarries(c)' <=> TaskCarries(c)
  <2>1. CASE uart_packet = TimerEvent
    BY <1>3, <2>1 DEF TaskCarries, TimerEvent
  <2>2. CASE uart_packet # TimerEvent
    <3>1. uart_packet.buffer \in Buffers /\ uart_packet.seq \in Nat /\ uart_packet.seq <= Len(asked)
      BY <2>2, PacketEvent DEF TypeOK, Pointers
    <3>2. global_uart_send_buffers'[uart_packet.buffer].seq = uart_packet.seq
      BY <1>3, <2>2 DEF InFlightIntact, Shared, TimerEvent, Spare
    <3>3. global_uart_send_buffers'[uart_packet.buffer] = global_uart_send_buffers[uart_packet.buffer]
      BY <1>7, <3>1, <3>2
    <3> QED
      BY <1>3, <3>3 DEF TaskCarries, Shared, TimerEvent
  <2> QED
    BY <2>1, <2>2
<1>9. ASSUME NEW i \in 1 .. Len(uart_queue)
      PROVE  /\ i \in 1 .. Len(uart_queue') /\ uart_queue'[i] = uart_queue[i]
             /\ uart_queue[i] # TimerEvent =>
                  global_uart_send_buffers'[uart_queue[i].buffer] =
                      global_uart_send_buffers[uart_queue[i].buffer]
  <2>1. i \in 1 .. Len(uart_queue') /\ uart_queue'[i] = uart_queue[i]
    BY <1>1, <1>6
  <2>2. ASSUME uart_queue[i] # TimerEvent
        PROVE  global_uart_send_buffers'[uart_queue[i].buffer] =
                   global_uart_send_buffers[uart_queue[i].buffer]
    <3>1. uart_queue[i].buffer \in Buffers /\ uart_queue[i].seq \in Nat
      BY <1>1, <2>2, PacketEvent
    <3>2. uart_queue[i].seq <= Len(asked)
      BY DEF Pointers
    <3>3. global_uart_send_buffers'[uart_queue'[i].buffer].seq = uart_queue'[i].seq
      BY <2>1, <2>2 DEF InFlightIntact, TimerEvent, Spare
    <3> QED
      BY <1>7, <2>1, <3>1, <3>2, <3>3
  <2> QED
    BY <2>1, <2>2
<1>10. CASE IsFull(uart_queue, QueueLen)
  <2>1. QueueCarries(c)' <=> QueueCarries(c)
    BY <1>6, <1>9, <1>10 DEF QueueCarries, TimerEvent
  <2> QED
    BY <1>8, <1>10, <2>1 DEF Carried
<1>11. CASE ~IsFull(uart_queue, QueueLen)
  <2>1. uart_queue' = Append(uart_queue, event)
    BY <1>6, <1>11
  <2>2. /\ Len(uart_queue') = Len(uart_queue) + 1 /\ uart_queue'[Len(uart_queue) + 1] = event
        /\ \A i \in 1 .. Len(uart_queue') : i \in 1 .. Len(uart_queue) \/ i = Len(uart_queue) + 1
    BY <1>1, <2>1
  <2>3. global_uart_send_buffers'[uart_send_buffer_num].command = taken
    BY <1>1, <1>2, <1>3
  <2>4. QueueCarries(c)' <=> QueueCarries(c) \/ c = taken
    <3>1. ASSUME QueueCarries(c) PROVE QueueCarries(c)'
      BY <1>9, <3>1 DEF QueueCarries, TimerEvent
    <3>2. ASSUME c = taken PROVE QueueCarries(c)'
      <4>1. Len(uart_queue) + 1 \in 1 .. Len(uart_queue')
        BY <1>1, <2>2
      <4> QED
        BY <1>5, <2>2, <2>3, <3>2, <4>1 DEF QueueCarries, TimerEvent
    <3>3. ASSUME QueueCarries(c)', c # taken PROVE QueueCarries(c)
      <4>1. PICK i \in 1 .. Len(uart_queue') :
                /\ uart_queue'[i] # TimerEvent
                /\ global_uart_send_buffers'[uart_queue'[i].buffer].command = c
        BY <3>3 DEF QueueCarries, TimerEvent
      <4>2. i \in 1 .. Len(uart_queue)
        BY <1>5, <2>2, <2>3, <3>3, <4>1
      <4> QED
        BY <1>9, <4>1, <4>2 DEF QueueCarries
    <3> QED
      BY <3>1, <3>2, <3>3
  <2> QED
    BY <1>8, <1>11, <2>4 DEF Carried
<1> QED
  BY <1>10, <1>11

\* The timer's event carries nothing.
LEMMA TimerCarries ==
    ASSUME TypeOK, TimerFires, NEW c
    PROVE  Carried(c)' <=> Carried(c)
<1>1. UNCHANGED <<global_uart_send_buffers, uart_packet>>
  BY DEF TimerFires, mainVars, taskVars
<1>2. uart_queue' = uart_queue \/ uart_queue' = Append(uart_queue, TimerEvent)
  BY DEF TimerFires, SendToBack
<1>3. uart_queue \in Seq(Events)
  BY DEF TypeOK
<1>4. CASE uart_queue' = uart_queue
  BY <1>1, <1>4 DEF Carried, QueueCarries, TaskCarries, Shared, TimerEvent
<1>5. CASE uart_queue' = Append(uart_queue, TimerEvent)
  <2>1. PICK timer : timer = TimerEvent
    OBVIOUS
  <2>2. \A i \in 1 .. Len(uart_queue) : i \in 1 .. Len(uart_queue') /\ uart_queue'[i] = uart_queue[i]
    BY <1>3, <1>5, <2>1
  <2>3. \A i \in 1 .. Len(uart_queue') : i \in 1 .. Len(uart_queue) \/ uart_queue'[i] = timer
    BY <1>3, <1>5, <2>1
  <2>4. QueueCarries(c)' <=> QueueCarries(c)
    BY <1>1, <2>1, <2>2, <2>3 DEF QueueCarries, TimerEvent
  <2> QED
    BY <1>1, <2>4 DEF Carried, TaskCarries, Shared, TimerEvent
<1> QED
  BY <1>2, <1>4, <1>5

\* What uart_task takes from the queue is in its hands.
LEMMA ReceiveCarries ==
    ASSUME TypeOK, Pointers, Receive, NEW c
    PROVE  Carried(c)' <=> Carried(c)
<1>1. uart_queue \in Seq(Events) /\ Len(uart_queue) \in Nat \ {0} /\ uart_packet = TimerEvent
  BY DEF TypeOK, Receive, Pointers, Working
<1>2. UNCHANGED global_uart_send_buffers /\ uart_queue' = Tail(uart_queue)
      /\ uart_packet' = uart_queue[1]
  BY <1>1 DEF Receive, mainVars
<1>3. /\ 1 \in 1 .. Len(uart_queue)
      /\ \A i \in 1 .. Len(uart_queue) :
           i = 1 \/ (i - 1 \in 1 .. Len(uart_queue') /\ uart_queue'[i - 1] = uart_queue[i])
      /\ \A i \in 1 .. Len(uart_queue') :
           i + 1 \in 1 .. Len(uart_queue) /\ uart_queue'[i] = uart_queue[i + 1]
  BY <1>1, <1>2
<1>4. TaskCarries(c)' <=> uart_queue[1] # TimerEvent
                            /\ global_uart_send_buffers[uart_queue[1].buffer].command = c
  BY <1>2 DEF TaskCarries, Shared, TimerEvent
<1>5. ~TaskCarries(c)
  BY <1>1 DEF TaskCarries
<1>6. QueueCarries(c) => QueueCarries(c)' \/ TaskCarries(c)'
  <2> SUFFICES ASSUME NEW i \in 1 .. Len(uart_queue), uart_queue[i] # TimerEvent,
                      global_uart_send_buffers[uart_queue[i].buffer].command = c
               PROVE  QueueCarries(c)' \/ TaskCarries(c)'
    BY DEF QueueCarries
  <2>1. CASE i = 1
    BY <1>4, <2>1
  <2>2. CASE i - 1 \in 1 .. Len(uart_queue') /\ uart_queue'[i - 1] = uart_queue[i]
    BY <1>2, <2>2 DEF QueueCarries, TimerEvent
  <2> QED
    BY <1>3, <2>1, <2>2
<1>7. QueueCarries(c)' => QueueCarries(c)
  BY <1>2, <1>3 DEF QueueCarries, TimerEvent
<1>8. TaskCarries(c)' => QueueCarries(c)
  BY <1>3, <1>4 DEF QueueCarries
<1> QED
  BY <1>5, <1>6, <1>7, <1>8 DEF Carried

\* What a packet carries is gone from main_task.
LEMMA CarriedIsGone ==
    ASSUME TypeOK, TakenOnce, NEW c \in Nat \ {0}, Carried(c)
    PROVE  Gone(c)
<1>1. PICK b \in Buffers : global_uart_send_buffers[b].command = c
  <2>1. CASE QueueCarries(c)
    <3>1. PICK i \in 1 .. Len(uart_queue) :
              /\ uart_queue[i] # TimerEvent
              /\ global_uart_send_buffers[uart_queue[i].buffer].command = c
      BY <2>1 DEF QueueCarries
    <3>2. uart_queue[i].buffer \in Buffers
      BY <3>1, PacketEvent DEF TypeOK
    <3> QED
      BY <3>1, <3>2
  <2>2. CASE TaskCarries(c)
    BY <2>2, PacketEvent DEF TaskCarries, Shared, TypeOK
  <2> QED
    BY <2>1, <2>2 DEF Carried
<1> QED
  BY <1>1 DEF TakenOnce, NONE

LEMMA WrittenIsGone ==
    ASSUME WireTaken, NEW c \in Nat \ {0}, WireCarries(c)
    PROVE  Gone(c)
BY DEF WireTaken, WireCarries, NONE

\* Only a send takes a command from main_task for good.
LEMMA GoneBefore ==
    ASSUME TypeOK, [Next]_vars, NEW c \in Nat \ {0}, Gone(c)'
    PROVE  Gone(c) \/ \E ident \in Idents : SendPacket(ident) /\ c = Taken(ident)
<1>1. commands \in Nat /\ c <= commands' /\ c # cd_changer_command' /\ c \notin replaced'
  BY CommandTypes DEF Gone
<1>2. CASE SetCommand
  BY <1>1, <1>2 DEF SetCommand, Gone, NONE
<1>3. CASE ClearCommand
  BY <1>1, <1>3 DEF ClearCommand, Gone
<1>4. ASSUME NEW ident \in Idents, SendPacket(ident)
      PROVE  Gone(c) \/ c = Taken(ident)
  <2>1. CASE ident = PSA_IDENT_CAR_STATUS
    BY <1>1, <1>4, <2>1 DEF SendPacket, Gone, Taken
  <2>2. CASE ident # PSA_IDENT_CAR_STATUS
    BY <1>1, <1>4, <2>2 DEF SendPacket, Gone
  <2> QED
    BY <2>1, <2>2
<1>5. CASE UNCHANGED mainVars
  BY <1>1, <1>5 DEF Gone, mainVars
<1> QED
  BY <1>2, <1>3, <1>4, <1>5 DEF Next, TimerFires, UartTask, Receive, WriteHeader, RefusePacket,
                                CopyData, WriteBytes, DelayOver, vars

\* When uart_task is done with a packet, only the queue carries commands, and not this one.
LEMMA EndCarries ==
    ASSUME TypeOK, Pointers, TakenOnce, InFlightIntact, dropped < Spare,
           RefusePacket \/ WriteBytes, NEW c \in Nat \ {0}
    PROVE  Carried(c)' <=> Carried(c) /\ ~TaskCarries(c)
<1>1. UNCHANGED <<uart_queue, global_uart_send_buffers>> /\ uart_packet' = TimerEvent
  BY DEF RefusePacket, WriteBytes, mainVars
<1>2. Carried(c)' <=> QueueCarries(c)
  BY <1>1 DEF Carried, QueueCarries, TaskCarries, TimerEvent
<1>3. ASSUME TaskCarries(c), QueueCarries(c) PROVE FALSE
  <2>1. PICK i \in 1 .. Len(uart_queue) :
            /\ uart_queue[i] # TimerEvent
            /\ global_uart_send_buffers[uart_queue[i].buffer].command = c
    BY <1>3 DEF QueueCarries
  <2>2. uart_queue[i].buffer \in Buffers
    BY <2>1, PacketEvent DEF TypeOK
  <2>3. /\ uart_packet # TimerEvent /\ uart_packet.buffer \in Buffers
        /\ global_uart_send_buffers[uart_packet.buffer].command = c
    BY <1>3, PacketEvent DEF TaskCarries, Shared, TypeOK
  <2>4. uart_packet.buffer # uart_queue[i].buffer
    BY <2>1, <2>3 DEF InFlightIntact
  <2> QED
    BY <2>1, <2>2, <2>3, <2>4 DEF TakenOnce, NONE
<1> QED
  BY <1>2, <1>3 DEF Carried

----------------------------------------------------------------------------
(* Every command that main_task no longer has is in one place *)

\* A dropped command is not on its way.
LostForGood == \A c \in lost : ~Carried(c) /\ ~WireCarries(c)

\* A written command is not on its way again, and is in one frame.
WrittenForGood == \A c \in Nat \ {0} : WireCarries(c) => ~Carried(c)
WrittenOnce ==
    \A i, j \in 1 .. Len(wire) :
        wire[i].command = wire[j].command /\ wire[i].command # NONE => i = j

\* The frame about to be written has the command of the packet uart_task works on.
FrameOfPacket == pc = "write" => uart_buffer.command = Shared.command

\* A command that is gone is on its way, written or dropped.
NoneMissing == \A c \in Nat \ {0} : Gone(c) => Carried(c) \/ WireCarries(c) \/ c \in lost

Accounted ==
    dropped < Spare =>
        LostForGood /\ WrittenForGood /\ WrittenOnce /\ FrameOfPacket /\ NoneMissing

\* Steps that carry, write and drop nothing new.
LEMMA QuietAccounted ==
    ASSUME TypeOK, [Next]_vars, LostForGood, WrittenForGood, WrittenOnce, NoneMissing,
           \A c \in Nat \ {0} : Carried(c)' <=> Carried(c),
           \A ident \in Idents : ~SendPacket(ident), UNCHANGED <<wire, lost>>
    PROVE  LostForGood' /\ WrittenForGood' /\ WrittenOnce' /\ NoneMissing'
<1>1. \A c : WireCarries(c)' <=> WireCarries(c)
  BY DEF WireCarries
<1>2. \A c \in lost : c \in Nat \ {0}
  BY CommandTypes
<1>3. \A c \in Nat \ {0} : Gone(c)' => Gone(c)
  BY GoneBefore
<1>4. LostForGood'
  BY <1>1, <1>2 DEF LostForGood
<1>5. WrittenForGood'
  BY <1>1 DEF WrittenForGood
<1>6. WrittenOnce'
  BY DEF WrittenOnce
<1>7. NoneMissing'
  BY <1>1, <1>3 DEF NoneMissing
<1> QED
  BY <1>4, <1>5, <1>6, <1>7

\* A send carries the pending command away, or drops it.
LEMMA SendAccounted ==
    ASSUME TypeOK, Pointers, CommandsTaken, InFlightIntact', NEW ident \in Idents,
           SendPacket(ident), [Next]_vars, dropped' < Spare,
           LostForGood, WrittenForGood, WrittenOnce, FrameOfPacket, NoneMissing
    PROVE  LostForGood' /\ WrittenForGood' /\ WrittenOnce' /\ FrameOfPacket' /\ NoneMissing'
<1>1. PICK taken : taken = Taken(ident)
  OBVIOUS
<1>2. UNCHANGED <<pc, uart_packet, uart_buffer, wire>>
  BY DEF SendPacket, taskVars
<1>3. \A c : Carried(c)' <=> Carried(c) \/ (c = taken /\ ~IsFull(uart_queue, QueueLen))
  BY <1>1, SendCarries
<1>4. \A c : WireCarries(c)' <=> WireCarries(c)
  BY <1>2 DEF WireCarries
<1>5. lost' = IF IsFull(uart_queue, QueueLen) THEN lost \union ({taken} \ {NONE}) ELSE lost
  BY <1>1 DEF SendPacket
<1>6. \A c \in lost : c \in Nat \ {0}
  BY CommandTypes
<1>7. taken # NONE => taken \in Nat \ {0} /\ ~Gone(taken)
  <2>1. taken \in Nat
    BY <1>1, CommandTypes DEF Taken, NONE
  <2> QED
    BY <1>1, <2>1, TakenIsGone DEF CommandsTaken, NONE
<1>8. \A c \in Nat \ {0} : Carried(c) \/ WireCarries(c) \/ c \in lost => Gone(c)
  BY CarriedIsGone, WrittenIsGone DEF CommandsTaken, LostTaken
<1>9. LostForGood'
  <2> SUFFICES ASSUME NEW c \in lost' PROVE ~Carried(c)' /\ ~WireCarries(c)'
    BY DEF LostForGood
  <2>1. CASE c \in lost
    BY <1>3, <1>4, <1>6, <1>7, <1>8, <2>1 DEF LostForGood, NONE
  <2>2. CASE c = taken /\ taken # NONE /\ IsFull(uart_queue, QueueLen)
    BY <1>3, <1>4, <1>7, <1>8, <2>2
  <2> QED
    BY <1>5, <2>1, <2>2
<1>10. WrittenForGood'
  <2> SUFFICES ASSUME NEW c \in Nat \ {0}, WireCarries(c)' PROVE ~Carried(c)'
    BY DEF WrittenForGood
  <2>1. WireCarries(c) /\ Gone(c) /\ ~Carried(c)
    BY <1>4, <1>8 DEF WrittenForGood
  <2> QED
    BY <1>3, <1>7, <2>1 DEF NONE
<1>11. WrittenOnce'
  BY <1>2 DEF WrittenOnce
<1>12. FrameOfPacket'
  <2> SUFFICES ASSUME pc = "write" PROVE uart_buffer.command = Shared.command'
    BY <1>2 DEF FrameOfPacket
  <2>1. /\ uart_packet # TimerEvent /\ uart_packet.buffer \in Buffers /\ uart_packet.seq \in Nat
        /\ uart_packet.seq <= Len(asked) /\ Len(asked) \in Nat
    BY PacketEvent DEF Pointers, Working, TypeOK
  <2>2. PICK b \in Buffers : b = uart_packet.buffer
    BY <2>1
  <2>3. global_uart_send_buffers'[b].seq = uart_packet.seq
    BY <1>2, <2>1, <2>2 DEF InFlightIntact, Shared, TimerEvent, Spare
  <2>4. global_uart_send_buffers'[b] = global_uart_send_buffers[b]
    BY <2>1, <2>3 DEF SendPacket, TypeOK
  <2> QED
    BY <1>2, <2>2, <2>4 DEF FrameOfPacket, Shared
<1>13. NoneMissing'
  <2> SUFFICES ASSUME NEW c \in Nat \ {0}, Gone(c)'
               PROVE  Carried(c)' \/ WireCarries(c)' \/ c \in lost'
    BY DEF NoneMissing
  <2>1. CASE Gone(c)
    BY <1>3, <1>4, <1>5, <2>1 DEF NoneMissing
  <2>2. CASE ~Gone(c)
    <3>1. c = taken
      <4>1. PICK i \in Idents : SendPacket(i) /\ c = Taken(i)
        BY <2>2, GoneBefore
      <4>2. c = cd_changer_command /\ cd_changer_command' = NONE
        BY <4>1 DEF Taken, SendPacket, NONE
      <4>3. ident = PSA_IDENT_CAR_STATUS
        BY <4>2 DEF SendPacket, NONE
      <4> QED
        BY <1>1, <4>2, <4>3 DEF Taken
    <3> QED
      BY <1>3, <1>5, <3>1 DEF NONE
  <2> QED
    BY <2>1, <2>2
<1> QED
  BY <1>9, <1>10, <1>11, <1>12, <1>13

\* A write takes the command of the packet out of flight and onto the wire.
LEMMA WriteAccounted ==
    ASSUME TypeOK, Pointers, TakenOnce, InFlightIntact, WriteBytes, [Next]_vars,
           dropped < Spare,
           LostForGood, WrittenForGood, WrittenOnce, FrameOfPacket, NoneMissing
    PROVE  LostForGood' /\ WrittenForGood' /\ WrittenOnce' /\ FrameOfPacket' /\ NoneMissing'
<1>1. /\ UNCHANGED lost /\ pc = "write" /\ pc' = "delay" /\ wire \in Seq(Written)
      /\ uart_packet # TimerEvent
  BY DEF WriteBytes, mainVars, TypeOK, Pointers, Working
<1>2. PICK frame : wire' = Append(wire, frame) /\ frame.command = Shared.command
  BY <1>1 DEF WriteBytes, FrameOfPacket
<1>3. \A c : TaskCarries(c) <=> c = frame.command
  BY <1>1, <1>2 DEF TaskCarries
<1>4. \A c \in Nat \ {0} : Carried(c)' <=> Carried(c) /\ ~TaskCarries(c)
  BY EndCarries
<1>5. /\ Len(wire) \in Nat /\ Len(wire') = Len(wire) + 1
      /\ \A i \in 1 .. Len(wire) : i \in 1 .. Len(wire') /\ wire'[i] = wire[i]
      /\ wire'[Len(wire) + 1] = frame
      /\ \A i \in 1 .. Len(wire') : i \in 1 .. Len(wire) \/ i = Len(wire) + 1
  BY <1>1, <1>2
<1>6. \A c : WireCarries(c)' <=> WireCarries(c) \/ TaskCarries(c)
  <2>1. Len(wire) + 1 \in 1 .. Len(wire')
    BY <1>5
  <2> QED
    BY <1>3, <1>5, <2>1 DEF WireCarries
<1>7. \A c \in lost : c \in Nat \ {0}
  BY CommandTypes
<1>8. LostForGood'
  BY <1>1, <1>4, <1>6, <1>7 DEF LostForGood, Carried
<1>9. WrittenForGood'
  BY <1>4, <1>6 DEF WrittenForGood
<1>10. WrittenOnce'
  <2> SUFFICES ASSUME NEW i \in 1 .. Len(wire'), NEW j \in 1 .. Len(wire'),
                      wire'[i].command = wire'[j].command, wire'[i].command # NONE
               PROVE  i = j
    BY DEF WrittenOnce
  <2>1. \A k \in 1 .. Len(wire) : wire[k].command # NONE => wire[k].command # frame.command
    <3> SUFFICES ASSUME NEW k \in 1 .. Len(wire), wire[k].command # NONE,
                        wire[k].command = frame.command
                 PROVE  FALSE
      OBVIOUS
    <3>1. PICK c \in Nat \ {0} : c = wire[k].command
      BY CommandTypes DEF NONE
    <3> QED
      BY <1>3, <3>1 DEF WrittenForGood, WireCarries, Carried
  <2> QED
    BY <1>5, <2>1 DEF WrittenOnce
<1>11. FrameOfPacket'
  BY <1>1 DEF FrameOfPacket
<1>12. NoneMissing'
  <2>1. \A c \in Nat \ {0} : Gone(c)' => Gone(c)
    BY GoneBefore DEF WriteBytes, SendPacket, taskVars
  <2> QED
    BY <1>1, <1>4, <1>6, <2>1 DEF NoneMissing
<1> QED
  BY <1>8, <1>9, <1>10, <1>11, <1>12

LEMMA AccountedStep ==
    /\ TypeOK /\ Pointers /\ CommandsTaken /\ InFlightIntact /\ InFlightIntact' /\ Accounted
    /\ [Next]_vars
    => Accounted'
<1> SUFFICES ASSUME TypeOK, Pointers, CommandsTaken, InFlightIntact, InFlightIntact', Accounted,
                    [Next]_vars, dropped' < Spare
             PROVE  LostForGood' /\ WrittenForGood' /\ WrittenOnce' /\ FrameOfPacket' /\ NoneMissing'
  BY DEF Accounted, Spare
<1>1. dropped < Spare
  <2>1. dropped' = dropped \/ dropped' = dropped + 1
    BY DEF Next, SetCommand, ClearCommand, SendPacket, TimerFires, UartTask, Receive, WriteHeader,
           RefusePacket, CopyData, WriteBytes, DelayOver, vars, mainVars
  <2>2. dropped \in Nat /\ Spare \in Int
    BY BuffersNumAssumption, QueueLenAssumption DEF TypeOK, Spare
  <2> QED
    BY <2>1, <2>2
<1>2. LostForGood /\ WrittenForGood /\ WrittenOnce /\ FrameOfPacket /\ NoneMissing
  BY <1>1 DEF Accounted
<1>3. Waits /\ TakenOnce
  BY DEF CommandsTaken
<1>4. ASSUME NEW ident \in Idents, SendPacket(ident)
      PROVE  LostForGood' /\ WrittenForGood' /\ WrittenOnce' /\ FrameOfPacket' /\ NoneMissing'
  BY <1>2, <1>4, SendAccounted
<1>5. CASE WriteBytes
  BY <1>1, <1>2, <1>3, <1>5, WriteAccounted
<1>6. CASE ~WriteBytes /\ \A ident \in Idents : ~SendPacket(ident)
  <2>1. UNCHANGED <<wire, lost, global_uart_send_buffers>>
    BY <1>6 DEF Next, SetCommand, ClearCommand, TimerFires, UartTask, Receive, WriteHeader,
                RefusePacket, CopyData, DelayOver, vars, mainVars, taskVars
  <2>2. \A c \in Nat \ {0} : Carried(c)' <=> Carried(c)
    <3> SUFFICES ASSUME NEW c \in Nat \ {0} PROVE Carried(c)' <=> Carried(c)
      OBVIOUS
    <3>1. CASE TimerFires
      BY <3>1, TimerCarries
    <3>2. CASE Receive
      BY <3>2, ReceiveCarries
    <3>3. CASE RefusePacket
      <4>1. Carried(c)' <=> Carried(c) /\ ~TaskCarries(c)
        BY <1>1, <1>3, <3>3, EndCarries
      <4>2. ~TaskCarries(c)
        <5> SUFFICES ASSUME TaskCarries(c) PROVE FALSE
          OBVIOUS
        <5>1. uart_packet.buffer \in Buffers /\ Shared.command = c
          BY PacketEvent DEF TaskCarries, TypeOK
        <5>2. Shared.iden = PSA_IDENT_CAR_STATUS
          BY <1>3, <5>1 DEF TakenOnce, Shared, NONE
        <5> QED
          BY <3>3, <5>2, CarStatusKnown DEF RefusePacket
      <4> QED
        BY <4>1, <4>2
    <3>4. CASE UNCHANGED <<uart_queue, uart_packet>>
      BY <2>1, <3>4 DEF Carried, QueueCarries, TaskCarries, Shared, TimerEvent
    <3> QED
      BY <1>6, <3>1, <3>2, <3>3, <3>4 DEF Next, SetCommand, ClearCommand, UartTask, WriteHeader,
                                          CopyData, DelayOver, vars, taskVars
  <2>3. LostForGood' /\ WrittenForGood' /\ WrittenOnce' /\ NoneMissing'
    BY <1>2, <1>6, <2>1, <2>2, QuietAccounted
  <2>4. FrameOfPacket'
    <3>1. CASE CopyData
      <4>1. uart_buffer'.command = Shared.command /\ UNCHANGED uart_packet
        BY <3>1 DEF CopyData, TypeOK, Frames
      <4> QED
        BY <2>1, <4>1 DEF FrameOfPacket, Shared
    <3>2. CASE UNCHANGED <<pc, uart_buffer, uart_packet>>
      BY <1>2, <2>1, <3>2 DEF FrameOfPacket, Shared
    <3>3. CASE pc' # "write"
      BY <3>3 DEF FrameOfPacket
    <3> QED
      BY <1>6, <3>1, <3>2, <3>3 DEF Next, SetCommand, ClearCommand, TimerFires, UartTask, Receive,
                                    WriteHeader, RefusePacket, DelayOver, vars, taskVars
  <2> QED
    BY <2>3, <2>4
<1> QED
  BY <1>4, <1>5, <1>6

LEMMA InitAccounted == Init => CommandsTaken /\ Accounted
<1> SUFFICES ASSUME Init PROVE CommandsTaken /\ Accounted
  OBVIOUS
<1>1. /\ commands = 0 /\ cd_changer_command = NONE /\ replaced = {} /\ lost = {} /\ wire = <<>>
      /\ uart_queue = <<>> /\ uart_packet = TimerEvent /\ pc = "receive"
      /\ uart_buffer.command = NONE
      /\ \A b \in Buffers : global_uart_send_buffers[b].command = NONE
  BY DEF Init, EmptyPacket, NoFrame
<1>2. CommandsTaken
  BY <1>1 DEF CommandsTaken, Waits, TakenOnce, FrameTaken, WireTaken, LostTaken, NONE
<1>3. \A c \in Nat \ {0} : ~Gone(c) /\ ~WireCarries(c)
  BY <1>1 DEF Gone, WireCarries
<1>4. Accounted
  BY <1>1, <1>3 DEF Accounted, LostForGood, WrittenForGood, WrittenOnce, FrameOfPacket, NoneMissing
<1> QED
  BY <1>2, <1>4

\* All that is used of the channel and of the commands.
LEMMA CommandInvariant == Spec => [](TypeOK /\ CommandsTaken /\ Accounted)
<1>1. P!Spec => [](P!QueuedIntact /\ P!HeldIntact /\ P!Fifo)
  <2>1. P!BuffersNumAssumption /\ P!QueueLenAssumption /\ P!MaxSendsAssumption
    BY BuffersNumAssumption, QueueLenAssumption, BoundsAssumption
       DEF P!BuffersNumAssumption, P!QueueLenAssumption, P!MaxSendsAssumption
  <2> QED
    BY <2>1, P!QueuedPacketsSurvive, P!HeldPacketSurvives, P!PacketsInOrder, PTL
<1> QED
  BY <1>1, ChannelInvariant, IntactInFlight, InitAccounted, TakenStep, AccountedStep, PTL DEF Spec

LEMMA OneOfFive ==
    ASSUME NEW a \in BOOLEAN, NEW b \in BOOLEAN, NEW c \in BOOLEAN, NEW d \in BOOLEAN,
           NEW e \in BOOLEAN, NEW k \in 1 .. 5,
           a <=> k = 1, b <=> k = 2, c <=> k = 3, d <=> k = 4, e <=> k = 5
    PROVE  Cardinality({i \in DOMAIN <<a, b, c, d, e>> : <<a, b, c, d, e>>[i]}) = 1
<1>1. {i \in DOMAIN <<a, b, c, d, e>> : <<a, b, c, d, e>>[i]} = {k}
  OBVIOUS
<1>2. Cardinality({k}) = 1
  BY FS_Singleton
<1> QED
  BY <1>1, <1>2

\* "Next track" skips one track: no CD changer command is written to the UART twice,
\* unless Spare sends or more were dropped (psa_helper.c:97).
THEOREM CommandsOnce == Spec => []CommandAtMostOnce
<1>1. TypeOK /\ Accounted => CommandAtMostOnce
  <2> SUFFICES ASSUME TypeOK, Accounted, dropped < Spare, NEW command \in 1 .. commands
               PROVE  Cardinality({i \in 1 .. Len(wire) : wire[i].command = command}) <= 1
    BY DEF CommandAtMostOnce
  <2>1. WrittenOnce /\ command # NONE
    BY DEF Accounted, NONE
  <2>2. CASE {i \in 1 .. Len(wire) : wire[i].command = command} = {}
    BY <2>2, FS_EmptySet
  <2>3. ASSUME NEW j \in 1 .. Len(wire), wire[j].command = command
        PROVE  Cardinality({i \in 1 .. Len(wire) : wire[i].command = command}) <= 1
    <3>1. PICK written : written = {i \in 1 .. Len(wire) : wire[i].command = command}
      OBVIOUS
    <3>2. written = {j}
      BY <2>1, <2>3, <3>1 DEF WrittenOnce
    <3>3. Cardinality({j}) = 1
      BY FS_Singleton
    <3>4. Cardinality(written) = 1
      BY <3>2, <3>3, Zenon
    <3>5. Cardinality(written) <= 1
      BY <3>4
    <3> QED
      BY <3>1, <3>5, Zenon
  <2> QED
    BY <2>2, <2>3
<1> QED
  BY <1>1, CommandInvariant, PTL

\* Every CD changer command is in one place: it waits in main_task, is on its way to the
\* UART, was written, was replaced before a packet took it, or its packet was dropped;
\* unless Spare sends or more were dropped (psa_helper.c:97-98, 150).
THEOREM CommandsAccounted == Spec => []CommandAccounted
<1>1. TypeOK /\ CommandsTaken /\ Accounted => CommandAccounted
  <2> SUFFICES ASSUME TypeOK, CommandsTaken, Accounted, dropped < Spare,
                      NEW command \in 1 .. commands
               PROVE  LET places == <<command = cd_changer_command,
                                      command \in InFlight,
                                      \E i \in 1 .. Len(wire) : wire[i].command = command,
                                      command \in replaced,
                                      command \in lost>>
                      IN  Cardinality({i \in DOMAIN places : places[i]}) = 1
    BY DEF CommandAccounted
  <2>1. /\ command \in Nat \ {0} /\ command <= commands /\ cd_changer_command \notin replaced
        /\ LostForGood /\ WrittenForGood /\ NoneMissing
    BY CommandTypes DEF Accounted, CommandsTaken, Waits
  <2>2. command \in InFlight <=> Carried(command)
    BY DEF InFlight, Carried, QueueCarries, TaskCarries
  <2>3. (\E i \in 1 .. Len(wire) : wire[i].command = command) <=> WireCarries(command)
    BY DEF WireCarries
  <2>4. Carried(command) \/ WireCarries(command) \/ command \in lost => Gone(command)
    BY <2>1, CarriedIsGone, WrittenIsGone DEF CommandsTaken, LostTaken
  <2>5. PICK k \in 1 .. 5 :
            /\ command = cd_changer_command <=> k = 1
            /\ command \in InFlight <=> k = 2
            /\ (\E i \in 1 .. Len(wire) : wire[i].command = command) <=> k = 3
            /\ command \in replaced <=> k = 4
            /\ command \in lost <=> k = 5
    <3>1. CASE command = cd_changer_command
      BY <2>1, <2>2, <2>3, <2>4, <3>1 DEF Gone
    <3>2. CASE command \in replaced
      BY <2>1, <2>2, <2>3, <2>4, <3>2 DEF Gone
    <3>3. CASE Gone(command)
      <4>1. command # cd_changer_command /\ command \notin replaced
        BY <3>3 DEF Gone
      <4>2. Carried(command) \/ WireCarries(command) \/ command \in lost
        BY <2>1, <3>3 DEF NoneMissing
      <4>3. /\ command \in lost => ~Carried(command) /\ ~WireCarries(command)
            /\ WireCarries(command) => ~Carried(command)
        BY <2>1 DEF LostForGood, WrittenForGood
      <4> QED
        BY <2>2, <2>3, <4>1, <4>2, <4>3
    <3> QED
      BY <2>1, <3>1, <3>2, <3>3 DEF Gone
  <2> DEFINE waits == command = cd_changer_command
             inFlight == command \in InFlight
             written == \E i \in 1 .. Len(wire) : wire[i].command = command
             overtaken == command \in replaced
             withPacket == command \in lost
  <2>6. /\ waits \in BOOLEAN /\ inFlight \in BOOLEAN /\ written \in BOOLEAN
        /\ overtaken \in BOOLEAN /\ withPacket \in BOOLEAN
    OBVIOUS
  <2>7. /\ waits <=> k = 1
        /\ inFlight <=> k = 2
        /\ written <=> k = 3
        /\ overtaken <=> k = 4
        /\ withPacket <=> k = 5
    BY <2>5
  <2> HIDE DEF waits, inFlight, written, overtaken, withPacket
  <2>8. Cardinality({i \in DOMAIN <<waits, inFlight, written, overtaken, withPacket>> :
                        <<waits, inFlight, written, overtaken, withPacket>>[i]}) = 1
    BY <2>6, <2>7, OneOfFive
  <2> QED
    BY <2>8 DEF waits, inFlight, written, overtaken, withPacket
<1> QED
  BY <1>1, CommandInvariant, PTL
=============================================================================
