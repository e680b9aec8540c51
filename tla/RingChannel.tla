---------------------------- MODULE RingChannel ----------------------------
(***************************************************************************)
(* What the way of a packet from main_task to uart_task promises           *)
(* (psa_helper.c:11-151, uart_task.c:96-136).  The producer takes the next *)
(* buffer of a ring of BuffersNum static buffers, fills it, and sends a    *)
(* pointer to it through a queue of QueueLen events.  Nobody ever marks a  *)
(* buffer as free.  A send to a full queue is dropped, and the ring index  *)
(* has moved on all the same, so that a producer that runs ahead of its    *)
(* consumer comes round to a buffer whose pointer is still queued, or is   *)
(* being read.  The question is how many drops a queued packet survives.   *)
(*                                                                         *)
(* The ring has 20 buffers and the queue room for 10.  Both tasks are on   *)
(* one core and the producer has the higher priority: its whole send is    *)
(* one step.  The two channels to main_task, from van_rmt_task             *)
(* (van_rmt_task.c:68-142) and from uart_rx_task (uart_task.c:172-179),    *)
(* are not like this one: their consumer runs while a buffer is filled,    *)
(* and VanReceive and UartReceive say what they promise.                   *)
(*                                                                         *)
(* Packets are known by the number of the send that wrote them.            *)
(***************************************************************************)
EXTENDS Integers, EventQueue

CONSTANTS
    BuffersNum,     \* buffers in the ring
    QueueLen,       \* length of the queue the pointers go through
    MaxSends        \* bound on the sends of one behaviour

ASSUME BuffersNumAssumption == BuffersNum \in Nat \ {0}
ASSUME QueueLenAssumption == QueueLen \in Nat \ {0}
ASSUME MaxSendsAssumption == MaxSends \in Nat

VARIABLES
    nextBuffer,     \* index of the buffer the next send takes
    buffers,        \* buffers[b]: the send that last wrote buffer b, 0 if none
    queue,          \* the queued events
    held,           \* the event the consumer took and is working on
    sent,           \* sends so far
    dropped         \* sends so far that found the queue full

vars == <<nextBuffer, buffers, queue, held, sent, dropped>>

Buffers == 0 .. BuffersNum - 1

\* An event points to buffer `buffer', filled by send `seq' when `drops' sends
\* had been dropped.  Other events share the queue and point to no buffer.
NoBuffer == -1
OtherEvent == [buffer |-> NoBuffer, seq |-> 0, drops |-> 0]
Events == [buffer : Buffers, seq : Nat \ {0}, drops : Nat] \union {OtherEvent}

IsPacket(event) == event.seq # 0

\* Mutants of the index arithmetic: the ring is left by one, or one too short.
NextBufferLate(b) == IF b >= BuffersNum THEN 0 ELSE b + 1
NextBufferShort(b) == IF b >= BuffersNum - 2 THEN 0 ELSE b + 1

NextBuffer(b) == IF b >= BuffersNum - 1 THEN 0 ELSE b + 1

Init ==
    /\ nextBuffer = 0
    /\ buffers = [b \in Buffers |-> 0]
    /\ queue = <<>>
    /\ held = OtherEvent
    /\ sent = 0
    /\ dropped = 0

\* A mutant of Put: the pointer goes to the front of the queue.
PutInFront ==
    /\ sent < MaxSends
    /\ sent' = sent + 1
    /\ buffers' = [buffers EXCEPT ![nextBuffer] = sent + 1]
    /\ nextBuffer' = NextBuffer(nextBuffer)
    /\ queue' = SendToFront(queue,
                            [buffer |-> nextBuffer, seq |-> sent + 1, drops |-> dropped],
                            QueueLen)
    /\ dropped' = IF IsFull(queue, QueueLen) THEN dropped + 1 ELSE dropped
    /\ UNCHANGED held

\* The producer fills the next buffer and sends the pointer, or loses it.
Put ==
    /\ sent < MaxSends
    /\ sent' = sent + 1
    /\ buffers' = [buffers EXCEPT ![nextBuffer] = sent + 1]
    /\ nextBuffer' = NextBuffer(nextBuffer)
    /\ queue' = SendToBack(queue,
                           [buffer |-> nextBuffer, seq |-> sent + 1, drops |-> dropped],
                           QueueLen)
    /\ dropped' = IF IsFull(queue, QueueLen) THEN dropped + 1 ELSE dropped
    /\ UNCHANGED held

\* Somebody sends an event without a buffer to the back of the queue.
PostOther ==
    /\ ~IsFull(queue, QueueLen)
    /\ queue' = SendToBack(queue, OtherEvent, QueueLen)
    /\ UNCHANGED <<nextBuffer, buffers, held, sent, dropped>>

\* The same to the front of the queue.  The channel promises what it does to a queue
\* that is sent to in both ways, as main_task sends to its own (main.c:602).
PostOtherToFront ==
    /\ ~IsFull(queue, QueueLen)
    /\ queue' = SendToFront(queue, OtherEvent, QueueLen)
    /\ UNCHANGED <<nextBuffer, buffers, held, sent, dropped>>

\* The consumer takes an event.  It works on one at a time.
Take ==
    /\ queue # <<>>
    /\ held = OtherEvent
    /\ held' = Head(queue)
    /\ queue' = Tail(queue)
    /\ UNCHANGED <<nextBuffer, buffers, sent, dropped>>

\* The consumer is done with the event and forgets the pointer.
Release ==
    /\ IsPacket(held)
    /\ held' = OtherEvent
    /\ UNCHANGED <<nextBuffer, buffers, queue, sent, dropped>>

Next == Put \/ PostOther \/ PostOtherToFront \/ Take \/ Release

Spec == Init /\ [][Next]_vars

----------------------------------------------------------------------------
(* Properties *)

\* Every variable has its type.
TypeOK ==
    /\ nextBuffer \in Buffers
    /\ buffers \in [Buffers -> Nat]
    /\ queue \in Seq(Events)
    /\ Len(queue) <= QueueLen
    /\ held \in Events
    /\ sent \in 0 .. MaxSends
    /\ dropped \in 0 .. sent

\* Sends dropped since the event was queued.
Overrun(event) == dropped - event.drops

\* The buffer still holds the packet the event was sent for.
Intact(event) == buffers[event.buffer] = event.seq

\* A queued packet survives BuffersNum - QueueLen drops, and not one fewer than
\* the size of the ring and of the queue allow: the ring is larger than the
\* queue, and what is left over is exactly the number of lost sends the
\* oldest queued packet can bear (psa_helper.c:17, 150).
QueuedIntact ==
    \A i \in 1 .. Len(queue) :
        IsPacket(queue[i]) /\ Overrun(queue[i]) <= BuffersNum - QueueLen
            => Intact(queue[i])

\* The packet the consumer is reading has a whole queue behind it, so it
\* survives one drop fewer (uart_task.c:109-128 reads it through the pointer).
HeldIntact ==
    IsPacket(held) /\ Overrun(held) < BuffersNum - QueueLen => Intact(held)

\* The packets still to be read are in the order of their sends, the one being
\* read first: nothing overtakes and no pointer is handed over twice.
Fifo ==
    /\ \A i, j \in 1 .. Len(queue) :
        i < j /\ IsPacket(queue[i]) /\ IsPacket(queue[j]) => queue[i].seq < queue[j].seq
    /\ \A i \in 1 .. Len(queue) :
        IsPacket(queue[i]) /\ IsPacket(held) => held.seq < queue[i].seq
============================================================================
