---------------------------- MODULE EventQueue ----------------------------
(***************************************************************************)
(* The FreeRTOS queue as every task of the firmware uses it: a bounded     *)
(* FIFO of small events, created with a fixed length, whose send is called *)
(* with a timeout of 0 ticks and whose result nobody looks at.  A send to  *)
(* a full queue therefore leaves the queue as it was, and the event is     *)
(* gone.  (The one send with a timeout, main.c:582, waits in the caller.)  *)
(***************************************************************************)
EXTENDS Naturals, Sequences

\* uxQueueSpacesAvailable = 0.
IsFull(queue, length) == Len(queue) >= length

\* xQueueSendToBack(queue, &event, 0) and xQueueSendFromISR.
SendToBack(queue, event, length) ==
    IF IsFull(queue, length) THEN queue ELSE Append(queue, event)

\* xQueueSendToFront(queue, &event, 0).
SendToFront(queue, event, length) ==
    IF IsFull(queue, length) THEN queue ELSE <<event>> \o queue
===========================================================================
