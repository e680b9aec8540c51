----------------------------- MODULE PsaHelper -----------------------------
(***************************************************************************)
(* libpsa_send_packet and libpsa_update_audio_settings_packet              *)
(* (psa_helper.c) as main_task uses them.  The ring of buffers behind a    *)
(* send is UartSend's subject; here a send finds room in the UART queue or *)
(* does not, and the question is which of the computer's data is then out  *)
(* of date.                                                                *)
(***************************************************************************)
EXTENDS Integers, Sequences

CONSTANTS
    UartQueueLen,       \* length of the UART queue (10, main.c:368)
    Tracked             \* the packets whose staleness is recorded

ASSUME UartQueueLenAssumption == UartQueueLen \in Nat \ {0}
ASSUME TrackedAssumption == Tracked \subseteq Nat

\* The side of the UART queue that main_task sees:
\*   queued  packets in the queue
\*   stale   packets whose data has been written since one last found room
\*   missed  packets that were asked for, and found no room, since then
NoUart == [queued |-> 0, stale |-> {}, missed |-> {}]

Written(uart, idens) == [uart EXCEPT !.stale = @ \union (idens \intersect Tracked)]
Missed(uart, idens) == [uart EXCEPT !.missed = @ \union (idens \intersect Tracked)]

\* libpsa_send_packet for one identifier after the other.
SendPackets(uart, idens) ==
    LET room == UartQueueLen - uart.queued
        accepted == {idens[i] : i \in {j \in 1 .. Len(idens) : j <= room}}
        refused == {idens[i] : i \in {j \in 1 .. Len(idens) : j > room}}
    IN  [queued |-> IF Len(idens) <= room THEN uart.queued + Len(idens) ELSE UartQueueLen,
         stale |-> uart.stale \ accepted,
         missed |-> (uart.missed \union (refused \intersect Tracked)) \ accepted]

\* The settings a menu position shows as changing (psa_helper.c:181-254).
Changing(setting) ==
    CASE setting = 1 -> {"bass"}
      [] setting = 2 -> {"treble", "volume"}
      [] setting = 3 -> {"loudness"}
      [] setting = 4 -> {"fader"}
      [] setting = 5 -> {"balance"}
      [] setting = 6 -> {"auto_volume"}
      [] OTHER -> {}
============================================================================
