# Verification of the VAN bus adapter firmware

The repository holds the firmware of an ESP32 adapter (`src/kod`, C on ESP-IDF
and FreeRTOS) and the thesis about it (`src/main.tex`, `src/sections`). The
adapter listens to the VAN bus of a car, keeps the car's data up to date,
sends it over a UART to an infotainment computer, answers on the bus as a CD
changer, and puts itself to sleep when the car is at rest.

This directory holds TLA+ specifications of that firmware, the TLC runs that
check them on small instances, and TLAPS proofs about them. Line numbers are
those of the files under `src/kod` unless another path is given.

## 1. The system

### Tasks, interrupts and queues

| Who | Where | Core, priority | Takes from | Sends to |
|---|---|---|---|---|
| `main_task` | main.c:429-697 | 0, 20 | main queue (20) | UART queue, TSS queue, itself |
| `uart_task` | uart_task.c:49-140 | 0, 15 | UART queue (10) | the UART |
| `uart_rx_task` | uart_task.c:142-186 | 0, 11 | the UART | main queue |
| `tss_task` | tss_task.c:166-226 | 0, 10 | TSS queue (10) | the TSS463C chip, over SPI |
| `van_rmt_task` | van_rmt_task.c:89-147 | 1, 15 | receive queue (30) | main queue |
| RMT interrupt | van_rmt_rx.c:58-70 | | the VAN bus | receive queue |
| timers: 1 s, battery, audio menu | main.c:74-118 | interrupts | | main queue |
| timer of the UART | uart_task.c:22-35 | interrupt | | UART queue |

All queues are FreeRTOS queues of small events: a kind and a pointer. Every
send has a timeout of 0 and its result is ignored, so that a send to a full
queue loses the event, with one exception: the one-second tick waits up to
100 ms for room in the TSS queue (main.c:582).

### Components, their state and operations

* **Main task.** State: the event queue; the data buffers
  (`global_libpsa_buffers`), which the parser writes and the sender reads; the
  audio menu (open, setting, timer); the state of the car; two packets shared with
  `tss_task`; the presets in RTC memory, which
  survive deep sleep. Operations: one per event, and `calculate_car_state`
  after each. Correct when data that arrived is sent on, the menu closes by
  itself, the battery goes on being measured, presets stay, and the device
  sleeps when the car does.
* **VAN packet parser.** Called by the main task. Dispatches a frame by its
  identifier, size and second byte, writes the data buffers, takes a buffer of a
  ring of 20, writes into it which packets to send, and sends the main task a
  pointer to it. Correct when no such buffer is overwritten before it is handled.
* **Packets to the computer.** `libpsa_send_packet`, called by the main task,
  copies data into the next of 20 buffers and sends `uart_task` a pointer. Correct
  when frames are unmixed and in order, and the CD changer command, which
  is to be carried out once, is sent once.
* **VAN receiver.** The interrupt re-arms the receiver on the one symbol buffer
  and queues the symbols' pointer; `van_rmt_task` decodes Manchester code, checks
  the CRC, and sends the main task a pointer into a ring of 50 frames. Correct
  when a frame that passes is a frame that was on the bus.
* **Packets from the computer.** `uart_rx_task` reads header, payload and
  checksum, each with a timeout, into one receive buffer, copies what passes the
  checksum into the next of 20 buffers and sends the main task a pointer. Correct
  when what it accepts is what the computer sent, when bytes that are lost or late do
  not put it out of step for good, and when a packet that waits is intact.
* **TSS463C.** `tss_task` starts the bus controller, and copies the two packets the
  main task changes, the state of the CD changer and the trip reset, into the
  controller's mailboxes over SPI; the main task itself puts the controller to
  sleep. Correct when the controller sends whole packets, the last ones, and none while
  the device sleeps or from before.
* **Helpers.** CRC-8, CRC-15, BCD, rounding: pure functions.

### What is hard

`main_task` preempts `uart_task` between any two instructions and both use the
same ring buffers without a lock; it runs on the other core than `van_rmt_task`, and
they share a ring likewise. Ring indices advance even if the queue refuses
the pointer. Every event can be lost. Timers fire between a handler's decision
and the next event. Deep sleep loses the RAM. `hazards` in PROJECT.json lists
each of these at its line, with the properties that cover it.

## 2. The modules

| Module | Subject |
|---|---|
| `EventQueue` | a FreeRTOS queue as the firmware uses it |
| `RingChannel` | abstract: what passing pointers to ring buffers through a queue promises when a send is one step |
| `RingChannelProofs` | its inductive invariant and theorems |
| `PsaPacketDefs` | identifiers, sizes and limits of the computer's protocol |
| `UartSend` | `libpsa_send_packet`, `uart_task` and its timer |
| `UartSendProofs` | type correctness, refinement of `RingChannel`, unmixed frames, CD changer commands once and accounted for |
| `VanReceive` | the RMT interrupt, `van_rmt_task`, and its ring to the main task |
| `VanReceiveProofs` | type correctness, frames never out of order and each once, packets intact and in order |
| `VanDecode` | from the levels of the bus to packets: RMT, rounding, decoder, CRC |
| `VanDecodeProofs` | rounding, BCD, the decoder and its array, frames are received as they were sent, disturbed ones if at all |
| `UartReceive` | `uart_rx_task`: lost bytes, timeouts, its ring to the main task |
| `UartReceiveProofs` | type correctness, a queued packet is intact until it is overrun, silence puts the reader in step, what is accepted was sent |
| `TssTask` | `tss_task`, the driver, the chip's mailboxes, sleep and boot |
| `TssTaskProofs` | type correctness, the mailboxes catch up, packets in one piece, nothing from before a sleep |
| `Common` | rounding, identifiers, BCD |
| `Checksums` | CRC-8 and CRC-15 with the firmware's tables, and their reference |
| `VanPacketParser` | the parser, as operators on frames and data |
| `CarState` | `calculate_car_state` and what it remembers, as functions |
| `PsaHelper` | sending and the audio settings, as the main task sees them |
| `MainTask` | the main task with timers, sleep and boot; composes the three above |
| `MainTaskProofs` | the parser's ring is never overrun |
| `MainTaskStateProofs` | types, menu, chain of measurements, presets, and that what is written is sent |
| `MC...` | the instances TLC checks |

**RingChannel.** A packet is known by the number of the send that wrote it.
`Put` is one send, dropped or not; `PostOther` and `PostOtherToFront` are the
events without a buffer that share the queue; `Take` and `Release` are the
consumer. The channel from `main_task` to `uart_task` has this shape (20 buffers and
queue 10): they are on one core, and the sender has the higher priority. The two
channels to `main_task`, from `van_rmt_task` (50 and 20) and from `uart_rx_task` (20 and
20), have not: their consumer runs while a buffer is filled, so that a packet is
overwritten before the send that could be counted as lost.

**UartSend.** A send is one step, because the sender has the higher priority.
`uart_task` takes a step for each time it goes back to the shared buffer: the
check and the header (110-117), the data (119-123), the length of the write
(125-128). Once the buffer has stayed the same from the first to the last of
these steps, finer steps would read the same. Data is abstracted to the
identifier, the number of the send and the CD changer command. `asked`,
`dropped`, `commands`, `replaced`, `lost` and `wire` record what happened and
decide nothing.

**VanReceive.** There is a queue of received frames and one buffer for their
symbols. `FrameEnds` is the interrupt: on the ESP32 the driver has copied the
symbols into the buffer when it calls the callback, which re-arms the receiver and queues
the event. A frame is a number in the order of the bus, a length in parts, and
whether it is valid: undisturbed and of a length the task accepts. A part stands
for symbols read between two interrupts, and the buffer holds, for each part,
the number of the frame it is from; a shorter frame leaves the rest of a longer
one behind it. `ParseSymbols` reads part after part, with the interrupt anywhere
between. `CrcOk` is the CRC as it is meant: it accepts a whole valid frame and nothing
else; the arithmetic is in `VanDecode`. What passes is written into the ring in two
steps, `FillHead` and `FillData`, and sent in a third, `SendPacket`, with
main_task, which is on the other core, between any two. A packet in the ring is known by
the number of its send, in its head and in its data. The event's
`frame`, and `frames`, `parsed`, `sent` and `dropped`, record what happened:
the code knows none of them. Every queued event's pointer is to the same buffer, so
the model's events do not have it.

**VanDecode.** The reception of one frame after another, without the interrupt: levels and
durations as the RMT peripheral measures them, each a little off (`Jitters`, 3 us
early to 4 us late of a slice of 8), `round_to_nearest` on a byte, the decoder's
state from level to level, its bound on the length. The environment is a constant:
`Buses` are frames, when they start, whether they were disturbed, and the levels of the
line, which must carry the frames with their complements after each nibble if they
were not (`BusAssumption`). The CRC is the constant `Crc15`, so that the proofs need not
go into it. `MCVanDecode` makes the buses, inverts slices where they are disturbed, sends
the remainder of a division of polynomials as CRC, and gives the firmware's
`van_rmt_rx_crc15` with its table for `Crc15`.

**UartReceive.** Bytes carry, besides their value, the packet and the place they are from,
which the code does not know. `ByteArrives` and `ByteLost` are the line; a read
returns when its bytes are there, or at any time before with what is there, which is its
timeout. The receive buffer keeps what earlier packets left, and behind that what
`malloc` left. The ring buffer is filled in two steps, `FillHead` and `FillData`, with
main_task between any two. `MainHandles` is one step: that handler does not wait. `late`,
`clean`, `disturbed` record what happened. The model leaves out packets of more
than the 128 bytes of a buffer, which the code does not check (uart_task.c:177).

**TssTask.** Contents are known by the number of the change that made them. Of the CD
changer's packet two bytes are told apart, header and footer, since the radio compares
them. An access to the chip is `TakeSemaphore`, `AcquireBus`, and either its end
(`Access`, `CopyByte` and `CopyEnds` for the data) or `NoAnswer`; `op` goes through
`tss_start` and then `data` and `channel` for each event. The settings of the line and
the interrupts are one access, `configure`; of 14 channels the two in use are
there, and what `tss_instance_t` notes of channels, which nothing reads, is not.
`SleepTakes`, `SleepAcquires` and `SleepCommand` are the main task in
`tss_sleep`, after which everything but the chip starts anew (`Wake`). `Sends` is the
chip. `missed`, `unwritten`, `raced`, `sleepless` record what the properties
except.

**Common, Checksums.** Operators on bytes. The tables are copied digit by digit, and
`MCVanDecode` has TLC compare every entry with the remainder of its byte
(`TablesAreRemainders`).

**MainTask.** Taking an event (`Dequeue`) and handling it are two steps, since
the other core and the interrupts fill the freed slot in between. A handler is
one step up to where it blocks: `vTaskDelay` after a frame (`DelayOver`), and
the send that waits (`TssWaitOver`). `Finish` is the end of every handler:
the packets it sends, then `calculate_car_state`. A frame is an identifier, a
size, and the few fields that decide something. `uart` is what the main task can
see of the UART queue: how full it is, and, as a record, which packets hold data
the computer has not been sent (`stale`) and which of them found no room
(`missed`). `extPower` is `g_global_ext_power_state`, which switches nothing, and `extReg`
the pin of the computer's regulator, which the start of `main_task` raises (main.c:467)
and only deep sleep lowers (main.c:259). `lost` records timer events that met a full queue. `HandleSleep`
goes to sleep, `Wake` boots with the RTC memory, `PowerCycle` without.

## 3. The runs

| Run | Shows | Bounds |
|---|---|---|
| `ring_channel` | a queued packet survives `BuffersNum - QueueLen` lost sends, the one being read one fewer, in order | 4 buffers, queue of 2, 9 sends: twice round the ring |
| `uart_send` | frames unmixed; commands at most once, none unaccounted for; accepted packets are written; `UartSend` implements `RingChannel` | 3 buffers, queue of 2, 4 sends, 2 commands |
| `main_data` | the parser's ring is never overrun; what arrives is announced behind its arrival, and sent | queue and ring of 2: as tight as the code's 20 and 20 |
| `main_timers` | the menu has something to close it, shows what it is, closes; one link in the chain of measurements; a car at rest sleeps unless the chain broke | queue of 2, both buttons, a request, one tick between two boots, power on and off, resets |
| `main_car` | a preset stays until another station is stored, sleep or not | queue of 1, two stations for one preset, all signals of the state of the car, resets |
| `van_receive` | what is forwarded is never older than what was announced or forwarded before; twice only in place of overwritten frames; the last frame before a silence arrives; a queued packet is intact while fewer than `BuffersNum - QueueLen` later ones were lost, the one being read with one fewer, in order | frames of 1 and 2 parts, valid or not, 4 frames, receive queue of 2, main queue of 2, ring of 4 |
| `van_decode` | undisturbed frames become their packets whatever the durations are off; disturbed ones no others; the array is long enough; both CRC tables are right | frames of 2 to 30 bytes, pairs of frames, one or two slices disturbed anywhere in a short frame, one in the gap of two, every duration -3, 0 or 4 us off |
| `uart_receive` | accepted in time is as sent, once, in order; accepted late is a repeat; queued is intact until overrun; silence brings it back into step, and in step every packet is accepted | 2 packets, 1 byte lost, ring and queue of 1 |
| `tss_task` | header and footer are from one change, but for the race; mailboxes catch up; nothing is sent in or from before a sleep; trip resets arrive | 2 changes of each packet, queue of 2, 2 accesses unanswered, 1 sleep |
| `uart_versions` | *violated:* a request for the version packet is answered | |
| `main_sleep` | *violated:* without power the device sleeps | |
| `main_trip` | *violated:* the trip meter that is reset is the one asked for | |

Small queues make the interesting cases, a full queue and a ring that comes
round, happen within a few steps, and the ratio of ring to queue is what
matters: larger ones only repeat the pattern, and the theorems hold for all of
them. `MaxSends`, `MaxCommands`, `MaxTicks`, `MaxFrames`, `MaxPackets`, `MaxLost`, `MaxChanges`,
`MaxUnanswered` and `MaxSleeps` bound what would grow for ever;
`UartSend`, `RingChannel`, `VanReceive`, `UartReceive`, `TssTask` and `VanDecode` stop at their bounds
or when their traffic ends, which is why their runs do not check for deadlock.
`MainTask` is never stuck, and its runs do.
`CommandAtMostOnce`, `CommandAccounted` and `AcceptedIsWritten` speak of behaviours
with fewer than `Spare` lost sends: beyond that the ring is overrun, and the
code promises nothing. `Spare` is 10 in the firmware, 1 in the run, so that both
the drop that is survived and the one that is not occur.

**What the violations say.** The version packet has no case in
`libpsa_send_packet`, and its identifier is outside the limits of `uart_task`.
The event of a one-shot timer that finds the main queue full is never sent
again, and with it the measurement of the battery ends (main.c:112, 593): from
then on the device does not sleep. Two trip resets in quick succession use one
packet (main.c:661-675): the second overwrites the first.

**What the passing runs say beside that.** A frame that ends before `van_rmt_task` has
read the one before replaces its symbols (van_rmt_rx.c:63-68): the event of the older
frame is parsed as the newer one, or refused if the symbols are of both. The task has
the length of a frame to read the one before, about a millisecond, unless
something delays it, such as the log of a CRC error (van_rmt_rx.c:198), which is
written to the console from the task itself. `van_receive` shows that this is all
that can happen: data is lost, but the main task never goes back to older data, and the
last frame is not lost.

`InTimeAsSent` holds as far as CRC-8 does: 8 bits of checksum cannot tell every accident
from a packet. How far that is, is a formula about constants, `ChecksumTellsPackets`: no
packets with bytes missing, read from any byte on, make a header and a payload that fit
unless they are one of the packets. `ChecksumTellsRepeats` says the same of a payload that
is completed from other bytes. TLC evaluates both for the packets of the run, two trip
resets (`PacketsAreTold`, `RepeatsAreTold` in `MCUartReceive`). They hold as well with two
bytes lost of two packets, and with one of three; with three bytes lost of two packets
`ChecksumTellsPackets` is false: what is left then may fit CRC-8 and be nothing anybody sent.

`LateIsARepeat` speaks only of headers that are read in step: out of step, with
bytes that are old or `malloc`'s where the payload should be, a checksum fits by
chance now and then, and TLC finds such a case even among two short packets.
A payload that is late may therefore make the adapter carry out an earlier request once
more, but not one that was never made.

`HeaderIsFooter` names two exceptions: a change while the packet is copied
(main.c:577-579 against tss463c.c:374-380), and the radio asking while it is. Both heal
with the next tick. `CaughtUp` and `TripArrives` except an access the chip did not
answer, since `tss_registers_set`'s result is not looked at (tss463c.c:776, 855): a
channel is armed although its data was not written. `OnlyThisBoot` excepts a
command to sleep that was not answered (main.c:257).

**Fairness.** Weak fairness of `UartTask` and `MainTask`: a task of FreeRTOS that
is ready runs once those of higher priority wait, and `main_task`, which is
above `uart_task`, waits after each event and sleeps 10 ms after each frame.
Of `VanRmtTask`, likewise: it is the only task the firmware starts on core 1 and
never waits but for its queue. Weak fairness of the timers that are running: they are hardware. Of
`UartTakes` in `MainTask`: the same as for `UartTask`. Of `ByteArrives`: what is on
the line arrives unless it is lost; of `UartRxTask`: it waits for bytes with timeouts,
so that every read returns (a header's with nothing at all is no step). Of
`TssTaskRuns`: it has the lowest priority of its core, but the others wait in between;
of `WaitOver` and `ToSleep`: waits of the main task for queue, semaphore and bus end
when what they wait for is there; of `Sends("trip")`: the VAN bus is free from time to
time. The radio need not ask, so there is none of `Sends("cdc")`. No fairness is assumed of
the bus's traffic, the computer, the one-second tick, the battery or resets, and in
`MainTask` of `tss_task`.

`SleepsUnlessLost` and `WithoutPowerSleeps` state what else they assume, in `CarAtRest`: the
power stays off, the bus falls silent, nothing resets the ESP32, and from some time on
neither the computer nor the tick sends an event between the step that takes the timer's
event and the step that handles it. The last is needed. A request that comes just
then may fill the slot the event has left, so that the sleep event, which is sent to the
front of the queue without waiting (main.c:602), is lost; the timer was started again
before (main.c:593), its event finds room after the request was handled, and the same may
happen at the next measurement, and at every one after that. Without this assumption TLC
finds that behaviour in the instance of `main_timers`. It takes a computer that
keeps all 20 places of the queue full: with a place left, the sleep event gets in.

## 4. The proofs

All theorems hold for every value of the constants allowed by the named
assumptions of the modules: sizes are positive, bounds are natural numbers, and
in `MainTask` the ring is no smaller than the queue.

**RingChannel** (`RingChannelProofs`). That a packet is intact is not inductive:
one must know how far the producer is from its buffer. `Inv` says, for each
queued packet and for the one being read, how many sends may still happen
before the ring comes round to it, in terms of its place in the queue and the
sends lost since. From it follow `QueuedPacketsSurvive`, `HeldPacketSurvives` and
`PacketsInOrder`.

**UartSend** (`UartSendProofs`). `TypeCorrect` is inductive with the types of
the sequences. `Implements` maps the initial state and every step to `RingChannel`:
`SendPacket` to `Put`, the timer to `PostOther` or a stutter, `Receive` to `Take`,
`RefusePacket` and `WriteBytes` to `Release`, and the rest to stutters.
`FramesAreFaithful` then needs nothing about rings: `RingChannel`'s theorem about
the packet being read carries over, and what remains is that a frame in the
making holds the pieces of the packet read so far (`Filled`).

`CommandsOnce` and `CommandsAccounted` follow a CD changer command from the data to
the wire. A command leaves the data (`Gone`) in the send that puts it into a buffer, so
that no two buffers get the same one, and what is in a buffer, in the frame in the making,
on the wire or dropped is gone from the data (`CommandsTaken`). While fewer than
`Spare` sends were dropped, each queued packet is in its buffer, and no two of them nor
the one being read share one (`InFlightIntact`, from `RingChannel`'s theorems). Hence a
command that was written or dropped is in no packet still to be written, none was
written twice, and one that is gone is carried, written or dropped (`Accounted`).

**MainTask** (`MainTaskProofs`). `BuffersIntact`: the parser's ring is never overrun,
although it has no buffer to spare. `PacketBuffersIntact` alone says nothing about
what the next frame will overwrite. `Inv` adds that, for every queued event with
a buffer, the ring is at least as many buffers away as there are events to be
handled before it (`Safe`, `Ahead`, `Distance`). A frame that takes a buffer has
itself left the queue, a lost event uses up a buffer without lengthening the
queue, and the sleep event, the only one that jumps the queue, takes the place of
the event whose handler sent it. `RingAssumption` is what the sizes 20 and 20 give.

**MainTask** (`MainTaskStateProofs`). The other safety properties, each with its own
invariant beside the types (`StateTypes`, of which `TypeCorrect` is a part).

* `MenuHasAnEnd`, `MenuAsShown`: what will close an open menu, a running timer, its
  event or a lost event, and that the setting the computer is shown is the one in hand.
* `ChainUnbroken`: `MeasurementGoesOn` says there is a link; inductive is that there is
  *one*: the running timer, the event in hand, an event in the queue, and then no other
  one, or the broken chain (`Chain`).
* `PresetsStay`: an action property. A preset in RAM changes by a frame or a power
  cycle; for the sleep in between, the RTC memory holds what RAM held when it
  began (`PresetsAsleep`).
* `UpdatesGetSent`: data the computer has not been sent is named by an event still to be
  handled or found no room (`StaleSent`), where an event counts for what it was sent for;
  `BuffersIntact` says its buffer still holds that. A CD changer command in the data
  is among them (`CommandSent`), which needs its packet to be one that the model keeps
  track of: the theorem assumes `PSA_IDENT_CAR_STATUS \in Tracked`.

**VanReceive** (`VanReceiveProofs`). `NothingOlder` is about parts read at different
times from a buffer that changes under the reader. `Inv` says why it holds all the
same: every part of the buffer only ever becomes newer, so that each part
decoded is from the frame of the event or a later one and no later than the one now in
the buffer (`Decoded`); the first part of the buffer is from the last frame, since
every frame has one; what was forwarded is no newer than that (`InOrder`); and every
part of the buffer that an event counts is from the event's frame or a later one
(`NotOlder`). `Counted` says that there are no more events, parsed or queued, than
frames.

`FramesAreIntact` is about the ring of 50 and a main task that runs while it is filled. What
makes it inductive is where the producer is. Every packet sent since a queued one is behind
it in the queue or was lost (`Accounted`), so that one knows how many sends ago it
was written; as long as those are fewer than `BuffersNum - 1`, it is intact, and the next
buffer to be written is known to be another one (`Fresh`); and what is filled and not yet
sent is in that next buffer (`Filled`). The
delicate step is `FillHead`, as in `uart_rx_task`: it overwrites the packet `BuffersNum` sends before its
own, whether or not its own will find room. A queued packet of the firmware therefore
survives 29 lost packets and not 30, and the one main_task is reading 28.
`FramesReadInOrder` is part of the same invariant.

`ForwardedOnce` adds that events are handled in the order of their frames (`InTurn`) and
count the symbols of their own frame (`Whole`), and that what has been parsed is settled:
it is nothing later than the bus was then (`Settled`), and its own frame, whole, if none had
come over it (`AsValid`).

**UartReceive** (`UartReceiveProofs`). `QueuedSafe`: a received packet that waits is intact
until `BuffersNum - QueueLen` packets, and one more, have met a full queue since. What
makes this inductive is `RingInv`, which packet is in which buffer of the ring (`Turn`:
the last `BuffersNum` ones, in order, and only the one being filled may differ in head
and data), and `QueueInv`: the packets handed over since a queued one are queued behind
it or have met a full queue. The delicate step is `FillHead`, which overwrites
the buffer of the packet `BuffersNum` before: if that one is still queued, the two
conditions together say that too many have met a full queue, possibly the one whose
buffer is being filled (`LateNow`). It holds for every ring, queue, checksum and
computer; reading plays no part.

Reading is what `TypeCorrect` is about: a byte that is read is one that was on the
line, in the receive buffer or on the heap (`BytesInv`), the header that is acted on is one
that was read (`HeaderRead`), and the record of what was accepted is of packets
(`RecordInv`). It assumes that a checksum fits a byte (`ChecksumAssumption`).

`BackInStep` is about what the reader is for. Its header has a start byte that nobody looks
at, so that only silence tells it where a packet begins: whatever happened before, from a
packet sent into silence on, and until the next byte is lost or the next pause is too
long, every packet is accepted once, in order, in time and as it was sent, and none is
missing when all is at rest. The invariant (`Ahead`) says that FIFO and line together hold
just the bytes from the next packet on, all of them and in order (`From`), or those behind
its header while the payload is read, with that header in the receive buffer. A read takes
the first of them and leaves the others (`Dropped`); five make a header (`HeaderAhead`), and as
many as it says make the packet, whose checksum fits and which reads as what was sent
(`PacketRead`, `PayloadAhead`), whatever function the checksum is. A loss or a timeout in
step disturbs the packet ahead or a later one (`OutOfStep`).

Four theorems are about the times in between, when bytes are lost and the reader may be
anywhere. `ReadingInv` says what there is to read (`Unread`: what was taken for a header,
the FIFO and the line): bytes of packets that were sent, each at most once, in their
order, whole packets but for those a loss or a pause has disturbed; and what has
been accepted lies before. From this follow, whatever the checksum is, that packets are
accepted in order and in step none twice (`AcceptedInOrder`), and that what is accepted in
step has identifier and size of a packet that was sent, and is that packet if it came in
time with no byte lost (`RequestsAreAlwaysGenuine`). The rest depends on the
checksum. `InTimeIsSent` and `LateIsAlwaysARepeat` reduce it to the two conditions of
section 3, which mention no reader, timeout, ring or queue: only packets, which bytes of
them are missing, from which one on they are read, and, for repeats, which values a
payload may be completed with. What is needed for that is that
no more bytes are missing than were lost (`FewMissing`; a byte that a timeout throws away
is not missing, it is before what is unread), so that what is read is one of the `Readings`
the condition speaks of, and, for a late payload, that what is left in the receive buffer
is of no later packet than what is read next (`LeftInv`). The conditions are no way to
assume the property: they are about finitely many sequences of bytes, TLC evaluates them
on every run, and they do not hold for every number of lost bytes (section 3).

**TssTask** (`TssTaskProofs`). `TypeCorrect` needs two facts beside the types: `tss_task` is
in the middle of an access only if there is one, and a deep sleep that has begun is within
the bound. `MailboxesCatchUp` is about a mailbox that may hold anything while a pointer
is queued. The invariant says of a packet that was changed since the boot: it is
`Pending` (queued, without room, or being waited with) as long as `tss_start` is not
over (`StartBeforeAll`), so that the clearing of the memory spoils nothing; if it is
not pending while it is being copied, the bytes copied so far are its last ones
(`CopySoFar`); and if it is neither, its mailbox is as it is (`CopyDone`). A change in the
middle of a copy makes the packet pending again.

`PacketsInOnePiece`, an action property of the chip, rests on who holds the bus: the sleep
never comes in the middle of an access (`BusInv`). Then, unless there was a race, in a copy
the mailbox has the header of the packet as it is, and otherwise its header and footer
are of one packet (`PieceInv`). `NothingFromBefore`: nothing in RAM is from before the last
sleep (`SharedNew`), and by the time the chip is active again its memory has been
cleared, so that nothing in a mailbox is either (`MailNew`, `BootInv`).

**VanDecode** (`VanDecodeProofs`). Of the helpers: rounding gives the number of slices for
every duration less than half a slice off (`RoundingTolerance`), `bcd_to_dec` undoes
`dec_to_bcd` (`BcdRoundTrip`), and results are bytes and identifiers of 12 bits. Of
the decoder: from every state its ten slices make the byte that was sent
(`TenSlicesAreTheByte`), and no duration leads it out of its states (`DecoderStaysInByte`).
`TypeCorrect` shows that the array of `van_parse_bytes` is long enough: its length is looked
at before every second level only, so the invariant (`ArrayInv`) says which level is next.

`FramesAreReceived` is the theorem the decoder is for: on a bus that is not disturbed,
whatever its frames, their number and lengths, and whatever the RMT peripheral
measures within the tolerance, the frames that have passed become packets byte by byte
and in order, and nothing else does. `FrameInv` says where receiver and line are: between
two receptions the line is in a gap and the frames before it are packets
(`BetweenFrames`); while one is parsed, its symbols are a whole frame's (`FrameSymbols`),
and before each of them the array and the decoder are as far in the frame as the
symbols before it are long (`Decoded`). That a reception is one frame and not a part of
one (`FrameReceived`) is because in a frame no level lasts for more than ten slices, which
is what the stuffing is for, while a gap does. It holds for every `Crc15`, since sender
and receiver compute the same one.

Of a disturbed bus, `EveryBusReadsAsExact` says that what has been decoded is what would
be if no duration were off (`ReadingOf`): a reception has no level longer than ten slices
(`LineInv` says which part of which line it is), and up to ten are told apart however they
are off. So what can be accepted depends on the levels alone, and `AcceptedWasSent`
reduces `AcceptedIsSent` to `CrcTellsDisturbances`: every part of a disturbed line that
the RMT peripheral may receive, read so, is refused or one of the frames. That is a fact
about CRC-15 and the disturbances, without receiver, durations, or earlier receptions, and
TLC evaluates it for the roughly 8000 disturbed lines of the run (`DisturbancesAreTold` in
`MCVanDecode`).

The loop of the decoder, what is read, and the list of expected packets are recursive
functions. That they are well defined is proved here (`Recursion`), from induction over
sets of natural numbers (`Induction`), which the module derives from the
well-foundedness of inclusion among finite sets.

**Only model-checked:** liveness (`AcceptedIsWritten`, `LastFrameArrives`, `UpdatesArrive`,
`MenuCloses`, `SleepsUnlessLost`, `SilenceResynchronises`, `TripArrives`), which is beyond the
prover; what depends on how much a checksum detects, which is a fact about the contents of a
run and not about every checksum: the conditions of `AcceptedWasSent`, `InTimeIsSent` and
`LateIsAlwaysARepeat`; that the tables are the remainders; and the
three violations.

## 5. Not modelled

* The fields of the messages that nothing decides on, their units and layout.
* The ULP program and the ADC: one bit, is there power. The ULP's threshold and
  the firmware's differ, which the model does not see.
* Time: a timer may fire at any moment after it was started, a wait may end at any
  moment.
* `init_adc`, statistics, logging.
* The control of the computer's power, which the code has not: `update_ext_power_state`
  remembers that it should be off when the car is locked, but the calls that would switch
  the pins are commented out (main.c:269-270). The computer has power from the start of
  `main_task` (main.c:467) to deep sleep (main.c:259), locked or not. The thesis says
  "Isključeno" of the locked car (`src/sections/3-implementation.tex:371`), and of
  one that is just off "Ako dolazi iz gornjih stanja, isključeno" (373). There is no property
  of that power.
* Of the TSS463C driver: monitoring, aborting and freeing of channels, reading of registers,
  and the events for reset, activation, idle and sleep. Nobody sends those events
  (tss_task.c:190-221), and what they call is called by nobody else. The chip's own
  retries and its acknowledgement are its business: a sent channel is disarmed.
* Packets from the computer of more than 128 bytes (uart_task.c:177).
* Disturbances of the bus of more than two slices: CRC-15 misses one in 32768 of them.

## 6. Plan

In this order; 1 to 8 are done.

1. `RingChannel` with proofs: the shape that most hazards have.
2. `UartSend` implementing it, with proofs.
3. `MainTask` with parser, car state, menu, timers, sleep; `MainTaskProofs`.
4. `VanReceive`: interrupt, symbol buffer, 50 frames, main queue; what the shared symbol
   buffer can spoil, and how long a packet of the ring, which main_task reads on the
   other core, stays intact; with proofs.
5. `UartReceive`: header, payload and timeouts, 20 buffers, main queue, with its own
   invariant of the ring, proved.
6. `TssTask`: shared packets changed while queued or copied, sleep during a write, the
   SPI semaphore and the bus, unanswered accesses, the boot; with proofs.
7. `VanDecode`, `Checksums`, `Common`: decoder with its limits, CRC-15 and CRC-8 by
   table and by bits, BCD, rounding.
8. All safety properties of the passing runs as theorems; three of them from a condition on
   a checksum that TLC evaluates; `VanDecode` without the RMT's details in recursive operators, so that it can be
   proved about; `InStepAgain`, what `UartReceive` accepts without relying on a checksum.
9. Left: more of the TSS463C driver, if it is ever used.
