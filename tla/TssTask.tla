------------------------------- MODULE TssTask -------------------------------
(***************************************************************************)
(* What the adapter itself sends on the VAN bus.  main_task fills two      *)
(* packets, the state of the CD changer every second (main.c:574-584) and  *)
(* the reset of a trip meter on request (main.c:658-679), and queues a     *)
(* pointer to the one packet there is of each kind.  tss_task              *)
(* (tss_task.c:166-226) copies the packet byte by byte over SPI into a     *)
(* mailbox of the TSS463C, and then writes the channel, which arms it:     *)
(* the chip sends a trip packet when the bus is free, and answers with the *)
(* CD changer's when the radio asks.                                       *)
(*                                                                         *)
(* main_task has the higher priority, and writes a packet while tss_task   *)
(* may be copying it.  It also uses the chip itself, to put it to sleep    *)
(* before the deep sleep from which the firmware boots again; the chip     *)
(* keeps its memory meanwhile.  Any access to the chip may be unanswered.  *)
(*                                                                         *)
(* The contents of a packet are known by the number of the change that     *)
(* made them, which goes on from boot to boot; 0 are contents of a packet  *)
(* nobody has changed, or the zeros of the chip's memory.  Of the CD       *)
(* changer's packet the first and the last byte are told apart, the header *)
(* and its copy, the footer.                                               *)
(***************************************************************************)
EXTENDS Integers, EventQueue

CONSTANTS
    QueueLen,       \* length of the TSS queue (10, main.c:359)
    MaxChanges,     \* bound on the changes of each packet
    MaxUnanswered,  \* bound on the accesses the chip does not answer
    MaxSleeps       \* bound on deep sleeps

ASSUME QueueLenAssumption == QueueLen \in Nat \ {0}
ASSUME BoundsAssumption ==
    MaxUnanswered \in Nat /\ MaxSleeps \in Nat /\ MaxChanges \in [{"cdc", "trip"} -> Nat]

VARIABLES
    shared,         \* the packets main_task and tss_task share
    tss_queue,      \* pointers to them
    main,           \* where main_task is
    op,             \* what tss_task is about
    phase,          \* how far it is with that
    packet,         \* the packet it works on
    copied,         \* bytes it has copied of it
    chip_mode,      \* what the driver takes the chip's mode for
    tss_spi_semaphore,
    spi_bus,        \* who holds the semaphore and the bus
    chip,           \* mode, mailboxes and armed channels of the TSS463C
    on_bus,         \* the last contents the chip has sent, of each packet
    \* The remaining variables record what happened.
    made,           \* changes of each packet so far
    first,          \* the first change since the boot
    missed,         \* packets whose last event found no room
    unwritten,      \* packets whose last change of the mailbox was not answered
    raced,          \* the CD changer's packet changed while it was copied into the mailbox
    sleepless,      \* the chip did not take the command to sleep
    unanswered,     \* accesses that were not answered
    sleeps          \* deep sleeps

mainVars == <<shared, made, missed>>
taskVars == <<op, phase, packet, copied>>
lockVars == <<tss_spi_semaphore, spi_bus>>
chipVars == <<chip, on_bus>>
recordVars == <<unwritten, sleepless, unanswered>>
bootVars == <<first, sleeps>>
vars == <<mainVars, tss_queue, main, taskVars, chip_mode, lockVars, chipVars,
          recordVars, raced, bootVars>>

Packets == {"cdc", "trip"}

\* The bytes that are told apart: header and footer, or the meter.
Size(p) == IF p = "cdc" THEN 2 ELSE 1
Blank == [p \in Packets |-> [i \in 1 .. Size(p) |-> 0]]

\* What tss_start does, in this order (tss463c.c:627-720), and tss_send_frame.
StartOps == {"motorolla", "disable_cdc", "disable_trip", "configure", "zero", "activate"}
SendOps == {"data", "channel"}
Ops == StartOps \union SendOps

\* The accesses through tss_register_set, which looks at chip_mode first.
LooksAtMode == {"configure", "activate"}

Init ==
    /\ shared = [p \in Packets |-> 0]
    /\ tss_queue = <<>>
    /\ main = "run"
    /\ op = "motorolla" /\ phase = "start" /\ packet = "cdc" /\ copied = 0
    /\ chip_mode = "idle"
    /\ tss_spi_semaphore = "free" /\ spi_bus = "free"
    /\ chip = [mode |-> "idle", mail |-> Blank, armed |-> [p \in Packets |-> FALSE]]
    /\ on_bus = Blank
    /\ made = [p \in Packets |-> 0]
    /\ first = [p \in Packets |-> 1]
    /\ missed = {} /\ unwritten = {}
    /\ raced = FALSE /\ sleepless = FALSE
    /\ unanswered = 0 /\ sleeps = 0

----------------------------------------------------------------------------
(* main_task *)

\* Header and footer are copied one after the other.
InMidCopy == op = "data" /\ phase = "transfer" /\ packet = "cdc" /\ copied = 1

\* The packet's contents become those of the next change.
Change(p) ==
    /\ made[p] < MaxChanges[p]
    /\ made' = [made EXCEPT ![p] = @ + 1]
    /\ shared' = [shared EXCEPT ![p] = made[p] + 1]
    /\ raced' = (raced \/ (p = "cdc" /\ InMidCopy))

\* A mutant: a packet is not queued behind another one.
QueuedIfEmpty(p) ==
    /\ tss_queue' = IF tss_queue = <<>> THEN <<p>> ELSE tss_queue
    /\ missed' = missed \ {p}

\* The pointer is queued, or there is no room.
Queued(p) ==
    /\ tss_queue' = SendToBack(tss_queue, p, QueueLen)
    /\ missed' = IF IsFull(tss_queue, QueueLen) THEN missed \union {p} ELSE missed \ {p}

\* One second has passed: header and footer change, and the packet is queued.
Tick ==
    /\ main = "run"
    /\ Change("cdc")
    /\ IF IsFull(tss_queue, QueueLen)
       THEN main' = "wait" /\ UNCHANGED <<tss_queue, missed>>
       ELSE Queued("cdc") /\ UNCHANGED main
    /\ UNCHANGED <<taskVars, chip_mode, lockVars, chipVars, recordVars, bootVars>>

\* There is room within 100 ms, or not (main.c:582).
WaitOver ==
    /\ main = "wait"
    /\ main' = "run"
    /\ Queued("cdc")
    /\ UNCHANGED <<shared, made, taskVars, chip_mode, lockVars, chipVars, recordVars, raced,
                   bootVars>>

\* The computer asks for the reset of a trip meter.
TripReset ==
    /\ main = "run"
    /\ Change("trip")
    /\ Queued("trip")
    /\ UNCHANGED <<main, taskVars, chip_mode, lockVars, chipVars, recordVars, bootVars>>

\* go_to_sleep calls tss_sleep, and that tss_register_set, unless the mode is sleep.
GoToSleep ==
    /\ main = "run"
    /\ sleeps < MaxSleeps
    /\ main' = IF chip_mode = "sleep" THEN "asleep" ELSE "sleepTake"
    /\ UNCHANGED <<mainVars, tss_queue, taskVars, chip_mode, lockVars, chipVars, recordVars, raced,
                   bootVars>>

SleepTakes ==
    /\ main = "sleepTake"
    /\ tss_spi_semaphore = "free"
    /\ tss_spi_semaphore' = "main"
    /\ main' = "sleepBus"
    /\ UNCHANGED <<mainVars, tss_queue, taskVars, chip_mode, spi_bus, chipVars, recordVars, raced,
                   bootVars>>

SleepAcquires ==
    /\ main = "sleepBus"
    /\ spi_bus = "free"
    /\ spi_bus' = "main"
    /\ main' = "sleepCommand"
    /\ UNCHANGED <<mainVars, tss_queue, taskVars, chip_mode, tss_spi_semaphore, chipVars,
                   recordVars, raced, bootVars>>

\* The command, and from there without waiting into deep sleep: whatever tss_task was
\* about is not gone on with.  Whether the chip took the command is not looked at.
FallsAsleep(answered) ==
    /\ main = "sleepCommand"
    /\ main' = "asleep"
    /\ tss_spi_semaphore' = "free" /\ spi_bus' = "free"
    /\ chip_mode' = IF answered THEN "sleep" ELSE chip_mode
    /\ chip' = IF answered THEN [chip EXCEPT !.mode = "sleep"] ELSE chip
    /\ sleepless' = ~answered
    /\ UNCHANGED <<mainVars, tss_queue, taskVars, on_bus, unwritten, raced, bootVars>>

SleepCommand ==
    \/ FallsAsleep(TRUE) /\ UNCHANGED unanswered
    \/ /\ unanswered < MaxUnanswered
       /\ unanswered' = unanswered + 1
       /\ FallsAsleep(FALSE)

\* The boot: everything but the chip starts anew.
Wake ==
    /\ main = "asleep"
    /\ main' = "run"
    /\ sleeps' = sleeps + 1
    /\ shared' = [p \in Packets |-> 0]
    /\ first' = [p \in Packets |-> made[p] + 1]
    /\ tss_queue' = <<>>
    /\ op' = "motorolla" /\ phase' = "start" /\ packet' = "cdc" /\ copied' = 0
    /\ chip_mode' = "idle"
    /\ missed' = {} /\ unwritten' = {}
    /\ tss_spi_semaphore' = "free" /\ spi_bus' = "free"
    /\ UNCHANGED <<made, chipVars, raced, sleepless, unanswered>>

----------------------------------------------------------------------------
(* tss_task: one access to the chip after the other *)

\* Mutants: the memory is not cleared; the channel is not written.
NextOpWithoutZero(answered) ==
    CASE op = "motorolla" -> "disable_cdc"
      [] op = "disable_cdc" -> "disable_trip"
      [] op = "disable_trip" -> "configure"
      [] op = "configure" -> IF answered THEN "activate" ELSE "receive"
      [] op = "data" -> "channel"
      [] op \in {"activate", "channel"} -> "receive"
NextOpWithoutChannel(answered) ==
    CASE op = "motorolla" -> "disable_cdc"
      [] op = "disable_cdc" -> "disable_trip"
      [] op = "disable_trip" -> "configure"
      [] op = "configure" -> IF answered THEN "zero" ELSE "receive"
      [] op = "zero" -> IF answered THEN "activate" ELSE "receive"
      [] op \in {"activate", "data"} -> "receive"

\* What comes after an access, answered or not.  A failure to reset the chip or to
\* disable a channel is ignored; the later ones end tss_start, and tss_task goes on
\* all the same.  The channel is written whether the data was or not.
NextOp(answered) ==
    CASE op = "motorolla" -> "disable_cdc"
      [] op = "disable_cdc" -> "disable_trip"
      [] op = "disable_trip" -> "configure"
      [] op = "configure" -> IF answered THEN "zero" ELSE "receive"
      [] op = "zero" -> IF answered THEN "activate" ELSE "receive"
      [] op = "data" -> "channel"
      [] op \in {"activate", "channel"} -> "receive"

\* main_task is not in deep sleep, and nothing of the firmware runs that is.
Awake == main # "asleep"

\* xQueueReceive; the only event anyone sends is MIVE_EVENT_TSS_WRITE_FRAME.
ReceiveEvent ==
    /\ Awake
    /\ op = "receive"
    /\ tss_queue # <<>>
    /\ packet' = Head(tss_queue)
    /\ tss_queue' = Tail(tss_queue)
    /\ op' = "data" /\ phase' = "start"
    /\ UNCHANGED <<mainVars, main, copied, chip_mode, lockVars, chipVars, recordVars, raced,
                   bootVars>>

\* All but tss_motorolla_mode take the semaphore first.  tss_register_set returns
\* before that in sleep mode, and tss_start with it.  (It never comes to that: the mode
\* is sleep only from the command on, and everything stops there.)
TakeSemaphore ==
    /\ Awake
    /\ op \in Ops \ {"motorolla"} /\ phase = "start"
    /\ IF op \in LooksAtMode /\ chip_mode = "sleep"
       THEN op' = "receive" /\ UNCHANGED <<phase, tss_spi_semaphore>>
       ELSE /\ tss_spi_semaphore = "free"
            /\ tss_spi_semaphore' = "tss"
            /\ phase' = "bus"
            /\ UNCHANGED op
    /\ UNCHANGED <<mainVars, tss_queue, main, packet, copied, chip_mode, spi_bus, chipVars,
                   recordVars, raced, bootVars>>

\* Mutants: the count of copied bytes is not reset; one byte too many is copied.
AcquireBusKeepsCount ==
    /\ Awake
    /\ phase = IF op = "motorolla" THEN "start" ELSE "bus"
    /\ op \in Ops
    /\ spi_bus = "free"
    /\ spi_bus' = "tss"
    /\ phase' = "transfer"
    /\ UNCHANGED <<mainVars, tss_queue, main, op, packet, copied, chip_mode, tss_spi_semaphore,
                   chipVars, recordVars, raced, bootVars>>
CopiesMore(n, p) == n <= Size(p)

\* The access begins; without the semaphore tss_motorolla_mode may use the bus between
\* two accesses of others, but not during one.
AcquireBus ==
    /\ Awake
    /\ phase = IF op = "motorolla" THEN "start" ELSE "bus"
    /\ op \in Ops
    /\ spi_bus = "free"
    /\ spi_bus' = "tss"
    /\ phase' = "transfer" /\ copied' = 0
    /\ UNCHANGED <<mainVars, tss_queue, main, op, packet, chip_mode, tss_spi_semaphore, chipVars,
                   recordVars, raced, bootVars>>

\* The access is over: bus and semaphore are given back.
EndAccess(answered) ==
    /\ Awake
    /\ phase = "transfer"
    /\ spi_bus' = "free"
    /\ tss_spi_semaphore' = IF op = "motorolla" THEN tss_spi_semaphore ELSE "free"
    /\ op' = NextOp(answered)
    /\ phase' = "start"
    /\ UNCHANGED <<mainVars, tss_queue, main, packet, copied, on_bus, bootVars>>

\* What an access that is answered does to the chip; "data" is below.
Effect(c) ==
    CASE op = "motorolla" -> [c EXCEPT !.mode = "idle"]
      [] op = "disable_cdc" -> [c EXCEPT !.armed["cdc"] = FALSE]
      [] op = "disable_trip" -> [c EXCEPT !.armed["trip"] = FALSE]
      [] op = "configure" -> c
      [] op = "zero" -> [c EXCEPT !.mail = Blank]
      [] op = "activate" -> [c EXCEPT !.mode = "active"]
      [] op = "channel" -> [c EXCEPT !.armed[packet] = TRUE]

\* Any access but the copying of data.
Access ==
    /\ op # "data"
    /\ EndAccess(TRUE)
    /\ chip' = Effect(chip)
    /\ chip_mode' = CASE op = "motorolla" -> "idle" [] op = "activate" -> "active"
                      [] OTHER -> chip_mode
    /\ sleepless' = (sleepless /\ op # "motorolla")
    /\ UNCHANGED <<unwritten, unanswered, raced>>

\* There is more to copy.
Copies(n, p) == n < Size(p)

\* The loop of tss_registers_set: the next byte goes from the packet to the mailbox.
CopyByte ==
    /\ Awake
    /\ op = "data" /\ phase = "transfer"
    /\ Copies(copied, packet)
    /\ copied' = copied + 1
    /\ chip' = [chip EXCEPT !.mail[packet][copied + 1] = shared[packet]]
    /\ raced' = (raced /\ ~(packet = "cdc" /\ copied = 0))
    /\ UNCHANGED <<mainVars, tss_queue, main, op, phase, packet, chip_mode, lockVars, on_bus,
                   recordVars, bootVars>>

CopyEnds ==
    /\ op = "data"
    /\ ~Copies(copied, packet)
    /\ EndAccess(TRUE)
    /\ unwritten' = unwritten \ {packet}
    /\ UNCHANGED <<chip, chip_mode, sleepless, unanswered, raced>>

\* The chip does not answer the address or the command; nothing is written.  Only
\* tss_motorolla_mode sets the mode as if it had been (tss463c.c:170).
NoAnswer ==
    /\ unanswered < MaxUnanswered
    /\ unanswered' = unanswered + 1
    /\ op = "data" => copied = 0
    /\ EndAccess(FALSE)
    /\ chip_mode' = IF op = "motorolla" THEN "idle" ELSE chip_mode
    /\ unwritten' = IF op = "data" THEN unwritten \union {packet} ELSE unwritten
    /\ UNCHANGED <<chip, sleepless, raced>>

TssTaskRuns ==
    ReceiveEvent \/ TakeSemaphore \/ AcquireBus
        \/ Access \/ CopyByte \/ CopyEnds \/ NoAnswer

----------------------------------------------------------------------------
(* The chip *)

\* An active chip sends what an armed channel's mailbox holds, once.
Sends(p) ==
    /\ chip.mode = "active" /\ chip.armed[p]
    /\ on_bus' = [on_bus EXCEPT ![p] = chip.mail[p]]
    /\ chip' = [chip EXCEPT !.armed[p] = FALSE]
    /\ UNCHANGED <<mainVars, tss_queue, main, taskVars, chip_mode, lockVars, recordVars, raced,
                   bootVars>>

ToSleep == SleepTakes \/ SleepAcquires \/ SleepCommand

Next ==
    \/ Tick \/ WaitOver \/ TripReset
    \/ GoToSleep \/ ToSleep \/ Wake
    \/ TssTaskRuns
    \/ \E p \in Packets : Sends(p)

\* tss_task has the lowest priority of its core, but the others wait in between, and
\* main_task waits for tss_task no longer than for the access it is about.  The bus is
\* free from time to time, so that the chip can send.  The radio need not ask.
Spec ==
    Init /\ [][Next]_vars
         /\ WF_vars(TssTaskRuns) /\ WF_vars(WaitOver) /\ WF_vars(ToSleep)
         /\ WF_vars(Sends("trip"))

----------------------------------------------------------------------------
(* Properties *)

Contents ==
    {c \in [Packets -> [1 .. 1 -> Nat] \union [1 .. 2 -> Nat]] :
        \A p \in Packets : c[p] \in [1 .. Size(p) -> Nat]}

\* Every variable has its type.
TypeOK ==
    /\ shared \in [Packets -> Nat]
    /\ tss_queue \in Seq(Packets) /\ Len(tss_queue) <= QueueLen
    /\ main \in {"run", "wait", "sleepTake", "sleepBus", "sleepCommand", "asleep"}
    /\ op \in Ops \union {"receive"}
    /\ phase \in {"start", "bus", "transfer"}
    /\ packet \in Packets
    /\ copied \in 0 .. 2
    /\ chip_mode \in {"idle", "active", "sleep"}
    /\ tss_spi_semaphore \in {"free", "tss", "main"} /\ spi_bus \in {"free", "tss", "main"}
    /\ chip \in [mode : {"idle", "active", "sleep"}, mail : Contents,
                 armed : [Packets -> BOOLEAN]]
    /\ on_bus \in Contents
    /\ made \in [Packets -> Nat] /\ first \in [Packets -> Nat]
    /\ missed \subseteq Packets /\ unwritten \subseteq Packets
    /\ raced \in BOOLEAN /\ sleepless \in BOOLEAN
    /\ unanswered \in 0 .. MaxUnanswered /\ sleeps \in 0 .. MaxSleeps

\* "uint8_t header; // 0x80 to 0x87. Same as footer" (van_cdc_emulator_structs.h): the
\* radio sees a header with another footer only if the packet changed while tss_task
\* copied it, or if the radio asked while it was being copied, and the packet is
\* never left in pieces otherwise (main.c:577-580, tss463c.c:376-382).
HeaderIsFooter ==
    [][on_bus'["cdc"] # on_bus["cdc"]
        => on_bus'["cdc"][1] = on_bus'["cdc"][2] \/ raced \/ InMidCopy]_vars

\* Although a packet changes while its pointer is queued or while it is copied, the
\* mailbox has its last contents once no pointer to it is queued and tss_task waits,
\* unless its last event was lost or its last access unanswered (main.c:577-582,
\* 661-675, tss_task.c:188-195).
CaughtUp ==
    \A p \in Packets :
        /\ main # "wait" /\ op = "receive"
        /\ \A i \in 1 .. Len(tss_queue) : tss_queue[i] # p
        /\ made[p] >= first[p]
        /\ p \notin missed \union unwritten
        => chip.mail[p] = [i \in 1 .. Size(p) |-> shared[p]]

\* The chip sends nothing while the firmware sleeps, and nothing from before the sleep
\* after it, unless it did not take the command to sleep, which go_to_sleep does not
\* look at (main.c:257, tss463c.c:227-241, 627-720).
OnlyThisBoot ==
    [][\A p \in Packets :
        on_bus'[p] # on_bus[p] =>
            \/ sleepless
            \/ /\ Awake
               /\ \A i \in 1 .. Size(p) : on_bus'[p][i] = 0 \/ on_bus'[p][i] >= first[p]]_vars

\* A trip reset that is asked for is sent, it or a later one, unless its event found no
\* room, the device went to sleep, or the chip did not answer (main.c:658-679).
TripArrives ==
    \A n \in 1 .. MaxChanges["trip"] :
        (made["trip"] = n /\ first["trip"] <= n)
            ~> \/ on_bus["trip"][1] >= n
               \/ "trip" \in missed \/ main = "asleep" \/ unanswered > 0
=============================================================================
