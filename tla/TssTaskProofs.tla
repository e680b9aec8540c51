---------------------------- MODULE TssTaskProofs ----------------------------
(***************************************************************************)
(* Proofs about TssTask, for every length of the queue and every number of *)
(* changes, of accesses that are not answered and of deep sleeps: the type *)
(* invariant, that the mailboxes catch up with the packets, that the chip  *)
(* sends the header and footer of one change unless they were raced for, and*)
(* that it sends nothing from before a sleep.                              *)
(***************************************************************************)
EXTENDS TssTask, TLAPS

----------------------------------------------------------------------------
(* Sequences *)

LEMMA AppendProperties ==
    ASSUME NEW S, NEW s \in Seq(S), NEW e \in S
    PROVE  /\ Append(s, e) \in Seq(S)
           /\ Len(Append(s, e)) = Len(s) + 1
           /\ \A k \in 1 .. Len(s) : Append(s, e)[k] = s[k]
           /\ Append(s, e)[Len(s) + 1] = e
OBVIOUS

LEMMA TailProperties ==
    ASSUME NEW S, NEW s \in Seq(S), s # <<>>
    PROVE  /\ Head(s) \in S /\ Head(s) = s[1]
           /\ Tail(s) \in Seq(S)
           /\ Len(Tail(s)) = Len(s) - 1 /\ Len(s) \in Nat \ {0}
           /\ \A k \in 1 .. Len(s) - 1 : Tail(s)[k] = s[k + 1]
OBVIOUS

\* A pointer to p is in the queue.
In(queue, p) == \E k \in 1 .. Len(queue) : queue[k] = p

\* What is sent is in the queue behind what was there, if there is room.
LEMMA SendProperties ==
    ASSUME NEW queue \in Seq(Packets), Len(queue) <= QueueLen, NEW p \in Packets
    PROVE  /\ SendToBack(queue, p, QueueLen) \in Seq(Packets)
           /\ Len(SendToBack(queue, p, QueueLen)) <= QueueLen
           /\ ~IsFull(queue, QueueLen) => In(SendToBack(queue, p, QueueLen), p)
           /\ \A q \in Packets : In(queue, q) => In(SendToBack(queue, p, QueueLen), q)
           /\ \A q \in Packets : q # p /\ In(SendToBack(queue, p, QueueLen), q) => In(queue, q)
<1>1. CASE IsFull(queue, QueueLen)
  BY <1>1 DEF SendToBack
<1>2. CASE ~IsFull(queue, QueueLen)
  <2>1. Len(queue) \in Nat /\ Len(queue) + 1 <= QueueLen
    BY <1>2, QueueLenAssumption DEF IsFull
  <2>2. PICK sent : sent = Append(queue, p)
    OBVIOUS
  <2>3. SendToBack(queue, p, QueueLen) = sent
    BY <1>2, <2>2 DEF SendToBack
  <2>4. /\ sent \in Seq(Packets) /\ Len(sent) = Len(queue) + 1
        /\ \A k \in 1 .. Len(queue) : sent[k] = queue[k]
        /\ sent[Len(queue) + 1] = p
    BY <2>2, AppendProperties
  <2>5. In(sent, p)
    BY <2>1, <2>4 DEF In
  <2>6. \A q \in Packets : In(queue, q) => In(sent, q)
    BY <2>1, <2>4 DEF In
  <2>7. \A q \in Packets : q # p /\ In(sent, q) => In(queue, q)
    <3> SUFFICES ASSUME NEW q \in Packets, q # p, NEW k \in 1 .. Len(queue) + 1, sent[k] = q
                 PROVE  In(queue, q)
      BY <2>4 DEF In
    <3>1. k \in 1 .. Len(queue)
      BY <2>1, <2>4
    <3> QED BY <2>4, <3>1 DEF In
  <2> QED BY <2>1, <2>3, <2>4, <2>5, <2>6, <2>7
<1> QED BY <1>1, <1>2

\* Taking the first pointer leaves those to other packets.
LEMMA ReceiveProperties ==
    ASSUME NEW queue \in Seq(Packets), queue # <<>>, Len(queue) <= QueueLen
    PROVE  /\ Head(queue) \in Packets
           /\ Tail(queue) \in Seq(Packets) /\ Len(Tail(queue)) <= QueueLen
           /\ \A q \in Packets : q # Head(queue) /\ In(queue, q) => In(Tail(queue), q)
<1>1. /\ Head(queue) \in Packets /\ Head(queue) = queue[1]
      /\ Tail(queue) \in Seq(Packets)
      /\ Len(Tail(queue)) = Len(queue) - 1 /\ Len(queue) \in Nat \ {0}
      /\ \A k \in 1 .. Len(queue) - 1 : Tail(queue)[k] = queue[k + 1]
  BY TailProperties
<1>2. Len(Tail(queue)) <= QueueLen
  BY <1>1, QueueLenAssumption
<1>3. ASSUME NEW q \in Packets, q # Head(queue), In(queue, q)
      PROVE  In(Tail(queue), q)
  <2>1. PICK k \in 1 .. Len(queue) : queue[k] = q
    BY <1>3 DEF In
  <2>2. k # 1 /\ k - 1 \in 1 .. Len(queue) - 1
    BY <1>1, <1>3, <2>1
  <2>3. Tail(queue)[k - 1] = queue[k]
    BY <1>1, <2>2
  <2> QED BY <1>1, <2>1, <2>2, <2>3 DEF In
<1> QED BY <1>1, <1>2, <1>3

----------------------------------------------------------------------------
(* Types *)

USE DEF Packets

LEMMA ContentsProperties ==
    ASSUME NEW c \in Contents, NEW p \in Packets
    PROVE  /\ c[p] \in [1 .. Size(p) -> Nat]
           /\ \A d \in [1 .. Size(p) -> Nat] : [c EXCEPT ![p] = d] \in Contents
<1>1. c \in [Packets -> [1 .. 1 -> Nat] \union [1 .. 2 -> Nat]]
  BY DEF Contents
<1>2. \A q \in Packets : c[q] \in [1 .. Size(q) -> Nat]
  BY DEF Contents
<1>3. ASSUME NEW d \in [1 .. Size(p) -> Nat]
      PROVE  [c EXCEPT ![p] = d] \in Contents
  <2>1. d \in [1 .. 1 -> Nat] \union [1 .. 2 -> Nat]
    BY DEF Size
  <2>2. PICK e : e = [c EXCEPT ![p] = d]
    OBVIOUS
  <2>3. e \in [Packets -> [1 .. 1 -> Nat] \union [1 .. 2 -> Nat]]
    BY <1>1, <2>1, <2>2
  <2>4. \A q \in Packets : e[q] \in [1 .. Size(q) -> Nat]
    BY <1>1, <1>2, <2>2
  <2> QED BY <2>2, <2>3, <2>4 DEF Contents
<1> QED BY <1>2, <1>3

LEMMA BlankIsContents == Blank \in Contents
<1>1. \A p \in Packets : Blank[p] \in [1 .. Size(p) -> Nat]
  BY DEF Blank
<1>2. Blank \in [Packets -> [1 .. 1 -> Nat] \union [1 .. 2 -> Nat]]
  BY DEF Blank, Size
<1> QED BY <1>1, <1>2 DEF Contents

\* What comes after an access is an access, or waiting for an event.
LEMMA NextOpType ==
    ASSUME op \in Ops, NEW answered \in BOOLEAN
    PROVE  /\ NextOp(answered) \in Ops \union {"receive"}
           /\ NextOp(answered) \in StartOps => op \in StartOps
           /\ NextOp(answered) # "data"
BY DEF NextOp, Ops, StartOps, SendOps

\* tss_task is in the middle of an access only if there is one.
InAccess == phase # "start" => op \in Ops

\* A deep sleep that has begun is one more.
OneMoreSleep == main \notin {"run", "wait"} => sleeps < MaxSleeps

TypeInv == TypeOK /\ InAccess /\ OneMoreSleep

LEMMA TypeInit == Init => TypeInv
<1> SUFFICES ASSUME Init PROVE TypeInv
  OBVIOUS
<1>1. tss_queue \in Seq(Packets) /\ Len(tss_queue) <= QueueLen
  BY QueueLenAssumption DEF Init
<1>2. chip \in [mode : {"idle", "active", "sleep"}, mail : Contents, armed : [Packets -> BOOLEAN]]
  BY BlankIsContents DEF Init
<1>3. unanswered \in 0 .. MaxUnanswered /\ sleeps \in 0 .. MaxSleeps
  BY BoundsAssumption DEF Init
<1>4. /\ op \in Ops \union {"receive"}
      /\ on_bus \in Contents
  BY BlankIsContents DEF Init, Ops, StartOps
<1>5. /\ shared \in [Packets -> Nat] /\ made \in [Packets -> Nat] /\ first \in [Packets -> Nat]
  BY DEF Init
<1>6. packet \in Packets /\ copied \in 0 .. 2 /\ missed \subseteq Packets /\ unwritten \subseteq Packets
  BY DEF Init
<1>7. raced \in BOOLEAN /\ sleepless \in BOOLEAN
  BY DEF Init
<1>8. /\ main \in {"run", "wait", "sleepTake", "sleepBus", "sleepCommand", "asleep"}
      /\ phase \in {"start", "bus", "transfer"}
      /\ chip_mode \in {"idle", "active", "sleep"}
      /\ tss_spi_semaphore \in {"free", "tss", "main"} /\ spi_bus \in {"free", "tss", "main"}
  BY DEF Init
<1> QED BY <1>1, <1>2, <1>3, <1>4, <1>5, <1>6, <1>7, <1>8
   DEF TypeInv, TypeOK, InAccess, OneMoreSleep, Init

LEMMA TypeStep == TypeInv /\ [Next]_vars => TypeInv'
<1> SUFFICES ASSUME TypeInv, [Next]_vars PROVE TypeInv'
  OBVIOUS
<1> USE DEF TypeInv, TypeOK, InAccess, OneMoreSleep
<1>0. MaxChanges \in [Packets -> Nat]
  BY BoundsAssumption
<1>1. ASSUME NEW p \in Packets, Change(p)
      PROVE  made' \in [Packets -> Nat] /\ shared' \in [Packets -> Nat] /\ raced' \in BOOLEAN
  <2>1. made[p] + 1 \in Nat
    OBVIOUS
  <2> QED BY <1>1, <2>1 DEF Change
<1>2. ASSUME NEW p \in Packets, Queued(p)
      PROVE  /\ tss_queue' \in Seq(Packets) /\ Len(tss_queue') <= QueueLen
             /\ missed' \subseteq Packets
  BY <1>2, SendProperties DEF Queued
<1>3. CASE Tick
  <2>1. /\ tss_queue' \in Seq(Packets) /\ Len(tss_queue') <= QueueLen
        /\ missed' \subseteq Packets
    BY <1>2, <1>3 DEF Tick
  <2>2. made' \in [Packets -> Nat] /\ shared' \in [Packets -> Nat] /\ raced' \in BOOLEAN
    BY <1>1, <1>3 DEF Tick
  <2> QED BY <1>3, <2>1, <2>2 DEF Tick, taskVars, lockVars, chipVars, recordVars, bootVars
<1>4. CASE WaitOver
  BY <1>2, <1>4 DEF WaitOver, taskVars, lockVars, chipVars, recordVars, bootVars
<1>5. CASE TripReset
  <2>1. /\ tss_queue' \in Seq(Packets) /\ Len(tss_queue') <= QueueLen
        /\ missed' \subseteq Packets
    BY <1>2, <1>5 DEF TripReset
  <2>2. made' \in [Packets -> Nat] /\ shared' \in [Packets -> Nat] /\ raced' \in BOOLEAN
    BY <1>1, <1>5 DEF TripReset
  <2> QED BY <1>5, <2>1, <2>2 DEF TripReset, taskVars, lockVars, chipVars, recordVars, bootVars
<1>6. CASE GoToSleep
  BY <1>6 DEF GoToSleep, mainVars, taskVars, lockVars, chipVars, recordVars, bootVars
<1>7. CASE SleepTakes
  BY <1>7 DEF SleepTakes, mainVars, taskVars, chipVars, recordVars, bootVars
<1>8. CASE SleepAcquires
  BY <1>8 DEF SleepAcquires, mainVars, taskVars, chipVars, recordVars, bootVars
<1>9. ASSUME NEW answered \in BOOLEAN, FallsAsleep(answered), unanswered' \in 0 .. MaxUnanswered
      PROVE  TypeInv'
  <2>1. chip' \in [mode : {"idle", "active", "sleep"}, mail : Contents,
                   armed : [Packets -> BOOLEAN]]
    BY <1>9 DEF FallsAsleep
  <2> QED BY <1>9, <2>1 DEF FallsAsleep, mainVars, taskVars, bootVars
<1>10. CASE SleepCommand
  <2>1. CASE FallsAsleep(TRUE) /\ UNCHANGED unanswered
    BY <1>9, <2>1
  <2>2. CASE unanswered < MaxUnanswered /\ unanswered' = unanswered + 1 /\ FallsAsleep(FALSE)
    <3>1. unanswered' \in 0 .. MaxUnanswered
      BY <2>2, BoundsAssumption
    <3> QED BY <1>9, <2>2, <3>1
  <2> QED BY <1>10, <2>1, <2>2 DEF SleepCommand
<1>11. CASE ReceiveEvent
  <2>1. /\ packet' \in Packets
        /\ tss_queue' \in Seq(Packets) /\ Len(tss_queue') <= QueueLen
    BY <1>11, ReceiveProperties DEF ReceiveEvent
  <2>2. op' \in Ops \union {"receive"}
    BY <1>11 DEF ReceiveEvent, Ops, SendOps
  <2> QED BY <1>11, <2>1, <2>2 DEF ReceiveEvent, mainVars, lockVars, chipVars, recordVars, bootVars
<1>12. CASE TakeSemaphore
  BY <1>12 DEF TakeSemaphore, mainVars, chipVars, recordVars, bootVars
<1>13. CASE AcquireBus
  BY <1>13 DEF AcquireBus, mainVars, chipVars, recordVars, bootVars
<1>14. ASSUME NEW answered \in BOOLEAN, EndAccess(answered)
       PROVE  /\ op' \in Ops \union {"receive"} /\ phase' = "start"
              /\ tss_spi_semaphore' \in {"free", "tss", "main"}
              /\ spi_bus' \in {"free", "tss", "main"}
              /\ UNCHANGED <<mainVars, tss_queue, main, packet, copied, on_bus, bootVars>>
  <2>1. op \in Ops
    BY <1>14 DEF EndAccess, InAccess
  <2> QED BY <1>14, <2>1, NextOpType DEF EndAccess
<1>15. CASE Access
  <2>1. op \in Ops \ {"data"} /\ EndAccess(TRUE)
    BY <1>15 DEF Access, EndAccess, InAccess
  <2>2. Effect(chip) \in [mode : {"idle", "active", "sleep"}, mail : Contents,
                         armed : [Packets -> BOOLEAN]]
    BY <2>1, BlankIsContents DEF Effect, Ops, StartOps, SendOps
  <2>3. chip' = Effect(chip) /\ unanswered' = unanswered /\ unwritten' = unwritten /\ raced' = raced
    BY <1>15 DEF Access
  <2>4. chip_mode' \in {"idle", "active", "sleep"} /\ sleepless' \in BOOLEAN
    BY <1>15 DEF Access
  <2> QED BY <1>14, <2>1, <2>2, <2>3, <2>4 DEF mainVars, bootVars
<1>16. CASE CopyByte
  <2>1. copied' \in 0 .. 2 /\ copied + 1 \in 1 .. Size(packet)
    BY <1>16 DEF CopyByte, Copies, Size
  <2>2. PICK old : old = chip.mail[packet]
    OBVIOUS
  <2>3. old \in [1 .. Size(packet) -> Nat] /\ shared[packet] \in Nat
    BY <2>2, ContentsProperties
  <2>4. [old EXCEPT ![copied + 1] = shared[packet]] \in [1 .. Size(packet) -> Nat]
    BY <2>1, <2>3
  <2>5. [chip.mail EXCEPT ![packet] = [old EXCEPT ![copied + 1] = shared[packet]]] \in Contents
    BY <2>4, ContentsProperties
  <2>6. chip' = [chip EXCEPT !.mail =
                    [chip.mail EXCEPT ![packet] = [old EXCEPT ![copied + 1] = shared[packet]]]]
    BY <1>16, <2>2 DEF CopyByte
  <2>7. chip' \in [mode : {"idle", "active", "sleep"}, mail : Contents,
                   armed : [Packets -> BOOLEAN]]
    BY <2>5, <2>6
  <2>8. raced' \in BOOLEAN
    BY <1>16 DEF CopyByte
  <2> QED BY <1>16, <2>1, <2>7, <2>8 DEF CopyByte, mainVars, lockVars, recordVars, bootVars
<1>17. CASE CopyEnds
  BY <1>14, <1>17 DEF CopyEnds, mainVars, bootVars
<1>18. CASE NoAnswer
  <2>1. unanswered' \in 0 .. MaxUnanswered
    BY <1>18, BoundsAssumption DEF NoAnswer
  <2>2. unwritten' \subseteq Packets /\ chip_mode' \in {"idle", "active", "sleep"}
    BY <1>18 DEF NoAnswer
  <2> QED BY <1>14, <1>18, <2>1, <2>2 DEF NoAnswer, mainVars, bootVars
<1>19. CASE Wake
  <2>1. sleeps' \in 0 .. MaxSleeps
    BY <1>19, BoundsAssumption DEF Wake
  <2>2. first' \in [Packets -> Nat] /\ shared' \in [Packets -> Nat]
    BY <1>19 DEF Wake
  <2>3. tss_queue' \in Seq(Packets) /\ Len(tss_queue') <= QueueLen
    BY <1>19, QueueLenAssumption DEF Wake
  <2>4. op' \in Ops
    BY <1>19 DEF Wake, Ops, StartOps
  <2>5. /\ packet' \in Packets /\ copied' \in 0 .. 2 /\ missed' \subseteq Packets
        /\ unwritten' \subseteq Packets
    BY <1>19 DEF Wake
  <2> QED BY <1>19, <2>1, <2>2, <2>3, <2>4, <2>5 DEF Wake, chipVars
<1>20. ASSUME NEW p \in Packets, Sends(p) PROVE TypeInv'
  <2>1. chip' \in [mode : {"idle", "active", "sleep"}, mail : Contents,
                   armed : [Packets -> BOOLEAN]]
    BY <1>20 DEF Sends
  <2>2. on_bus' \in Contents
    BY <1>20, ContentsProperties DEF Sends
  <2> QED BY <1>20, <2>1, <2>2 DEF Sends, mainVars, taskVars, lockVars, recordVars, bootVars
<1>21. CASE UNCHANGED vars
  BY <1>21 DEF vars, mainVars, taskVars, lockVars, chipVars, recordVars, bootVars
<1> QED
  BY <1>3, <1>4, <1>5, <1>6, <1>7, <1>8, <1>10, <1>11, <1>12, <1>13, <1>15, <1>16, <1>17,
     <1>18, <1>19, <1>20, <1>21
     DEF Next, ToSleep, TssTaskRuns

LEMMA AlwaysTypeInv == Spec => []TypeInv
BY TypeInit, TypeStep, PTL DEF Spec

\* The variables keep their types, for every length of the queue.
THEOREM TypeCorrect == Spec => []TypeOK
<1>1. TypeInv => TypeOK
  BY DEF TypeInv
<1> QED BY <1>1, AlwaysTypeInv, PTL

----------------------------------------------------------------------------
(* The mailboxes catch up *)

\* The packet has been changed since the boot.
Changed(p) == made[p] >= first[p]

\* It will be copied again, or its last event was lost.
Pending(p) == In(tss_queue, p) \/ p \in missed \/ (p = "cdc" /\ main = "wait")

\* Its bytes in the mailbox are its last contents, the first n of them.
Written(p, n) == \A k \in 1 .. n : chip.mail[p][k] = shared[p]

\* Nothing that changed is overtaken by the start of the chip, which clears the
\* mailboxes: tss_task takes no event before it is over.
StartBeforeAll == \A p \in Packets : Changed(p) /\ op \in StartOps => Pending(p)

\* In the middle of a copy, what has been copied is from the last contents.
CopySoFar ==
    \A p \in Packets :
        Changed(p) /\ ~Pending(p) /\ op = "data" /\ packet = p /\ phase = "transfer"
            => Written(p, copied)

\* At any other time the mailbox has the last contents.
CopyDone ==
    \A p \in Packets :
        Changed(p) /\ ~Pending(p) /\ p \notin unwritten /\ ~(op = "data" /\ packet = p)
            => Written(p, Size(p))

CaughtUpInv == StartBeforeAll /\ CopySoFar /\ CopyDone

LEMMA CaughtUpInit == Init => CaughtUpInv
<1> SUFFICES ASSUME Init PROVE CaughtUpInv
  OBVIOUS
<1>1. \A p \in Packets : ~Changed(p)
  BY DEF Init, Changed
<1> QED BY <1>1 DEF CaughtUpInv, StartBeforeAll, CopySoFar, CopyDone

LEMMA CaughtUpStep == TypeInv /\ CaughtUpInv /\ [Next]_vars => CaughtUpInv'
<1> SUFFICES ASSUME TypeInv, CaughtUpInv, [Next]_vars PROVE CaughtUpInv'
  OBVIOUS
<1> USE DEF TypeInv, TypeOK
\* A packet is changed and queued, or has found no room; the other one is as it was.
<1>1. ASSUME NEW p \in Packets, NEW q \in Packets, Queued(p)
      PROVE  /\ q = p => In(tss_queue', q) \/ q \in missed'
             /\ In(tss_queue, q) => In(tss_queue', q)
             /\ q # p => (q \in missed' <=> q \in missed)
  BY <1>1, SendProperties DEF Queued
<1>2. ASSUME NEW p \in Packets, Pending(p)', UNCHANGED <<taskVars, chipVars, unwritten, first>>,
             \A q \in Packets : q # p => shared'[q] = shared[q] /\ made'[q] = made[q],
             \A q \in Packets : q # p /\ Pending(q) => Pending(q)'
      PROVE  CaughtUpInv'
  <2>1. ASSUME NEW q \in Packets, q # p, Changed(q)', op' \in StartOps PROVE Pending(q)'
    BY <1>2, <2>1 DEF CaughtUpInv, StartBeforeAll, Changed, taskVars
  <2>2. ASSUME NEW q \in Packets, q # p, Changed(q)', ~Pending(q)'
        PROVE  /\ Changed(q) /\ ~Pending(q)
               /\ \A n : Written(q, n) => Written(q, n)'
    BY <1>2, <2>2 DEF Changed, Written, chipVars
  <2>3. StartBeforeAll'
    BY <1>2, <2>1 DEF StartBeforeAll
  <2>4. CopySoFar'
    BY <1>2, <2>2 DEF CaughtUpInv, CopySoFar, taskVars
  <2>5. CopyDone'
    BY <1>2, <2>2 DEF CaughtUpInv, CopyDone, taskVars
  <2> QED BY <2>3, <2>4, <2>5 DEF CaughtUpInv
<1>3. CASE Tick
  <2>1. Pending("cdc")'
    BY <1>1, <1>3 DEF Tick, Pending
  <2>2. \A q \in Packets : q # "cdc" /\ Pending(q) => Pending(q)'
    BY <1>1, <1>3 DEF Tick, Pending
  <2>3. \A q \in Packets : q # "cdc" => shared'[q] = shared[q] /\ made'[q] = made[q]
    BY <1>3 DEF Tick, Change
  <2> QED BY <1>2, <1>3, <2>1, <2>2, <2>3 DEF Tick, recordVars, bootVars
<1>4. CASE WaitOver
  <2>1. Pending("cdc")'
    BY <1>1, <1>4 DEF WaitOver, Pending
  <2>2. \A q \in Packets : q # "cdc" /\ Pending(q) => Pending(q)'
    BY <1>1, <1>4 DEF WaitOver, Pending
  <2> QED BY <1>2, <1>4, <2>1, <2>2 DEF WaitOver, recordVars, bootVars
<1>5. CASE TripReset
  <2>1. Pending("trip")'
    BY <1>1, <1>5 DEF TripReset, Pending
  <2>2. \A q \in Packets : q # "trip" /\ Pending(q) => Pending(q)'
    BY <1>1, <1>5 DEF TripReset, Pending
  <2>3. \A q \in Packets : q # "trip" => shared'[q] = shared[q] /\ made'[q] = made[q]
    BY <1>5 DEF TripReset, Change
  <2> QED BY <1>2, <1>5, <2>1, <2>2, <2>3 DEF TripReset, recordVars, bootVars
\* What does not touch packets, queue and mailboxes.
<1>6. ASSUME mainVars' = mainVars, tss_queue' = tss_queue, bootVars' = bootVars,
             chip'.mail = chip.mail, (main' = "wait") = (main = "wait"), NEW q \in Packets
      PROVE  /\ Changed(q)' = Changed(q)
             /\ Pending(q)' = Pending(q)
             /\ \A n : Written(q, n)' = Written(q, n)
  BY <1>6 DEF mainVars, bootVars, Changed, Pending, Written
<1>7. ASSUME mainVars' = mainVars, tss_queue' = tss_queue, bootVars' = bootVars,
             unwritten' = unwritten, taskVars' = taskVars,
             chip'.mail = chip.mail, (main' = "wait") = (main = "wait")
      PROVE  CaughtUpInv'
  <2>1. op' = op /\ packet' = packet /\ copied' = copied /\ phase' = phase
    BY <1>7 DEF taskVars
  <2>2. StartBeforeAll'
    BY <1>6, <1>7, <2>1 DEF CaughtUpInv, StartBeforeAll
  <2>3. CopySoFar'
    BY <1>6, <1>7, <2>1 DEF CaughtUpInv, CopySoFar
  <2>4. CopyDone'
    BY <1>6, <1>7, <2>1 DEF CaughtUpInv, CopyDone
  <2> QED BY <2>2, <2>3, <2>4 DEF CaughtUpInv
<1>8. CASE GoToSleep
  BY <1>7, <1>8 DEF GoToSleep, chipVars, recordVars
<1>9. CASE SleepTakes
  BY <1>7, <1>9 DEF SleepTakes, chipVars, recordVars
<1>10. CASE SleepAcquires
  BY <1>7, <1>10 DEF SleepAcquires, chipVars, recordVars
<1>11. CASE SleepCommand
  <2>1. ASSUME NEW answered \in BOOLEAN, FallsAsleep(answered) PROVE CaughtUpInv'
    <3>1. chip'.mail = chip.mail
      BY <2>1 DEF FallsAsleep
    <3> QED BY <1>7, <2>1, <3>1 DEF FallsAsleep
  <2> QED BY <1>11, <2>1 DEF SleepCommand
<1>12. ASSUME NEW p \in Packets, Sends(p) PROVE CaughtUpInv'
  <2>1. chip'.mail = chip.mail
    BY <1>12 DEF Sends
  <2> QED BY <1>7, <1>12, <2>1 DEF Sends, recordVars
<1>13. CASE UNCHANGED vars
  BY <1>7, <1>13 DEF vars, recordVars, chipVars
<1>14. CASE Wake
  <2>1. \A p \in Packets : ~Changed(p)'
    BY <1>14 DEF Wake, Changed
  <2> QED BY <2>1 DEF CaughtUpInv, StartBeforeAll, CopySoFar, CopyDone
<1>15. CASE ReceiveEvent
  <2>1. ASSUME NEW q \in Packets, q # packet', Pending(q) PROVE Pending(q)'
    BY <1>15, <2>1, ReceiveProperties DEF ReceiveEvent, Pending, mainVars
  <2>2. ASSUME NEW q \in Packets, q # packet', Changed(q)', ~Pending(q)', q \notin unwritten'
        PROVE  Written(q, Size(q))'
    <3>1. Changed(q) /\ ~Pending(q) /\ q \notin unwritten /\ op # "data"
      BY <1>15, <2>1, <2>2 DEF ReceiveEvent, mainVars, bootVars, recordVars, Changed
    <3> QED BY <1>15, <3>1 DEF CaughtUpInv, CopyDone, ReceiveEvent, mainVars, chipVars, Written
  <2>3. op' = "data" /\ phase' = "start"
    BY <1>15 DEF ReceiveEvent
  <2>4. StartBeforeAll' /\ CopySoFar'
    BY <2>3 DEF StartBeforeAll, CopySoFar, StartOps
  <2>5. CopyDone'
    BY <2>2, <2>3 DEF CopyDone
  <2> QED BY <2>4, <2>5 DEF CaughtUpInv
<1>16. CASE TakeSemaphore
  <2>1. UNCHANGED <<mainVars, tss_queue, bootVars, unwritten>> /\ chip'.mail = chip.mail /\ main' = main
    BY <1>16 DEF TakeSemaphore, chipVars, recordVars
  <2>2. /\ op' = op \/ (op \in LooksAtMode /\ op' = "receive")
        /\ packet' = packet /\ copied' = copied /\ phase' # "transfer"
    BY <1>16 DEF TakeSemaphore
  <2>3. op' \in StartOps => op \in StartOps
    BY <2>2 DEF StartOps
  <2>4. op' = "data" <=> op = "data"
    BY <2>2 DEF LooksAtMode
  <2>5. StartBeforeAll'
    BY <1>6, <2>1, <2>3 DEF CaughtUpInv, StartBeforeAll
  <2>6. CopySoFar'
    BY <2>2 DEF CopySoFar
  <2>7. CopyDone'
    BY <1>6, <2>1, <2>2, <2>4 DEF CaughtUpInv, CopyDone
  <2> QED BY <2>5, <2>6, <2>7 DEF CaughtUpInv
<1>17. CASE AcquireBus
  <2>1. UNCHANGED <<mainVars, tss_queue, bootVars, unwritten>> /\ chip'.mail = chip.mail /\ main' = main
    BY <1>17 DEF AcquireBus, chipVars, recordVars
  <2>2. op' = op /\ packet' = packet /\ copied' = 0
    BY <1>17 DEF AcquireBus
  <2>3. StartBeforeAll'
    BY <1>6, <2>1, <2>2 DEF CaughtUpInv, StartBeforeAll
  <2>4. CopySoFar'
    BY <2>2 DEF CopySoFar, Written
  <2>5. CopyDone'
    BY <1>6, <2>1, <2>2 DEF CaughtUpInv, CopyDone
  <2> QED BY <2>3, <2>4, <2>5 DEF CaughtUpInv
\* An access is over.
<1>18. ASSUME NEW answered \in BOOLEAN, EndAccess(answered)
       PROVE  /\ UNCHANGED <<mainVars, tss_queue, bootVars, main, packet, copied>>
              /\ op \in Ops /\ phase = "transfer" /\ phase' = "start" /\ op' # "data"
              /\ op' \in StartOps => op \in StartOps
  BY <1>18, NextOpType DEF EndAccess, InAccess
<1>19. CASE Access
  <2>1. EndAccess(TRUE) /\ op # "data" /\ chip' = Effect(chip) /\ unwritten' = unwritten
    BY <1>19 DEF Access
  <2>2. op \in Ops /\ op' # "data" /\ phase' = "start" /\ (op' \in StartOps => op \in StartOps)
    BY <1>18, <2>1
  <2>3. UNCHANGED <<mainVars, tss_queue, bootVars, main, packet, copied>>
    BY <1>18, <2>1
  <2>4. CASE op = "zero"
    <3>1. \A p \in Packets : Changed(p) => Pending(p)
      BY <2>4 DEF CaughtUpInv, StartBeforeAll, StartOps
    <3>2. \A p \in Packets : Changed(p)' => Pending(p)'
      BY <2>3, <3>1 DEF Changed, Pending, mainVars, bootVars
    <3> QED BY <3>2 DEF CaughtUpInv, StartBeforeAll, CopySoFar, CopyDone
  <2>5. CASE op # "zero"
    <3>1. chip'.mail = chip.mail
      BY <2>1, <2>2, <2>5 DEF Effect, Ops, StartOps, SendOps
    <3>2. StartBeforeAll'
      BY <1>6, <2>2, <2>3, <3>1 DEF CaughtUpInv, StartBeforeAll
    <3>3. CopySoFar'
      BY <2>2 DEF CopySoFar
    <3>4. CopyDone'
      BY <1>6, <2>1, <2>2, <2>3, <3>1 DEF CaughtUpInv, CopyDone
    <3> QED BY <3>2, <3>3, <3>4 DEF CaughtUpInv
  <2> QED BY <2>4, <2>5
<1>20. CASE CopyByte
  <2>1. /\ op = "data" /\ phase = "transfer" /\ copied' = copied + 1
        /\ copied + 1 \in 1 .. Size(packet)
        /\ UNCHANGED <<mainVars, tss_queue, bootVars, unwritten, main, op, phase, packet>>
    BY <1>20 DEF CopyByte, Copies, Size, recordVars
  <2>2. PICK old : old = chip.mail[packet]
    OBVIOUS
  <2>3. old \in [1 .. Size(packet) -> Nat]
    BY <2>2, ContentsProperties
  <2>4. chip'.mail = [chip.mail EXCEPT ![packet] = [old EXCEPT ![copied + 1] = shared[packet]]]
    BY <1>20, <2>2 DEF CopyByte
  <2>5. chip'.mail[packet] = [old EXCEPT ![copied + 1] = shared[packet]]
    BY <2>4 DEF Contents
  <2>6. \A q \in Packets : q # packet => chip'.mail[q] = chip.mail[q]
    BY <2>4 DEF Contents
  <2>7. \A q \in Packets : (Changed(q)' <=> Changed(q)) /\ (Pending(q)' <=> Pending(q))
    BY <2>1 DEF Changed, Pending, mainVars, bootVars
  <2>8. StartBeforeAll'
    BY <2>1 DEF StartBeforeAll, StartOps
  <2>9. CopySoFar'
    <3> SUFFICES ASSUME Changed(packet)', ~Pending(packet)' PROVE Written(packet, copied)'
      BY <2>1 DEF CopySoFar
    <3>1. Written(packet, copied)
      BY <2>1, <2>7 DEF CaughtUpInv, CopySoFar
    <3>2. \A k \in 1 .. copied : old[k] = shared[packet]
      BY <2>2, <3>1 DEF Written
    <3>3. \A k \in 1 .. copied + 1 : chip'.mail[packet][k] = shared[packet]
      BY <2>1, <2>3, <2>5, <3>2
    <3> QED BY <2>1, <3>3 DEF Written, mainVars
  <2>10. CopyDone'
    <3> SUFFICES ASSUME NEW q \in Packets, q # packet, Changed(q)', ~Pending(q)', q \notin unwritten'
                 PROVE  Written(q, Size(q))'
      BY <2>1 DEF CopyDone
    <3>1. Written(q, Size(q))
      BY <2>1, <2>7 DEF CaughtUpInv, CopyDone
    <3> QED BY <2>1, <2>6, <3>1 DEF Written, mainVars
  <2> QED BY <2>8, <2>9, <2>10 DEF CaughtUpInv
<1>21. CASE CopyEnds
  <2>1. EndAccess(TRUE) /\ op = "data" /\ ~Copies(copied, packet) /\ chip' = chip
        /\ unwritten' = unwritten \ {packet}
    BY <1>21 DEF CopyEnds
  <2>2. op' # "data" /\ phase = "transfer" /\ phase' = "start" /\ op' \notin StartOps
    BY <1>18, <2>1 DEF StartOps
  <2>3. UNCHANGED <<mainVars, tss_queue, bootVars, main, packet, copied>>
    BY <1>18, <2>1
  <2>4. CopyDone'
    <3> SUFFICES ASSUME NEW q \in Packets, Changed(q)', ~Pending(q)', q \notin unwritten'
                 PROVE  Written(q, Size(q))
      BY <1>6, <2>1, <2>3 DEF CopyDone
    <3>1. Changed(q) /\ ~Pending(q)
      BY <1>6, <2>1, <2>3
    <3>2. CASE q = packet
      <4>1. Written(q, copied)
        BY <2>1, <2>2, <3>1, <3>2 DEF CaughtUpInv, CopySoFar
      <4>2. Size(q) <= copied /\ Size(q) \in Nat
        BY <2>1, <3>2 DEF Copies, Size
      <4> QED BY <4>1, <4>2 DEF Written
    <3>3. CASE q # packet
      BY <2>1, <3>1, <3>3 DEF CaughtUpInv, CopyDone
    <3> QED BY <3>2, <3>3
  <2> QED BY <2>2, <2>4 DEF CaughtUpInv, StartBeforeAll, CopySoFar
<1>22. CASE NoAnswer
  <2>1. /\ EndAccess(FALSE) /\ chip' = chip
        /\ unwritten' = IF op = "data" THEN unwritten \union {packet} ELSE unwritten
    BY <1>22 DEF NoAnswer
  <2>2. op' # "data" /\ phase' = "start" /\ (op' \in StartOps => op \in StartOps)
    BY <1>18, <2>1
  <2>3. UNCHANGED <<mainVars, tss_queue, bootVars, main, packet, copied>>
    BY <1>18, <2>1
  <2>4. \A q \in Packets : q \notin unwritten' => q \notin unwritten /\ ~(op = "data" /\ packet = q)
    BY <2>1
  <2>5. StartBeforeAll'
    BY <1>6, <2>1, <2>2, <2>3 DEF CaughtUpInv, StartBeforeAll
  <2>6. CopySoFar'
    BY <2>2 DEF CopySoFar
  <2>7. CopyDone'
    BY <1>6, <2>1, <2>3, <2>4 DEF CaughtUpInv, CopyDone
  <2> QED BY <2>5, <2>6, <2>7 DEF CaughtUpInv
<1> QED
  BY <1>3, <1>4, <1>5, <1>8, <1>9, <1>10, <1>11, <1>12, <1>13, <1>14, <1>15, <1>16, <1>17,
     <1>19, <1>20, <1>21, <1>22
     DEF Next, ToSleep, TssTaskRuns

\* Once no pointer to a packet is queued and tss_task waits, the mailbox has the last
\* contents of the packet, however main_task's writes fell into the copying
\* (main.c:577-582, 661-675, tss_task.c:188-195).
THEOREM MailboxesCatchUp == Spec => []CaughtUp
<1>1. TypeInv /\ CaughtUpInv => CaughtUp
  <2> SUFFICES ASSUME TypeInv, CaughtUpInv, NEW p \in Packets,
                      main # "wait", op = "receive", ~In(tss_queue, p), Changed(p),
                      p \notin missed, p \notin unwritten
               PROVE  chip.mail[p] = [k \in 1 .. Size(p) |-> shared[p]]
    BY DEF CaughtUp, In, Changed
  <2>1. \A k \in 1 .. Size(p) : chip.mail[p][k] = shared[p]
    BY DEF CaughtUpInv, CopyDone, Pending, Written
  <2>2. chip.mail[p] \in [1 .. Size(p) -> Nat]
    BY ContentsProperties DEF TypeInv, TypeOK
  <2> QED BY <2>1, <2>2
<1> QED BY <1>1, AlwaysTypeInv, CaughtUpInit, CaughtUpStep, PTL DEF Spec

----------------------------------------------------------------------------
(* The CD changer's packet in one piece, and nothing from before a sleep *)

\* tss_task holds the bus during an access, and main_task while it puts the chip to
\* sleep; so the sleep never comes in the middle of an access.
BusInv ==
    /\ phase = "transfer" => spi_bus = "tss"
    /\ main = "sleepCommand" => spi_bus = "main"
    /\ main = "asleep" => phase # "transfer"
    /\ chip_mode = "sleep" => main = "asleep"

LEMMA BusStep == TypeInv /\ BusInv /\ [Next]_vars => BusInv'
<1> SUFFICES ASSUME TypeInv, BusInv, [Next]_vars PROVE BusInv'
  OBVIOUS
<1> USE DEF BusInv
<1>1. CASE Tick \/ WaitOver \/ TripReset
  BY <1>1 DEF Tick, WaitOver, TripReset, taskVars, lockVars
<1>2. CASE GoToSleep
  BY <1>2 DEF GoToSleep, taskVars, lockVars
<1>3. CASE SleepTakes \/ SleepAcquires
  BY <1>3 DEF SleepTakes, SleepAcquires, taskVars
<1>4. CASE SleepCommand
  BY <1>4 DEF SleepCommand, FallsAsleep, taskVars
<1>5. CASE Wake
  BY <1>5 DEF Wake
<1>6. CASE ReceiveEvent \/ TakeSemaphore
  BY <1>6 DEF ReceiveEvent, TakeSemaphore, lockVars, Awake
<1>7. CASE AcquireBus
  BY <1>7 DEF AcquireBus, Awake
<1>8. CASE CopyByte
  BY <1>8 DEF CopyByte, lockVars
<1>9. ASSUME NEW answered \in BOOLEAN, EndAccess(answered),
             chip_mode' \in {"idle", "active"} \/ chip_mode' = chip_mode
      PROVE  BusInv'
  BY <1>9 DEF EndAccess, Awake
<1>10. CASE Access
  BY <1>9, <1>10 DEF Access
<1>11. CASE CopyEnds
  BY <1>9, <1>11 DEF CopyEnds
<1>12. CASE NoAnswer
  BY <1>9, <1>12 DEF NoAnswer
<1>13. ASSUME NEW p \in Packets, Sends(p) PROVE BusInv'
  BY <1>13 DEF Sends, taskVars, lockVars
<1>14. CASE UNCHANGED vars
  BY <1>14 DEF vars, taskVars, lockVars
<1> QED
  BY <1>1, <1>2, <1>3, <1>4, <1>5, <1>6, <1>7, <1>8, <1>10, <1>11, <1>12, <1>13, <1>14
     DEF Next, ToSleep, TssTaskRuns

LEMMA AlwaysBusInv == Spec => [](TypeInv /\ BusInv)
<1>1. Init => BusInv
  BY DEF Init, BusInv
<1> QED BY <1>1, BusStep, AlwaysTypeInv, PTL DEF Spec

\* In the middle of a copy the mailbox has the header of the packet as it is, at any
\* other time header and footer are of one packet, unless it changed in between.
HeaderCopied == chip.mail["cdc"][1] = shared["cdc"]
InOnePiece == chip.mail["cdc"][1] = chip.mail["cdc"][2]
PieceInv == raced \/ IF InMidCopy THEN HeaderCopied ELSE InOnePiece

\* A byte that is copied is the packet's, and the others stay.
LEMMA CopyByteFacts ==
    ASSUME TypeInv, CopyByte
    PROVE  /\ copied + 1 \in 1 .. Size(packet)
           /\ chip'.mail[packet][copied + 1] = shared[packet]
           /\ \A q \in Packets : \A k \in 1 .. Size(q) :
                q # packet \/ k # copied + 1 => chip'.mail[q][k] = chip.mail[q][k]
<1>1. packet \in Packets /\ copied \in Nat /\ copied + 1 \in 1 .. Size(packet)
  BY DEF TypeInv, TypeOK, CopyByte, Copies, Size
<1>2. PICK mail \in Contents : mail = chip.mail
  BY DEF TypeInv, TypeOK
<1>3. PICK old : old = mail[packet]
  OBVIOUS
<1>4. old \in [1 .. Size(packet) -> Nat] /\ mail \in [Packets -> UNION {[1 .. 1 -> Nat], [1 .. 2 -> Nat]}]
  BY <1>1, <1>2, <1>3, ContentsProperties DEF Contents
<1>5. chip'.mail = [mail EXCEPT ![packet] = [old EXCEPT ![copied + 1] = shared[packet]]]
  BY <1>2, <1>3 DEF CopyByte, TypeInv, TypeOK
<1>6. chip'.mail[packet] = [old EXCEPT ![copied + 1] = shared[packet]]
  BY <1>1, <1>4, <1>5
<1>7. \A q \in Packets : q # packet => chip'.mail[q] = mail[q]
  BY <1>4, <1>5
<1> QED BY <1>1, <1>2, <1>3, <1>4, <1>6, <1>7

\* Nothing that leaves the packet, its mailbox and the copying alone matters.
LEMMA PieceUnchanged ==
    ASSUME PieceInv, raced' = raced, ~InMidCopy, ~InMidCopy',
           chip'.mail["cdc"] = chip.mail["cdc"] \/ chip'.mail["cdc"] = Blank["cdc"]
    PROVE  PieceInv'
<1>1. Blank["cdc"][1] = Blank["cdc"][2]
  BY DEF Blank, Packets, Size
<1> QED BY <1>1 DEF PieceInv, InOnePiece

LEMMA PieceStep == TypeInv /\ BusInv /\ PieceInv /\ [Next]_vars => PieceInv'
<1> SUFFICES ASSUME TypeInv, BusInv, PieceInv, [Next]_vars PROVE PieceInv'
  OBVIOUS
<1>0. /\ copied \in 0 .. 2 /\ packet \in Packets /\ raced \in BOOLEAN
      /\ shared \in [Packets -> Nat] /\ "cdc" \in Packets /\ "trip" \in Packets
  BY DEF TypeInv, TypeOK, Packets
<1>1. CASE Tick
  <2>1. UNCHANGED <<op, phase, packet, copied, chip>> /\ raced' = (raced \/ InMidCopy)
    BY <1>1 DEF Tick, Change, taskVars, chipVars
  <2> QED BY <2>1 DEF PieceInv, InMidCopy, HeaderCopied, InOnePiece
<1>2. CASE TripReset
  <2>1. UNCHANGED <<op, phase, packet, copied, chip>> /\ raced' = raced
        /\ shared'["cdc"] = shared["cdc"]
    BY <1>0, <1>2 DEF TripReset, Change, taskVars, chipVars
  <2> QED BY <2>1 DEF PieceInv, InMidCopy, HeaderCopied, InOnePiece
<1>3. CASE UNCHANGED <<op, phase, packet, copied, chip, raced, shared>>
  BY <1>3 DEF PieceInv, InMidCopy, HeaderCopied, InOnePiece
<1>4. CASE WaitOver \/ GoToSleep \/ SleepTakes \/ SleepAcquires
  BY <1>3, <1>4 DEF WaitOver, GoToSleep, SleepTakes, SleepAcquires, mainVars, taskVars, chipVars
<1>5. CASE SleepCommand
  <2>1. ASSUME NEW answered \in BOOLEAN, FallsAsleep(answered) PROVE PieceInv'
    <3>1. UNCHANGED <<op, phase, packet, copied, raced, shared>> /\ chip'.mail = chip.mail
      BY <2>1 DEF FallsAsleep, mainVars, taskVars, TypeInv, TypeOK
    <3> QED BY <3>1 DEF PieceInv, InMidCopy, HeaderCopied, InOnePiece
  <2> QED BY <1>5, <2>1 DEF SleepCommand
<1>6. CASE Wake
  <2>1. raced' = raced /\ chip' = chip /\ ~InMidCopy /\ ~InMidCopy'
    BY <1>6 DEF Wake, BusInv, InMidCopy, chipVars
  <2> QED BY <2>1, PieceUnchanged
<1>7. CASE ReceiveEvent \/ TakeSemaphore
  <2>1. raced' = raced /\ chip' = chip
    BY <1>7 DEF ReceiveEvent, TakeSemaphore, chipVars
  <2>2. CASE ReceiveEvent
    BY <2>1, <2>2, PieceUnchanged DEF ReceiveEvent, InMidCopy
  <2>3. CASE TakeSemaphore
    BY <2>1, <2>3, PieceUnchanged DEF TakeSemaphore, InMidCopy
  <2> QED BY <1>7, <2>2, <2>3
<1>8. CASE AcquireBus
  BY <1>8, PieceUnchanged DEF AcquireBus, InMidCopy, chipVars
<1>9. CASE CopyByte
  <2>1. /\ copied' = copied + 1 /\ op = "data" /\ phase = "transfer"
        /\ UNCHANGED <<op, phase, packet, shared>>
        /\ raced' = (raced /\ ~(packet = "cdc" /\ copied = 0))
    BY <1>9 DEF CopyByte, mainVars
  <2>2. CASE packet = "trip"
    <3>a. packet # "cdc"
      BY <2>2
    <3>1. ~InMidCopy /\ ~InMidCopy' /\ raced' = raced
      BY <1>0, <2>1, <3>a, Zenon DEF InMidCopy
    <3>2. chip'.mail["cdc"][1] = chip.mail["cdc"][1] /\ chip'.mail["cdc"][2] = chip.mail["cdc"][2]
      BY <1>0, <1>9, <2>2, CopyByteFacts DEF Size
    <3> QED BY <3>1, <3>2 DEF PieceInv, InOnePiece
  <2>3. CASE packet = "cdc" /\ copied = 0
    <3>1. InMidCopy' /\ chip'.mail["cdc"][1] = shared["cdc"]
      BY <1>9, <2>1, <2>3, CopyByteFacts DEF InMidCopy
    <3> QED BY <2>1, <3>1 DEF PieceInv, HeaderCopied
  <2>4. CASE packet = "cdc" /\ copied = 1
    <3>a. copied = 1 /\ copied' # 1 /\ copied # 0
      BY <2>1, <2>4
    <3>1. InMidCopy /\ ~InMidCopy' /\ raced' = raced
      BY <1>0, <2>1, <2>4, <3>a, Zenon DEF InMidCopy
    <3>2. chip'.mail["cdc"][2] = shared["cdc"] /\ chip'.mail["cdc"][1] = chip.mail["cdc"][1]
      BY <1>0, <1>9, <2>4, CopyByteFacts DEF Size
    <3> QED BY <3>1, <3>2 DEF PieceInv, HeaderCopied, InOnePiece
  <2>5. copied \in 0 .. 1
    BY <1>0, <1>9, CopyByteFacts DEF Size
  <2> QED BY <1>0, <2>2, <2>3, <2>4, <2>5 DEF Packets
<1>10. ASSUME NEW answered \in BOOLEAN, EndAccess(answered) PROVE ~InMidCopy'
  BY <1>10 DEF EndAccess, InMidCopy
<1>11. CASE Access
  <2>1. raced' = raced /\ ~InMidCopy /\ ~InMidCopy'
    BY <1>10, <1>11 DEF Access, InMidCopy
  <2>2. op \in Ops \ {"data"}
    BY <1>11 DEF Access, EndAccess, TypeInv, InAccess
  <2>3. chip'.mail = chip.mail \/ chip'.mail = Blank
    BY <1>11, <2>2 DEF Access, Effect, Ops, StartOps, SendOps, TypeInv, TypeOK
  <2> QED BY <2>1, <2>3, PieceUnchanged
<1>12. CASE CopyEnds
  <2>1. ~InMidCopy
    BY <1>12 DEF CopyEnds, Copies, InMidCopy, Size
  <2> QED BY <1>10, <1>12, <2>1, PieceUnchanged DEF CopyEnds
<1>13. CASE NoAnswer
  <2>1. ~InMidCopy
    BY <1>13 DEF NoAnswer, InMidCopy
  <2> QED BY <1>10, <1>13, <2>1, PieceUnchanged DEF NoAnswer
<1>14. ASSUME NEW p \in Packets, Sends(p) PROVE PieceInv'
  <2>1. UNCHANGED <<op, phase, packet, copied, raced, shared>> /\ chip'.mail = chip.mail
    BY <1>14 DEF Sends, mainVars, taskVars, TypeInv, TypeOK
  <2> QED BY <2>1 DEF PieceInv, InMidCopy, HeaderCopied, InOnePiece
<1>15. CASE UNCHANGED vars
  BY <1>3, <1>15 DEF vars, mainVars, taskVars, chipVars
<1> QED
  BY <1>1, <1>2, <1>4, <1>5, <1>6, <1>7, <1>8, <1>9, <1>11, <1>12, <1>13, <1>14, <1>15
     DEF Next, ToSleep, TssTaskRuns

\* Only the chip changes what is on the bus, to what the mailbox holds.
LEMMA OnBusChanges ==
    ASSUME TypeInv, [Next]_vars, NEW p \in Packets, on_bus'[p] # on_bus[p]
    PROVE  /\ chip.mode = "active"
           /\ on_bus'[p] = chip.mail[p]
<1>1. on_bus' # on_bus
  OBVIOUS
<1>2. \A answered \in BOOLEAN : ~FallsAsleep(answered) /\ ~EndAccess(answered)
  BY <1>1 DEF FallsAsleep, EndAccess
<1>3. ~(Tick \/ WaitOver \/ TripReset \/ GoToSleep \/ ToSleep \/ Wake \/ TssTaskRuns
          \/ UNCHANGED vars)
  BY <1>1, <1>2 DEF Tick, WaitOver, TripReset, GoToSleep, ToSleep, SleepTakes, SleepAcquires,
     SleepCommand, Wake, TssTaskRuns, ReceiveEvent, TakeSemaphore, AcquireBus, Access,
     CopyByte, CopyEnds, NoAnswer, chipVars, vars
<1>4. PICK q \in Packets : Sends(q)
  BY <1>3 DEF Next
<1>5. on_bus \in [Packets -> [1 .. 1 -> Nat] \union [1 .. 2 -> Nat]]
  BY DEF TypeInv, TypeOK, Contents
<1>6. on_bus' = [on_bus EXCEPT ![q] = chip.mail[q]] /\ chip.mode = "active"
  BY <1>4 DEF Sends
<1>7. p = q
  BY <1>5, <1>6
<1> QED BY <1>5, <1>6, <1>7

\* What a step may put on the bus of the CD changer.
HeaderStep ==
    on_bus'["cdc"] # on_bus["cdc"]
        => on_bus'["cdc"][1] = on_bus'["cdc"][2] \/ raced \/ InMidCopy

\* Header and footer that differ get on the bus only out of a copy that main_task
\* interrupted, or that the radio did (main.c:577-580, tss463c.c:374-380).
THEOREM PacketsInOnePiece == Spec => HeaderIsFooter
<1>1. Init => PieceInv
  BY DEF Init, PieceInv, InMidCopy, InOnePiece, Blank, Packets, Size
<1>2. TypeInv /\ PieceInv /\ [Next]_vars => [HeaderStep]_vars
  <2> SUFFICES ASSUME TypeInv, PieceInv, [Next]_vars, on_bus'["cdc"] # on_bus["cdc"]
               PROVE  on_bus'["cdc"][1] = on_bus'["cdc"][2] \/ raced \/ InMidCopy
    BY DEF HeaderStep
  <2>1. on_bus'["cdc"] = chip.mail["cdc"]
    BY OnBusChanges DEF Packets
  <2> QED BY <2>1 DEF PieceInv, InOnePiece
<1> QED BY <1>1, <1>2, PieceStep, AlwaysBusInv, PTL DEF Spec, HeaderIsFooter, HeaderStep

\* Nothing that has been copied or will be is from before the last sleep.
New(p, contents) == contents = 0 \/ contents >= first[p]
MailNew == \A p \in Packets : \A i \in 1 .. Size(p) : New(p, chip.mail[p][i])
SharedNew == \A p \in Packets : first[p] <= made[p] + 1 /\ New(p, shared[p])

\* The chip sleeps with the firmware if it took the command, and it is not active again
\* before its memory has been cleared.
BootInv ==
    /\ SharedNew
    /\ main = "asleep" /\ ~sleepless => chip.mode = "sleep"
    /\ op = "activate" => MailNew
    /\ chip.mode = "active" /\ ~sleepless => MailNew /\ op \notin StartOps \ {"activate"}

LEMMA BlankIsNew == \A p \in Packets : \A i \in 1 .. Size(p) : New(p, Blank[p][i])
BY DEF Blank, New

\* A change is newer than the sleep before it.
LEMMA ChangeNew ==
    ASSUME TypeInv, SharedNew, NEW p \in Packets, Change(p), first' = first
    PROVE  SharedNew'
<1>1. /\ made \in [Packets -> Nat] /\ shared \in [Packets -> Nat] /\ first \in [Packets -> Nat]
      /\ made' = [made EXCEPT ![p] = @ + 1] /\ shared' = [shared EXCEPT ![p] = made[p] + 1]
  BY DEF Change, TypeInv, TypeOK
<1> QED BY <1>1 DEF SharedNew, New

LEMMA BootStep == TypeInv /\ BusInv /\ BootInv /\ [Next]_vars => BootInv'
<1> SUFFICES ASSUME TypeInv, BusInv, BootInv, [Next]_vars PROVE BootInv'
  OBVIOUS
<1>0. /\ made \in [Packets -> Nat] /\ shared \in [Packets -> Nat] /\ first \in [Packets -> Nat]
      /\ sleepless \in BOOLEAN
  BY DEF TypeInv, TypeOK
<1>1. ASSUME UNCHANGED <<first, op, chip, sleepless>>, SharedNew', main' # "asleep" PROVE BootInv'
  BY <1>1 DEF BootInv, MailNew, New
<1>2. ASSUME UNCHANGED <<first, made, shared>> PROVE SharedNew'
  BY <1>2 DEF BootInv, SharedNew, New
<1>3. CASE Tick
  BY <1>1, <1>3, ChangeNew DEF Tick, taskVars, chipVars, recordVars, bootVars, BootInv, Packets
<1>4. CASE TripReset
  BY <1>1, <1>4, ChangeNew DEF TripReset, taskVars, chipVars, recordVars, bootVars, BootInv, Packets
<1>5. CASE WaitOver \/ GoToSleep \/ SleepTakes \/ SleepAcquires
  BY <1>1, <1>2, <1>5 DEF WaitOver, GoToSleep, SleepTakes, SleepAcquires, mainVars, taskVars,
     chipVars, recordVars, bootVars, BusInv
<1>6. CASE SleepCommand
  <2>1. PICK answered \in BOOLEAN : FallsAsleep(answered)
    BY <1>6 DEF SleepCommand
  <2>2. UNCHANGED <<op, first, made, shared>> /\ sleepless' = ~answered
    BY <2>1 DEF FallsAsleep, mainVars, taskVars, bootVars
  <2>3. SharedNew'
    BY <1>2, <2>2
  <2>4. chip' = IF answered THEN [chip EXCEPT !.mode = "sleep"] ELSE chip
    BY <2>1 DEF FallsAsleep
  <2>5. chip'.mail = chip.mail /\ (answered => chip'.mode = "sleep")
    BY <2>4 DEF TypeInv, TypeOK
  <2> QED BY <2>2, <2>3, <2>5 DEF BootInv, MailNew, New
<1>7. CASE Wake
  <2>1. SharedNew'
    BY <1>0, <1>7 DEF Wake, SharedNew, New
  <2>2. op' = "motorolla" /\ main' = "run" /\ sleepless' = sleepless /\ chip' = chip
        /\ main = "asleep"
    BY <1>7 DEF Wake, chipVars
  <2> QED BY <2>1, <2>2 DEF BootInv
<1>8. CASE ReceiveEvent
  <2>1. op = "receive" /\ op' = "data" /\ main' # "asleep"
        /\ UNCHANGED <<first, made, shared, chip, sleepless>>
    BY <1>8 DEF ReceiveEvent, Awake, mainVars, chipVars, recordVars, bootVars
  <2>2. SharedNew'
    BY <1>2, <2>1
  <2> QED BY <2>1, <2>2 DEF BootInv, MailNew, New, StartOps
<1>9. CASE TakeSemaphore
  <2>1. op' \in {op, "receive"} /\ main' # "asleep"
        /\ UNCHANGED <<first, made, shared, chip, sleepless>>
    BY <1>9 DEF TakeSemaphore, Awake, mainVars, chipVars, recordVars, bootVars
  <2>2. SharedNew'
    BY <1>2, <2>1
  <2> QED BY <2>1, <2>2 DEF BootInv, MailNew, New, StartOps
<1>10. CASE AcquireBus
  BY <1>1, <1>2, <1>10 DEF AcquireBus, Awake, mainVars, chipVars, recordVars, bootVars
<1>11. CASE CopyByte
  <2>1. op = "data" /\ op' = "data" /\ main' # "asleep"
        /\ UNCHANGED <<first, made, shared, sleepless>>
    BY <1>11 DEF CopyByte, Awake, mainVars, recordVars, bootVars
  <2>2. SharedNew'
    BY <1>2, <2>1
  <2>3. chip'.mode = chip.mode
    BY <1>11 DEF CopyByte, TypeInv, TypeOK
  <2>4. packet \in Packets
    BY DEF TypeInv, TypeOK
  <2>5. MailNew => MailNew'
    BY <1>11, <2>1, <2>4, CopyByteFacts DEF MailNew, New, BootInv, SharedNew
  <2> QED BY <2>1, <2>2, <2>3, <2>5 DEF BootInv, StartOps
<1>12. ASSUME NEW answered \in BOOLEAN, EndAccess(answered)
       PROVE  /\ op' = NextOp(answered) /\ main' # "asleep" /\ SharedNew'
              /\ UNCHANGED <<first, made, shared>>
              /\ op \in Ops
  BY <1>2, <1>12 DEF EndAccess, Awake, mainVars, bootVars, TypeInv, InAccess
<1>13. CASE Access
  <2>1. /\ op' = NextOp(TRUE) /\ main' # "asleep" /\ SharedNew' /\ first' = first
        /\ op \in Ops \ {"data"} /\ chip' = Effect(chip)
        /\ sleepless' = (sleepless /\ op # "motorolla")
    BY <1>12, <1>13 DEF Access
  <2>2. CASE op = "motorolla"
    <3>1. op' = "disable_cdc" /\ chip'.mode = "idle"
      BY <2>1, <2>2 DEF NextOp, Effect, TypeInv, TypeOK
    <3> QED BY <2>1, <3>1 DEF BootInv
  <2>3. CASE op \in {"disable_cdc", "disable_trip", "configure"}
    <3>1. op' \in {"disable_trip", "configure", "zero"} /\ chip'.mode = chip.mode
      BY <2>1, <2>3 DEF NextOp, Effect, TypeInv, TypeOK
    <3>2. chip.mode = "active" => sleepless
      BY <2>3 DEF BootInv, StartOps
    <3> QED BY <2>1, <2>3, <3>1, <3>2 DEF BootInv
  <2>4. CASE op = "zero"
    <3>1. op' = "activate" /\ chip'.mode = chip.mode /\ chip'.mail = Blank
      BY <2>1, <2>4 DEF NextOp, Effect, TypeInv, TypeOK
    <3>2. MailNew'
      BY <2>1, <3>1, BlankIsNew DEF MailNew, New
    <3> QED BY <2>1, <3>1, <3>2 DEF BootInv
  <2>5. CASE op = "activate"
    <3>1. op' = "receive" /\ chip'.mail = chip.mail
      BY <2>1, <2>5 DEF NextOp, Effect, TypeInv, TypeOK
    <3>2. MailNew'
      BY <2>1, <2>5, <3>1 DEF BootInv, MailNew, New
    <3> QED BY <2>1, <3>1, <3>2 DEF BootInv, StartOps
  <2>6. CASE op = "channel"
    <3>1. op' = "receive" /\ chip'.mail = chip.mail /\ chip'.mode = chip.mode
      BY <2>1, <2>6 DEF NextOp, Effect, TypeInv, TypeOK
    <3>2. MailNew => MailNew'
      BY <2>1, <3>1 DEF MailNew, New
    <3> QED BY <2>1, <2>6, <3>1, <3>2 DEF BootInv, StartOps
  <2> QED BY <2>1, <2>2, <2>3, <2>4, <2>5, <2>6 DEF Ops, StartOps, SendOps
<1>14. CASE CopyEnds \/ NoAnswer
  <2>1. /\ op = "data" /\ op' = "channel"
        \/ op' = NextOp(FALSE)
    BY <1>12, <1>14 DEF CopyEnds, NoAnswer, NextOp
  <2>2. /\ main' # "asleep" /\ SharedNew' /\ first' = first /\ op \in Ops
        /\ chip' = chip /\ sleepless' = sleepless
    BY <1>12, <1>14 DEF CopyEnds, NoAnswer
  <2>3. MailNew => MailNew'
    BY <2>2 DEF MailNew, New
  <2>4. op' # "activate" /\ (op \notin StartOps \ {"activate"} => op' \notin StartOps)
    BY <2>1, <2>2 DEF NextOp, Ops, StartOps, SendOps
  <2> QED BY <2>2, <2>3, <2>4 DEF BootInv
<1>15. ASSUME NEW p \in Packets, Sends(p) PROVE BootInv'
  <2>1. UNCHANGED <<first, made, shared, op, main, sleepless>>
    BY <1>15 DEF Sends, mainVars, taskVars, recordVars, bootVars
  <2>2. chip'.mail = chip.mail /\ chip'.mode = chip.mode
    BY <1>15 DEF Sends, TypeInv, TypeOK
  <2>3. SharedNew'
    BY <1>2, <2>1
  <2> QED BY <2>1, <2>2, <2>3 DEF BootInv, MailNew, New
<1>16. CASE UNCHANGED vars
  <2>1. UNCHANGED <<first, made, shared, op, main, sleepless, chip>>
    BY <1>16 DEF vars, mainVars, taskVars, chipVars, recordVars, bootVars
  <2>2. SharedNew'
    BY <1>2, <2>1
  <2> QED BY <2>1, <2>2 DEF BootInv, MailNew, New
<1> QED
  BY <1>3, <1>4, <1>5, <1>6, <1>7, <1>8, <1>9, <1>10, <1>11, <1>13, <1>14, <1>15, <1>16
     DEF Next, ToSleep, TssTaskRuns

\* What a step may put on the bus at all.
BootStepOnBus ==
    \A p \in Packets :
        on_bus'[p] # on_bus[p] =>
            \/ sleepless
            \/ /\ Awake
               /\ \A i \in 1 .. Size(p) : on_bus'[p][i] = 0 \/ on_bus'[p][i] >= first[p]

\* After a deep sleep the chip sends nothing from before it, and during it nothing at
\* all, unless it did not take the command to sleep (main.c:257, tss463c.c:227-241,
\* 627-720).
THEOREM NothingFromBefore == Spec => OnlyThisBoot
<1>1. Init => BootInv
  BY DEF Init, BootInv, SharedNew, New, StartOps
<1>2. TypeInv /\ BootInv /\ [Next]_vars => [BootStepOnBus]_vars
  <2> SUFFICES ASSUME TypeInv, BootInv, [Next]_vars, NEW p \in Packets,
                      on_bus'[p] # on_bus[p], ~sleepless
               PROVE  /\ Awake
                      /\ \A i \in 1 .. Size(p) : on_bus'[p][i] = 0 \/ on_bus'[p][i] >= first[p]
    BY DEF BootStepOnBus
  <2>1. chip.mode = "active" /\ on_bus'[p] = chip.mail[p]
    BY OnBusChanges
  <2> QED BY <2>1 DEF BootInv, MailNew, New, Awake
<1> QED BY <1>1, <1>2, BootStep, AlwaysBusInv, PTL DEF Spec, OnlyThisBoot, BootStepOnBus
==============================================================================
