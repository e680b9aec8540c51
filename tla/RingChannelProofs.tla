------------------------- MODULE RingChannelProofs -------------------------
(***************************************************************************)
(* The proof, for every ring and every queue, that a packet handed over by *)
(* RingChannel survives the drops its properties say it survives.          *)
(*                                                                         *)
(* QueuedIntact is not inductive: it does not say how many sends have      *)
(* passed since the packet was queued.  Each of them either went into the  *)
(* queue, where it is still behind the packet, or was dropped; and each    *)
(* brought the ring index one buffer closer to the packet's.               *)
(***************************************************************************)
EXTENDS RingChannel, TLAPS

\* Sends since the one the event stands for.
Age(event) == sent - event.seq

\* Sends until the ring index has come round to buffer b.
Gap(from, to) == IF to >= from THEN to - from ELSE to - from + BuffersNum
Distance(b) == Gap(nextBuffer, b)

\* An event was sent in the past, and `room' queued events came after it.
Accounted(event, room) ==
    IsPacket(event) =>
        /\ event.seq <= sent
        /\ event.drops <= dropped
        /\ Age(event) - Overrun(event) <= room

\* A buffer is overwritten after one round of the ring and not before.
Fresh(event) ==
    IsPacket(event) /\ Age(event) < BuffersNum =>
        /\ Intact(event)
        /\ Distance(event.buffer) = BuffersNum - 1 - Age(event)

\* The inductive invariant.
Inv ==
    /\ TypeOK
    /\ \A i \in 1 .. Len(queue) : Accounted(queue[i], Len(queue) - i) /\ Fresh(queue[i])
    /\ Accounted(held, Len(queue))
    /\ Fresh(held)
    /\ Fifo

----------------------------------------------------------------------------

\* The fields of an event, whichever kind it is.
LEMMA EventTypes ==
    ASSUME NEW e \in Events
    PROVE  /\ e.seq \in Nat /\ e.drops \in Nat
           /\ e.buffer \in Int
           /\ IsPacket(e) => e.buffer \in Buffers
BY DEF Events, IsPacket, OtherEvent, NoBuffer, Buffers

\* Moving the ring index on by one closes the gap to every other buffer by one,
\* and puts the whole ring between it and the buffer it was at.
LEMMA GapStep ==
    ASSUME NEW from \in Buffers, NEW to \in Buffers
    PROVE  /\ to # from => Gap(NextBuffer(from), to) = Gap(from, to) - 1
           /\ Gap(NextBuffer(from), from) = BuffersNum - 1
<1> USE BuffersNumAssumption DEF Buffers
<1>1. CASE from >= BuffersNum - 1
  <2>1. from = BuffersNum - 1 /\ NextBuffer(from) = 0
    BY <1>1 DEF NextBuffer
  <2> QED
    BY <2>1 DEF Gap
<1>2. CASE ~(from >= BuffersNum - 1)
  <2>1. NextBuffer(from) = from + 1
    BY <1>2 DEF NextBuffer
  <2> QED
    BY <1>2, <2>1 DEF Gap
<1> QED
  BY <1>1, <1>2

\* The initial state satisfies the invariant.
LEMMA InitInv == Init => Inv
<1> USE BuffersNumAssumption, QueueLenAssumption, MaxSendsAssumption
<1> SUFFICES ASSUME Init PROVE Inv
  OBVIOUS
<1>1. TypeOK
  <2>1. held \in Events
    BY DEF Init, Events
  <2>2. queue = <<>> /\ queue \in Seq(Events) /\ Len(queue) = 0
    BY DEF Init
  <2> QED
    BY <2>1, <2>2 DEF Init, TypeOK, Buffers
<1>2. ~IsPacket(held) /\ queue = <<>>
  BY DEF Init, IsPacket, OtherEvent
<1> QED
  BY <1>1, <1>2 DEF Inv, Accounted, Fresh, Fifo

\* A send keeps the invariant, whether its event is queued or dropped.
LEMMA PutInv == Inv /\ Put => Inv'
<1> USE BuffersNumAssumption, QueueLenAssumption, MaxSendsAssumption
<1> SUFFICES ASSUME Inv, Put PROVE Inv'
  OBVIOUS
<1> DEFINE new == [buffer |-> nextBuffer, seq |-> sent + 1, drops |-> dropped]
<1>1. TypeOK /\ held' = held /\ sent' = sent + 1
  BY DEF Inv, Put
<1>2. new \in Events /\ IsPacket(new)
  BY <1>1 DEF TypeOK, Events, IsPacket
<1>3. nextBuffer' \in Buffers /\ nextBuffer' = NextBuffer(nextBuffer) /\ nextBuffer \in Buffers
  BY <1>1 DEF TypeOK, Put, NextBuffer, Buffers
<1>4. buffers' = [buffers EXCEPT ![nextBuffer] = sent + 1] /\ buffers' \in [Buffers -> Nat]
  BY <1>1 DEF TypeOK, Put
<1>5. \/ Len(queue) < QueueLen /\ queue' = Append(queue, new) /\ dropped' = dropped
      \/ Len(queue) = QueueLen /\ queue' = queue /\ dropped' = dropped + 1
  BY <1>1 DEF Put, TypeOK, SendToBack, IsFull
<1>6. TypeOK'
  <2>1. queue' \in Seq(Events) /\ Len(queue') <= QueueLen
    <3>1. CASE queue' = queue
      BY <1>1, <3>1 DEF TypeOK
    <3>2. CASE Len(queue) < QueueLen /\ queue' = Append(queue, new)
      <4> HIDE DEF new
      <4> QED
        BY <1>1, <1>2, <3>2 DEF TypeOK
    <3> QED
      BY <1>5, <3>1, <3>2
  <2>2. sent' \in 0 .. MaxSends /\ dropped' \in 0 .. sent'
    BY <1>1, <1>5 DEF TypeOK, Put
  <2> QED
    BY <1>1, <1>3, <1>4, <2>1, <2>2 DEF TypeOK
\* An event sent earlier ages by one, and the index comes one buffer closer.
<1>7. ASSUME NEW e \in Events, NEW room \in Nat, Accounted(e, room), Fresh(e)
      PROVE  /\ Fresh(e)'
             /\ dropped' = dropped => Accounted(e, room + 1)'
             /\ dropped' = dropped + 1 => Accounted(e, room)'
  <2>1. CASE ~IsPacket(e)
    BY <2>1 DEF Accounted, Fresh, IsPacket
  <2>2. CASE IsPacket(e)
    <3>1. e.buffer \in Buffers /\ e.seq \in Nat /\ e.drops \in Nat
      BY <2>2, EventTypes
    <3>2. Fresh(e)'
      <4> SUFFICES ASSUME Age(e)' < BuffersNum
                   PROVE  Intact(e)' /\ Distance(e.buffer)' = BuffersNum - 1 - Age(e)'
        BY DEF Fresh
      <4>0. sent \in Nat /\ sent' = sent + 1
        BY <1>1 DEF TypeOK
      <4>1. Age(e)' = Age(e) + 1 /\ Age(e) \in Int
        BY <3>1, <4>0 DEF Age
      <4>a. Age(e) < BuffersNum
        BY <4>1
      <4>b. BuffersNum \in Nat
        OBVIOUS
      <4>2. Intact(e) /\ Distance(e.buffer) = BuffersNum - 1 - Age(e)
        BY <1>7, <2>2, <4>a DEF Fresh
      <4>3. e.seq <= sent
        BY <1>7, <2>2 DEF Accounted
      <4>4. Distance(e.buffer) >= 1
        BY <4>1, <4>2, <4>b
      <4>5. e.buffer # nextBuffer
        BY <1>3, <4>4 DEF Distance, Gap, Buffers
      <4>6. Intact(e)'
        <5>1. buffers'[e.buffer] = buffers[e.buffer]
          BY <1>1, <1>4, <3>1, <4>5 DEF TypeOK
        <5> QED
          BY <4>2, <5>1 DEF Intact
      <4>7. Distance(e.buffer)' = Distance(e.buffer) - 1
        BY <1>3, <3>1, <4>5, GapStep DEF Distance
      <4> QED
        BY <4>1, <4>2, <4>6, <4>7, <4>b
    <3>3. e.seq <= sent /\ e.drops <= dropped /\ Age(e) - Overrun(e) <= room
      BY <1>7, <2>2 DEF Accounted
    <3>n. sent \in Nat /\ dropped \in Nat /\ sent' = sent + 1
      BY <1>1 DEF TypeOK
    <3>4. ASSUME dropped' = dropped PROVE Accounted(e, room + 1)'
      BY <3>n, <3>1, <3>3, <3>4 DEF Accounted, Age, Overrun
    <3>5. ASSUME dropped' = dropped + 1 PROVE Accounted(e, room)'
      BY <3>n, <3>1, <3>3, <3>5 DEF Accounted, Age, Overrun
    <3> QED
      BY <3>2, <3>4, <3>5
  <2> QED
    BY <2>1, <2>2
<1>8. ASSUME NEW e \in Events, e = new, dropped' = dropped
      PROVE  Accounted(e, 0)' /\ Fresh(e)'
  <2>1. e.buffer = nextBuffer /\ e.seq = sent + 1 /\ e.drops = dropped
    BY <1>8
  <2>2. sent \in Nat /\ dropped \in Nat /\ dropped' = dropped /\ sent' = sent + 1
    BY <1>1, <1>8 DEF TypeOK
  <2>3. Intact(e)'
    BY <1>3, <1>4, <2>1, <1>1 DEF Intact, TypeOK
  <2>4. Distance(e.buffer)' = BuffersNum - 1
    BY <1>3, <2>1, GapStep DEF Distance
  <2>5. Age(e)' = 0 /\ Overrun(e)' = 0
    BY <2>1, <2>2 DEF Age, Overrun
  <2> QED
    BY <2>1, <2>2, <2>3, <2>4, <2>5 DEF Accounted, Fresh
<1>9. \A i \in 1 .. Len(queue') : Accounted(queue[i], Len(queue) - i)' /\ Fresh(queue[i])'
  <2> SUFFICES ASSUME NEW i \in 1 .. Len(queue')
               PROVE  Accounted(queue[i], Len(queue) - i)' /\ Fresh(queue[i])'
    OBVIOUS
  <2>1. CASE Len(queue) = QueueLen /\ queue' = queue /\ dropped' = dropped + 1
    BY <1>1, <1>7, <2>1 DEF Inv, TypeOK
  <2>2. CASE Len(queue) < QueueLen /\ queue' = Append(queue, new) /\ dropped' = dropped
    <3>1. CASE i = Len(queue) + 1
      <4>1. queue'[i] = new /\ queue'[i] \in Events /\ Len(queue') - i = 0
        BY <1>1, <1>2, <2>2, <3>1 DEF TypeOK
      <4> QED
        BY <1>8, <2>2, <4>1
    <3>2. CASE i \in 1 .. Len(queue)
      <4>1. queue'[i] = queue[i] /\ queue[i] \in Events
        BY <1>1, <1>2, <2>2, <3>2 DEF TypeOK
      <4>2. Len(queue') - i = (Len(queue) - i) + 1 /\ Len(queue) - i \in Nat
        BY <1>1, <1>2, <2>2, <3>2 DEF TypeOK
      <4> QED
        BY <1>7, <2>2, <3>2, <4>1, <4>2 DEF Inv
    <3> QED
      BY <1>1, <1>2, <2>2, <3>1, <3>2 DEF TypeOK
  <2> QED
    BY <1>5, <2>1, <2>2
<1>10. Accounted(held, Len(queue))' /\ Fresh(held)'
  <2>1. held \in Events /\ Len(queue) \in Nat
    BY <1>1 DEF TypeOK
  <2>2. Len(queue') = IF dropped' = dropped THEN Len(queue) + 1 ELSE Len(queue)
    BY <1>1, <1>2, <1>5 DEF TypeOK
  <2> QED
    BY <1>1, <1>5, <1>7, <2>1, <2>2 DEF Inv, TypeOK
<1>11. Fifo'
  <2>1. \A i \in 1 .. Len(queue) : IsPacket(queue[i]) => queue[i].seq < new.seq
    BY <1>1 DEF Inv, Accounted, TypeOK, Events, IsPacket, OtherEvent
  <2>2. IsPacket(held) => held.seq < new.seq
    BY <1>1 DEF Inv, Accounted, TypeOK, Events, IsPacket, OtherEvent
  <2>3. CASE queue' = queue
    BY <1>1, <2>3 DEF Inv, Fifo
  <2>4. CASE queue' = Append(queue, new)
    <3>1. \A i \in 1 .. Len(queue') :
            \/ i = Len(queue') /\ queue'[i] = new
            \/ i \in 1 .. Len(queue) /\ i < Len(queue') /\ queue'[i] = queue[i]
      BY <1>1, <1>2, <2>4 DEF TypeOK
    <3>2. Len(queue) \in Nat /\ held' = held
      BY <1>1 DEF TypeOK
    <3>3. ASSUME NEW i \in 1 .. Len(queue'), NEW j \in 1 .. Len(queue'), i < j,
                 IsPacket(queue'[i]), IsPacket(queue'[j])
          PROVE  queue'[i].seq < queue'[j].seq
      <4>1. i \in 1 .. Len(queue) /\ queue'[i] = queue[i] /\ IsPacket(queue[i])
        BY <3>1, <3>2, <3>3
      <4>2. CASE queue'[j] = new
        <5>1. queue[i].seq < new.seq
          BY <2>1, <4>1
        <5> QED
          BY <4>1, <4>2, <5>1
      <4>3. CASE j \in 1 .. Len(queue) /\ queue'[j] = queue[j]
        <5>1. IsPacket(queue[j])
          BY <3>3, <4>3
        <5>2. Fifo
          BY DEF Inv
        <5>3. queue[i].seq < queue[j].seq
          BY <3>3, <4>1, <4>3, <5>1, <5>2 DEF Fifo
        <5> QED
          BY <4>1, <4>3, <5>3
      <4> QED
        BY <3>1, <4>2, <4>3
    <3>4. \A i \in 1 .. Len(queue') :
            IsPacket(queue'[i]) /\ IsPacket(held') => held'.seq < queue'[i].seq
      BY <2>2, <3>1, <3>2 DEF Inv, Fifo
    <3> QED
      BY <3>3, <3>4 DEF Fifo, IsPacket
  <2> QED
    BY <1>5, <2>3, <2>4
<1> QED
  BY <1>6, <1>9, <1>10, <1>11 DEF Inv

\* What a step that sends nothing leaves alone: the fate of every packet.
LEMMA KeepsPackets ==
    ASSUME UNCHANGED <<nextBuffer, buffers, sent, dropped>>,
           NEW e \in Events, NEW room \in Int, NEW more \in Int, room <= more,
           sent \in Nat, dropped \in Nat,
           Accounted(e, room), Fresh(e)
    PROVE  Accounted(e, more)' /\ Fresh(e)'
<1>1. Fresh(e)'
  BY DEF Fresh, Age, Intact, Distance
<1>2. Accounted(e, more)'
  <2>1. e.seq \in Nat /\ e.drops \in Nat
    BY EventTypes
  <2> QED
    BY <2>1 DEF Accounted, Age, Overrun
<1> QED
  BY <1>1, <1>2

\* An event without a buffer satisfies every claim about packets.
LEMMA OtherEventInv ==
    /\ OtherEvent \in Events
    /\ ~IsPacket(OtherEvent)
    /\ \A room : Accounted(OtherEvent, room)' /\ Fresh(OtherEvent)'
BY DEF Events, IsPacket, OtherEvent, Accounted, Fresh

LEMMA PostOtherInv == Inv /\ PostOther => Inv'
<1> USE BuffersNumAssumption, QueueLenAssumption, MaxSendsAssumption
<1> SUFFICES ASSUME Inv, PostOther PROVE Inv'
  OBVIOUS
<1>1. /\ TypeOK
      /\ UNCHANGED <<nextBuffer, buffers, sent, dropped>>
      /\ held' = held
      /\ sent \in Nat /\ dropped \in Nat
      /\ held \in Events
  BY DEF Inv, TypeOK, PostOther
<1>2. /\ queue' = Append(queue, OtherEvent)
      /\ queue' \in Seq(Events)
      /\ Len(queue') = Len(queue) + 1 /\ Len(queue) \in Nat
      /\ Len(queue') <= QueueLen
  BY <1>1, OtherEventInv DEF TypeOK, PostOther, SendToBack, IsFull
<1>3. TypeOK'
  BY <1>1, <1>2 DEF TypeOK
<1>4. \A i \in 1 .. Len(queue') :
        \/ i = Len(queue') /\ queue'[i] = OtherEvent
        \/ i \in 1 .. Len(queue) /\ queue'[i] = queue[i] /\ queue[i] \in Events
  BY <1>1, <1>2, OtherEventInv DEF TypeOK
<1>5. \A i \in 1 .. Len(queue') : Accounted(queue[i], Len(queue) - i)' /\ Fresh(queue[i])'
  <2> SUFFICES ASSUME NEW i \in 1 .. Len(queue')
               PROVE  Accounted(queue[i], Len(queue) - i)' /\ Fresh(queue[i])'
    OBVIOUS
  <2>1. CASE queue'[i] = OtherEvent
    BY <2>1, OtherEventInv
  <2>2. CASE i \in 1 .. Len(queue) /\ queue'[i] = queue[i] /\ queue[i] \in Events
    <3>1. Accounted(queue[i], Len(queue) - i) /\ Fresh(queue[i])
      BY <2>2 DEF Inv
    <3>2. Len(queue) - i \in Int /\ Len(queue') - i \in Int /\ Len(queue) - i <= Len(queue') - i
      BY <1>2, <2>2
    <3> QED
      BY <1>1, <2>2, <3>1, <3>2, KeepsPackets
  <2> QED
    BY <1>4, <2>1, <2>2
<1>6. Accounted(held, Len(queue))' /\ Fresh(held)'
  <2>1. Len(queue) \in Int /\ Len(queue') \in Int /\ Len(queue) <= Len(queue')
    BY <1>2
  <2> QED
    BY <1>1, <2>1, KeepsPackets DEF Inv
<1>7. Fifo'
  BY <1>1, <1>2, <1>4, OtherEventInv DEF Inv, Fifo
<1> QED
  BY <1>3, <1>5, <1>6, <1>7 DEF Inv

LEMMA PostOtherToFrontInv == Inv /\ PostOtherToFront => Inv'
<1> USE BuffersNumAssumption, QueueLenAssumption, MaxSendsAssumption
<1> SUFFICES ASSUME Inv, PostOtherToFront PROVE Inv'
  OBVIOUS
<1>1. /\ TypeOK
      /\ UNCHANGED <<nextBuffer, buffers, sent, dropped>>
      /\ held' = held
      /\ sent \in Nat /\ dropped \in Nat
      /\ held \in Events
  BY DEF Inv, TypeOK, PostOtherToFront
<1>2. /\ queue' = <<OtherEvent>> \o queue
      /\ queue' \in Seq(Events)
      /\ Len(queue') = Len(queue) + 1 /\ Len(queue) \in Nat
      /\ Len(queue') <= QueueLen
  BY <1>1, OtherEventInv DEF TypeOK, PostOtherToFront, SendToFront, IsFull
<1>3. TypeOK'
  BY <1>1, <1>2 DEF TypeOK
<1>4. \A i \in 1 .. Len(queue') :
        \/ i = 1 /\ queue'[i] = OtherEvent
        \/ i - 1 \in 1 .. Len(queue) /\ queue'[i] = queue[i - 1] /\ queue[i - 1] \in Events
  BY <1>1, <1>2, OtherEventInv DEF TypeOK
<1>5. \A i \in 1 .. Len(queue') : Accounted(queue[i], Len(queue) - i)' /\ Fresh(queue[i])'
  <2> SUFFICES ASSUME NEW i \in 1 .. Len(queue')
               PROVE  Accounted(queue[i], Len(queue) - i)' /\ Fresh(queue[i])'
    OBVIOUS
  <2>1. CASE queue'[i] = OtherEvent
    BY <2>1, OtherEventInv
  <2>2. CASE i - 1 \in 1 .. Len(queue) /\ queue'[i] = queue[i - 1] /\ queue[i - 1] \in Events
    <3>1. Accounted(queue[i - 1], Len(queue) - (i - 1)) /\ Fresh(queue[i - 1])
      BY <2>2 DEF Inv
    <3>2. /\ Len(queue) - (i - 1) \in Int /\ Len(queue') - i \in Int
          /\ Len(queue) - (i - 1) <= Len(queue') - i
      BY <1>2, <2>2
    <3> QED
      BY <1>1, <2>2, <3>1, <3>2, KeepsPackets
  <2> QED
    BY <1>4, <2>1, <2>2
<1>6. Accounted(held, Len(queue))' /\ Fresh(held)'
  <2>1. Len(queue) \in Int /\ Len(queue') \in Int /\ Len(queue) <= Len(queue')
    BY <1>2
  <2> QED
    BY <1>1, <2>1, KeepsPackets DEF Inv
<1>7. Fifo'
  <2>1. \A i, j \in 1 .. Len(queue') :
          i < j /\ IsPacket(queue'[i]) /\ IsPacket(queue'[j]) => queue'[i].seq < queue'[j].seq
    <3> SUFFICES ASSUME NEW i \in 1 .. Len(queue'), NEW j \in 1 .. Len(queue'), i < j,
                        IsPacket(queue'[i]), IsPacket(queue'[j])
                 PROVE  queue'[i].seq < queue'[j].seq
      OBVIOUS
    <3>1. i - 1 \in 1 .. Len(queue) /\ queue'[i] = queue[i - 1]
      BY <1>4, OtherEventInv
    <3>2. j - 1 \in 1 .. Len(queue) /\ queue'[j] = queue[j - 1]
      BY <1>4, OtherEventInv
    <3> QED
      BY <3>1, <3>2 DEF Inv, Fifo
  <2>2. \A i \in 1 .. Len(queue') :
          IsPacket(queue'[i]) /\ IsPacket(held') => held'.seq < queue'[i].seq
    BY <1>1, <1>4, OtherEventInv DEF Inv, Fifo
  <2> QED
    BY <2>1, <2>2 DEF Fifo, IsPacket
<1> QED
  BY <1>3, <1>5, <1>6, <1>7 DEF Inv

LEMMA TakeInv == Inv /\ Take => Inv'
<1> USE BuffersNumAssumption, QueueLenAssumption, MaxSendsAssumption
<1> SUFFICES ASSUME Inv, Take PROVE Inv'
  OBVIOUS
<1>1. /\ TypeOK
      /\ UNCHANGED <<nextBuffer, buffers, sent, dropped>>
      /\ sent \in Nat /\ dropped \in Nat
  BY DEF Inv, TypeOK, Take
<1>2. /\ queue' = Tail(queue) /\ queue' \in Seq(Events)
      /\ Len(queue) \in Nat /\ Len(queue) >= 1 /\ Len(queue') = Len(queue) - 1
      /\ held' = queue[1] /\ queue[1] \in Events
  BY <1>1 DEF TypeOK, Take
<1>3. TypeOK'
  BY <1>1, <1>2 DEF TypeOK
<1>4. \A i \in 1 .. Len(queue') :
        i + 1 \in 1 .. Len(queue) /\ queue'[i] = queue[i + 1] /\ queue[i + 1] \in Events
  BY <1>1, <1>2 DEF TypeOK
<1>5. \A i \in 1 .. Len(queue') : Accounted(queue[i], Len(queue) - i)' /\ Fresh(queue[i])'
  <2> SUFFICES ASSUME NEW i \in 1 .. Len(queue')
               PROVE  Accounted(queue[i], Len(queue) - i)' /\ Fresh(queue[i])'
    OBVIOUS
  <2>1. i + 1 \in 1 .. Len(queue) /\ queue'[i] = queue[i + 1] /\ queue[i + 1] \in Events
    BY <1>4
  <2>2. Accounted(queue[i + 1], Len(queue) - (i + 1)) /\ Fresh(queue[i + 1])
    BY <2>1 DEF Inv
  <2>3. /\ Len(queue) - (i + 1) \in Int /\ Len(queue') - i \in Int
        /\ Len(queue) - (i + 1) <= Len(queue') - i
    BY <1>2, <2>1
  <2> QED
    BY <1>1, <2>1, <2>2, <2>3, KeepsPackets
<1>6. Accounted(held, Len(queue))' /\ Fresh(held)'
  <2>1. Accounted(queue[1], Len(queue) - 1) /\ Fresh(queue[1])
    BY <1>2 DEF Inv
  <2>2. Len(queue) - 1 \in Int /\ Len(queue') \in Int /\ Len(queue) - 1 <= Len(queue')
    BY <1>2
  <2> QED
    BY <1>1, <1>2, <2>1, <2>2, KeepsPackets
<1>7. Fifo'
  <2>1. \A i, j \in 1 .. Len(queue') :
          i < j /\ IsPacket(queue'[i]) /\ IsPacket(queue'[j]) => queue'[i].seq < queue'[j].seq
    BY <1>2, <1>4 DEF Inv, Fifo
  <2>2. \A i \in 1 .. Len(queue') :
          IsPacket(queue'[i]) /\ IsPacket(held') => held'.seq < queue'[i].seq
    BY <1>2, <1>4 DEF Inv, Fifo
  <2> QED
    BY <2>1, <2>2 DEF Fifo, IsPacket
<1> QED
  BY <1>3, <1>5, <1>6, <1>7 DEF Inv

LEMMA ReleaseInv == Inv /\ Release => Inv'
<1> USE BuffersNumAssumption, QueueLenAssumption, MaxSendsAssumption
<1> SUFFICES ASSUME Inv, Release PROVE Inv'
  OBVIOUS
<1>1. /\ TypeOK
      /\ UNCHANGED <<nextBuffer, buffers, queue, sent, dropped>>
      /\ held' = OtherEvent
      /\ Len(queue) \in Nat
  BY DEF Inv, TypeOK, Release
<1>2. TypeOK'
  BY <1>1, OtherEventInv DEF TypeOK
<1>3. Accounted(held, Len(queue))' /\ Fresh(held)'
  BY <1>1, OtherEventInv
<1>4. \A i \in 1 .. Len(queue') : Accounted(queue[i], Len(queue) - i)' /\ Fresh(queue[i])'
  BY <1>1 DEF Inv, Accounted, Fresh, Age, Overrun, Intact, Distance
<1>5. Fifo'
  BY <1>1, OtherEventInv DEF Inv, Fifo
<1> QED
  BY <1>2, <1>3, <1>4, <1>5 DEF Inv

----------------------------------------------------------------------------

\* The inductive invariant holds: how many sends may still happen before the ring comes
\* round to a packet follows from its place in the queue and the sends dropped since
\* (psa_helper.c:11-20, 150, uart_task.c:96-136).
THEOREM InvariantHolds == Spec => []Inv
<1>1. Inv /\ [Next]_vars => Inv'
  <2> SUFFICES ASSUME Inv, [Next]_vars PROVE Inv'
    OBVIOUS
  <2>1. CASE Put
    BY <2>1, PutInv
  <2>2. CASE PostOther
    BY <2>2, PostOtherInv
  <2>3. CASE PostOtherToFront
    BY <2>3, PostOtherToFrontInv
  <2>4. CASE Take
    BY <2>4, TakeInv
  <2>5. CASE Release
    BY <2>5, ReleaseInv
  <2>6. CASE UNCHANGED vars
    BY <2>6 DEF vars, Inv, TypeOK, Accounted, Fresh, Fifo, Age, Overrun, Intact, Distance
  <2> QED
    BY <2>1, <2>2, <2>3, <2>4, <2>5, <2>6 DEF Next
<1> QED
  BY InitInv, <1>1, PTL DEF Spec

\* Every variable keeps its type, whatever the sizes of the ring and the queue.
THEOREM TypeCorrect == Spec => []TypeOK
<1>1. Inv => TypeOK
  BY DEF Inv
<1> QED
  BY <1>1, InvariantHolds, PTL

\* A queued packet is still in its buffer unless more than BuffersNum - QueueLen
\* sends were dropped while it waited (psa_helper.c:11-20, 150).
THEOREM QueuedPacketsSurvive == Spec => []QueuedIntact
<1>1. Inv => QueuedIntact
  <2> SUFFICES ASSUME Inv, NEW i \in 1 .. Len(queue),
                      IsPacket(queue[i]), Overrun(queue[i]) <= BuffersNum - QueueLen
               PROVE  Intact(queue[i])
    BY DEF QueuedIntact
  <2>1. queue[i] \in Events /\ Len(queue) \in Nat /\ Len(queue) <= QueueLen
    BY DEF Inv, TypeOK
  <2>2. Age(queue[i]) \in Int /\ Overrun(queue[i]) \in Int
    <3>1. queue[i].seq \in Nat /\ queue[i].drops \in Nat
      BY <2>1, EventTypes
    <3>2. sent \in Nat /\ dropped \in Nat
      BY DEF Inv, TypeOK
    <3> QED
      BY <3>1, <3>2 DEF Age, Overrun
  <2>3. Age(queue[i]) - Overrun(queue[i]) <= Len(queue) - i
    BY DEF Inv, Accounted
  <2>4. Age(queue[i]) < BuffersNum
    <3>1. BuffersNum \in Nat /\ QueueLen \in Nat
      BY BuffersNumAssumption, QueueLenAssumption
    <3> QED
      BY <2>1, <2>2, <2>3, <3>1
  <2> QED
    BY <2>4 DEF Inv, Fresh
<1> QED
  BY <1>1, InvariantHolds, PTL

\* The packet being read is still in its buffer unless BuffersNum - QueueLen
\* sends were dropped since it was queued (uart_task.c:109-128).
THEOREM HeldPacketSurvives == Spec => []HeldIntact
<1>1. Inv => HeldIntact
  <2> SUFFICES ASSUME Inv, IsPacket(held), Overrun(held) < BuffersNum - QueueLen
               PROVE  Intact(held)
    BY DEF HeldIntact
  <2>1. held \in Events /\ Len(queue) \in Nat /\ Len(queue) <= QueueLen
    BY DEF Inv, TypeOK
  <2>2. Age(held) \in Int /\ Overrun(held) \in Int
    <3>1. held.seq \in Nat /\ held.drops \in Nat
      BY <2>1, EventTypes
    <3>2. sent \in Nat /\ dropped \in Nat
      BY DEF Inv, TypeOK
    <3> QED
      BY <3>1, <3>2 DEF Age, Overrun
  <2>3. Age(held) - Overrun(held) <= Len(queue)
    BY DEF Inv, Accounted
  <2>4. Age(held) < BuffersNum
    <3>1. BuffersNum \in Nat /\ QueueLen \in Nat
      BY BuffersNumAssumption, QueueLenAssumption
    <3> QED
      BY <2>1, <2>2, <2>3, <3>1
  <2> QED
    BY <2>4 DEF Inv, Fresh
<1> QED
  BY <1>1, InvariantHolds, PTL

\* Packets are read in the order they were sent.
THEOREM PacketsInOrder == Spec => []Fifo
<1>1. Inv => Fifo
  BY DEF Inv
<1> QED
  BY <1>1, InvariantHolds, PTL
=============================================================================
