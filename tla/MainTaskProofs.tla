--------------------------- MODULE MainTaskProofs ---------------------------
(***************************************************************************)
(* The parser's ring of packet buffers is never overrun, although it has   *)
(* no buffer to spare and no buffer is ever marked as free.                *)
(*                                                                         *)
(* A buffer is taken only by a frame that has left the main queue.  So     *)
(* between the send of an event that points to a buffer and its handling,  *)
(* there are at most as many takings as there are events ahead of it, and  *)
(* the one being handled: fewer than the queue is long, and the ring is as *)
(* long.  The sleep event, which jumps the queue, replaces the one whose   *)
(* handler sent it.                                                        *)
(***************************************************************************)
EXTENDS MainTask, TLAPS

\* The events that main_task can be sent.
Events ==
    {NewVanFrame(frame) : frame \in Frames}
    \union {UartReceive(request) : request \in Requests}
    \union {UartNewData(b, idens) : b \in Buffers, idens \in Seq(KnownIdents)}
    \union PlainEvents

IsNewData(e) == e.event = "UART_NEW_DATA"

\* Takings until the ring comes round to buffer b and overwrites it.
Distance(b) ==
    IF b >= packetBufferNum THEN b - packetBufferNum ELSE b - packetBufferNum + PacketBufferNum

\* Events that will be handled before the i-th of the queue.
Ahead(i) == IF pc = "handle" THEN i ELSE i - 1

\* The buffer of a queued event will not be taken before the event is handled.
Safe(e, ahead) ==
    IsNewData(e) => Unspoilt(e) /\ ahead <= Distance(e.ev_data.buffer)

Types ==
    /\ mainQueue \in Seq(Events)
    /\ Len(mainQueue) <= MainQueueLen
    /\ event \in Events
    /\ packetBuffers \in [Buffers -> Seq(KnownIdents)]
    /\ packetBufferNum \in Buffers

\* The inductive invariant.
Inv ==
    /\ Types
    /\ \A i \in 1 .. Len(mainQueue) : Safe(mainQueue[i], Ahead(i))
    /\ Unspoilt(event)

----------------------------------------------------------------------------

\* What a new-data event looks like, and that nothing else is one.
LEMMA NewDataEvents ==
    ASSUME NEW e \in Events, IsNewData(e)
    PROVE  e.ev_data.buffer \in Buffers
<1>1. ASSUME NEW frame \in Frames PROVE NewVanFrame(frame).event # "UART_NEW_DATA"
  BY DEF NewVanFrame
<1>2. ASSUME NEW request \in Requests PROVE UartReceive(request).event # "UART_NEW_DATA"
  BY DEF UartReceive
<1>3. ASSUME NEW p \in PlainEvents PROVE p.event # "UART_NEW_DATA"
  BY <1>3 DEF PlainEvents, Event
<1>4. PICK b \in Buffers, idens \in Seq(KnownIdents) : e = UartNewData(b, idens)
  BY <1>1, <1>2, <1>3 DEF Events, IsNewData
<1> QED
  BY <1>4 DEF UartNewData

LEMMA PlainEvent ==
    ASSUME NEW name \in {"NONE", "TIMER_1S", "TIMER_1MS", "GLOBAL_SLEEP",
                         "VAN_NEXT_AUDIO_MENU_ITEM", "VAN_UPDATE_AUDIO_MENU",
                         "VAN_CLOSE_AUDIO_MENU"}
    PROVE  Event(name) \in Events /\ ~IsNewData(Event(name))
BY DEF Events, PlainEvents, IsNewData, Event

LEMMA NoEventFacts == NoEvent \in Events /\ ~IsNewData(NoEvent)
BY PlainEvent DEF NoEvent

\* The parser only announces packets that libpsa_send_packet knows.
LEMMA IdensKnown == ASSUME NEW frame PROVE Idens(frame) \in Seq(KnownIdents)
<1>1. /\ PSA_IDENT_ENGINE \in KnownIdents /\ PSA_IDENT_DOORS \in KnownIdents
      /\ PSA_IDENT_TRIP \in KnownIdents /\ PSA_IDENT_DASHBOARD \in KnownIdents
      /\ PSA_IDENT_VIN \in KnownIdents /\ PSA_IDENT_RADIO \in KnownIdents
      /\ PSA_IDENT_RADIO_PRESETS \in KnownIdents /\ PSA_IDENT_CD_PLAYER \in KnownIdents
      /\ PSA_IDENT_HEADUNIT \in KnownIdents /\ PSA_IDENT_CAR_STATUS \in KnownIdents
  BY DEF KnownIdents, DataSizes
<1>2. ASSUME NEW rule \in Rules PROVE rule.idens \in Seq(KnownIdents)
  <2> DEFINE Known(r) == r.idens \in Seq(KnownIdents)
  <2>1. ASSUME NEW iden, NEW size, NEW about, NEW x \in KnownIdents, NEW y \in KnownIdents
        PROVE  Known(Rule(iden, size, about, <<x>>)) /\ Known(Rule(iden, size, about, <<x, y>>))
    BY DEF Rule
  <2>2. Known(RpmRule) /\ Known(TripRule) /\ Known(DashRule)
    BY <1>1, <2>1 DEF RpmRule, TripRule, DashRule
  <2>3. Known(VinRule) /\ Known(TunerRule) /\ Known(CdShortRule)
    BY <1>1, <2>1 DEF VinRule, TunerRule, CdShortRule
  <2>4. Known(CdLongRule) /\ Known(HeadunitRule) /\ Known(InstrumentsShortRule)
    BY <1>1, <2>1 DEF CdLongRule, HeadunitRule, InstrumentsShortRule
  <2>5. Known(InstrumentsLongRule) /\ Known(CarStatus2ShortRule) /\ Known(CarStatus2LongRule)
    BY <1>1, <2>1 DEF InstrumentsLongRule, CarStatus2ShortRule, CarStatus2LongRule
  <2>6. Known(CdcCommandRule)
    BY <1>1, <2>1 DEF CdcCommandRule
  <2> HIDE DEF Known
  <2>7. Known(rule)
    BY <2>2, <2>3, <2>4, <2>5, <2>6 DEF Rules
  <2> QED
    BY <2>7 DEF Known
<1>3. CASE \E rule \in Rules : Applies(rule, frame)
  <2>1. (CHOOSE rule \in Rules : Applies(rule, frame)) \in Rules
    BY <1>3
  <2> QED
    BY <1>2, <1>3, <2>1 DEF Idens
<1>4. CASE ~\E rule \in Rules : Applies(rule, frame)
  BY <1>4 DEF Idens
<1> QED
  BY <1>3, <1>4

\* Taking a buffer brings the ring one step closer to every other buffer, and puts
\* the whole ring between it and the buffer taken.
LEMMA DistanceStep ==
    ASSUME packetBufferNum \in Buffers, packetBufferNum' = NextPacketBuffer(packetBufferNum),
           NEW b \in Buffers
    PROVE  /\ packetBufferNum' \in Buffers
           /\ b # packetBufferNum => Distance(b)' = Distance(b) - 1
           /\ b = packetBufferNum => Distance(b)' = PacketBufferNum - 1
           /\ Distance(b) = 0 => b = packetBufferNum
<1>0. PacketBufferNum \in Nat \ {0}
  BY LengthsAssumption
<1>1. CASE packetBufferNum >= PacketBufferNum - 1
  <2>1. packetBufferNum = PacketBufferNum - 1 /\ packetBufferNum' = 0
    BY <1>0, <1>1 DEF NextPacketBuffer, Buffers
  <2> QED
    BY <1>0, <2>1 DEF Distance, Buffers
<1>2. CASE ~(packetBufferNum >= PacketBufferNum - 1)
  <2>1. packetBufferNum' = packetBufferNum + 1
    BY <1>2 DEF NextPacketBuffer
  <2> QED
    BY <1>0, <1>2, <2>1 DEF Distance, Buffers
<1> QED
  BY <1>1, <1>2

----------------------------------------------------------------------------
(* The steps, by what they do to the queue and to the ring *)

\* An event that no more events are ahead of than before stays safe while no buffer
\* is taken.
LEMMA StaysSafe ==
    ASSUME Inv, UNCHANGED <<packetBuffers, packetBufferNum>>,
           NEW i \in 1 .. Len(mainQueue), NEW j \in 1 .. Len(mainQueue'),
           mainQueue'[j] = mainQueue[i], Ahead(j)' <= Ahead(i)
    PROVE  Safe(mainQueue[j], Ahead(j))'
<1>1. Safe(mainQueue[i], Ahead(i)) /\ mainQueue[i] \in Events
  BY DEF Inv, Types
<1>2. CASE ~IsNewData(mainQueue[i])
  BY <1>2 DEF Safe, IsNewData
<1>3. CASE IsNewData(mainQueue[i])
  <2>1. PICK b \in Buffers : b = mainQueue[i].ev_data.buffer
    BY <1>1, <1>3, NewDataEvents
  <2>2. Unspoilt(mainQueue[i]) /\ Ahead(i) <= Distance(b)
    BY <1>1, <1>3, <2>1 DEF Safe
  <2>3. Ahead(j)' \in Int /\ Ahead(i) \in Int
    BY DEF Ahead
  <2>4. Distance(b) \in Int
    <3>1. packetBufferNum \in Buffers /\ PacketBufferNum \in Nat
      BY LengthsAssumption DEF Inv, Types
    <3> QED
      BY <3>1 DEF Distance, Buffers
  <2>5. mainQueue'[j].ev_data.buffer = b /\ Distance(b)' = Distance(b)
    BY <2>1 DEF Distance
  <2>6. Unspoilt(mainQueue[j])'
    BY <2>2 DEF Unspoilt
  <2> QED
    BY <2>2, <2>3, <2>4, <2>5, <2>6 DEF Safe
<1> QED
  BY <1>2, <1>3

\* The queue and the ring stay as they are, and no event is taken.
LEMMA Calm ==
    ASSUME Inv, UNCHANGED queueVars, event' = event \/ event' = NoEvent,
           pc' = pc \/ pc' # "handle"
    PROVE  Inv'
<1>1. UNCHANGED <<mainQueue, packetBuffers, packetBufferNum>>
  BY DEF queueVars
<1>2. Types' /\ Unspoilt(event)'
  BY <1>1, NoEventFacts DEF Inv, Types, Unspoilt, IsNewData
<1>3. ASSUME NEW i \in 1 .. Len(mainQueue') PROVE Safe(mainQueue[i], Ahead(i))'
  <2>1. i \in 1 .. Len(mainQueue) /\ mainQueue'[i] = mainQueue[i]
    BY <1>1
  <2>2. Ahead(i)' <= Ahead(i)
    BY DEF Ahead
  <2> QED
    BY <1>1, <2>1, <2>2, StaysSafe
<1> QED
  BY <1>2, <1>3 DEF Inv

\* Somebody sends an event that points to no buffer.
LEMMA OtherSent ==
    ASSUME Inv, NEW e \in Events, ~IsNewData(e), Send(e),
           UNCHANGED <<packetBuffers, packetBufferNum>>,
           event' = event \/ event' = NoEvent, pc' = pc \/ pc' # "handle"
    PROVE  Inv'
<1>0. MainQueueLen \in Nat /\ mainQueue \in Seq(Events)
  BY LengthsAssumption DEF Inv, Types
<1>1. CASE mainQueue' = mainQueue
  BY <1>1, Calm DEF queueVars
<1>2. CASE Len(mainQueue) < MainQueueLen /\ mainQueue' = Append(mainQueue, e)
  <2>1. Types' /\ Unspoilt(event)'
    BY <1>0, <1>2, NoEventFacts DEF Inv, Types, Unspoilt, IsNewData
  <2>2. ASSUME NEW i \in 1 .. Len(mainQueue') PROVE Safe(mainQueue[i], Ahead(i))'
    <3>1. CASE i = Len(mainQueue) + 1
      BY <1>0, <1>2, <3>1 DEF Safe, IsNewData
    <3>2. CASE i \in 1 .. Len(mainQueue)
      <4>1. mainQueue'[i] = mainQueue[i]
        BY <1>0, <1>2, <3>2
      <4>2. Ahead(i)' <= Ahead(i)
        BY DEF Ahead
      <4> QED
        BY <3>2, <4>1, <4>2, StaysSafe
    <3> QED
      BY <1>0, <1>2, <3>1, <3>2
  <2> QED
    BY <2>1, <2>2 DEF Inv
<1>3. Len(mainQueue) >= MainQueueLen \/ Len(mainQueue) < MainQueueLen
  BY <1>0
<1> QED
  BY <1>1, <1>2, <1>3 DEF Send, SendToBack, IsFull

\* After a restart the queue is empty.
LEMMA RestartInv ==
    ASSUME NEW where, NEW rtcData, Restart(where, rtcData)
    PROVE  Inv'
<1>1. mainQueue' = <<>> /\ event' = NoEvent /\ packetBufferNum' = 0
  BY DEF Restart
<1>2. packetBuffers' = [b \in Buffers |-> <<>>]
  BY DEF Restart
<1>3. Types'
  BY <1>1, <1>2, NoEventFacts, LengthsAssumption DEF Types, Buffers
<1> QED
  BY <1>1, <1>3, NoEventFacts DEF Inv, Unspoilt, IsNewData

\* Taking an event makes it the one ahead of all others.
LEMMA DequeueInv == ASSUME Inv, Dequeue PROVE Inv'
<1>0. mainQueue \in Seq(Events) /\ mainQueue # <<>> /\ mainQueue' = Tail(mainQueue)
  BY DEF Inv, Types, Dequeue
<1>1. event' = Head(mainQueue) /\ UNCHANGED <<packetBuffers, packetBufferNum>>
  BY DEF Dequeue
<1>2. Types'
  BY <1>0, <1>1, LengthsAssumption DEF Inv, Types
<1>3. Unspoilt(event)'
  <2>1. Safe(mainQueue[1], Ahead(1)) /\ event' = mainQueue[1]
    BY <1>0, <1>1 DEF Inv
  <2> QED
    BY <1>1, <2>1 DEF Safe, Unspoilt, IsNewData
<1>4. ASSUME NEW i \in 1 .. Len(mainQueue') PROVE Safe(mainQueue[i], Ahead(i))'
  <2>1. i + 1 \in 1 .. Len(mainQueue) /\ mainQueue'[i] = mainQueue[i + 1]
    BY <1>0
  <2>2. Ahead(i)' <= Ahead(i + 1)
    BY DEF Ahead, Dequeue
  <2> QED
    BY <1>1, <2>1, <2>2, StaysSafe
<1> QED
  BY <1>2, <1>3, <1>4 DEF Inv

\* The sleep event takes the place, ahead of all others, of the one that was handled.
LEMMA Handle1MSInv == ASSUME Inv, Handle1MS PROVE Inv'
<1>0. MainQueueLen \in Nat /\ mainQueue \in Seq(Events) /\ Len(mainQueue) <= MainQueueLen
  BY LengthsAssumption DEF Inv, Types
<1>1. /\ event' = NoEvent /\ pc = "handle" /\ pc' = "wait"
      /\ UNCHANGED <<packetBuffers, packetBufferNum>>
  BY DEF Handle1MS, Handle, Finish
<1>2. CASE mainQueue' = mainQueue
  BY <1>1, <1>2, Calm DEF queueVars
<1>3. CASE Len(mainQueue) < MainQueueLen /\ mainQueue' = <<Event("GLOBAL_SLEEP")>> \o mainQueue
  <2>1. Event("GLOBAL_SLEEP") \in Events /\ ~IsNewData(Event("GLOBAL_SLEEP"))
    BY PlainEvent
  <2>2. Len(mainQueue') = Len(mainQueue) + 1 /\ mainQueue' \in Seq(Events)
    BY <1>0, <1>3, <2>1
  <2>3. Types' /\ Unspoilt(event)'
    BY <1>0, <1>1, <1>3, <2>2, NoEventFacts DEF Inv, Types, Unspoilt, IsNewData
  <2>4. ASSUME NEW i \in 1 .. Len(mainQueue') PROVE Safe(mainQueue[i], Ahead(i))'
    <3>1. CASE i = 1
      <4>1. mainQueue'[1] = Event("GLOBAL_SLEEP")
        BY <1>0, <1>3
      <4> QED
        BY <2>1, <3>1, <4>1 DEF Safe, IsNewData
    <3>2. CASE i # 1
      <4>1. i - 1 \in 1 .. Len(mainQueue) /\ mainQueue'[i] = mainQueue[i - 1]
        BY <1>0, <1>3, <2>2, <3>2
      <4>2. Ahead(i)' <= Ahead(i - 1)
        BY <1>1 DEF Ahead
      <4> QED
        BY <1>1, <4>1, <4>2, StaysSafe
    <3> QED
      BY <3>1, <3>2
  <2> QED
    BY <2>3, <2>4 DEF Inv
<1>4. mainQueue' = mainQueue \/ mainQueue' = SendToFront(mainQueue, Event("GLOBAL_SLEEP"), MainQueueLen)
  BY DEF Handle1MS
<1>5. Len(mainQueue) >= MainQueueLen \/ Len(mainQueue) < MainQueueLen
  BY <1>0
<1> QED
  BY <1>2, <1>3, <1>4, <1>5 DEF SendToFront, IsFull

\* Parsing a frame takes a buffer, and leaves all others for those who wait for them.
LEMMA HandleVanFrameInv == ASSUME Inv, HandleVanFrame PROVE Inv'
<1> DEFINE frame == event.ev_data
           idens == Idens(frame)
           new == UartNewData(packetBufferNum, idens)
<1>0. /\ MainQueueLen \in Nat /\ mainQueue \in Seq(Events) /\ Len(mainQueue) <= MainQueueLen
      /\ packetBuffers \in [Buffers -> Seq(KnownIdents)] /\ packetBufferNum \in Buffers
      /\ PacketBufferNum \in Nat /\ MainQueueLen <= PacketBufferNum
  BY LengthsAssumption, RingAssumption DEF Inv, Types
<1>1. pc = "handle" /\ pc' = "delay" /\ event' = NoEvent
  BY DEF HandleVanFrame, Handle
<1>2. CASE idens = <<>>
  <2>1. UNCHANGED <<packetBuffers, packetBufferNum>>
    BY <1>2 DEF HandleVanFrame
  <2>2. mainQueue' = mainQueue \/ (ButtonEvent(frame) # NoButton /\ Send(Event(ButtonEvent(frame))))
    BY <1>2 DEF HandleVanFrame
  <2>3. ButtonEvent(frame) \in {NoButton, "VAN_UPDATE_AUDIO_MENU", "VAN_NEXT_AUDIO_MENU_ITEM"}
    BY DEF ButtonEvent
  <2>4. CASE mainQueue' = mainQueue
    BY <1>1, <2>1, <2>4, Calm DEF queueVars
  <2>5. CASE ButtonEvent(frame) # NoButton /\ Send(Event(ButtonEvent(frame)))
    <3>1. Event(ButtonEvent(frame)) \in Events /\ ~IsNewData(Event(ButtonEvent(frame)))
      BY <2>3, <2>5, PlainEvent
    <3> QED
      BY <1>1, <2>1, <2>5, <3>1, OtherSent
  <2> QED
    BY <2>2, <2>4, <2>5
<1>3. CASE idens # <<>>
  <2>1. /\ packetBuffers' = [packetBuffers EXCEPT ![packetBufferNum] = idens]
        /\ packetBufferNum' = NextPacketBuffer(packetBufferNum)
        /\ mainQueue' = SendToBack(mainQueue, new, MainQueueLen)
    BY <1>3 DEF HandleVanFrame, PostIdens, Send
  <2>2. idens \in Seq(KnownIdents)
    BY IdensKnown
  <2>3. new \in Events /\ new.ev_data.buffer = packetBufferNum /\ new.ev_data.idens = idens
    BY <1>0, <2>2 DEF Events, UartNewData
  <2>4. packetBufferNum' \in Buffers
    BY <1>0, <2>1, DistanceStep
  <2>5. \/ mainQueue' = mainQueue
        \/ Len(mainQueue) < MainQueueLen /\ mainQueue' = Append(mainQueue, new)
    BY <1>0, <2>1 DEF SendToBack, IsFull
  <2>6. mainQueue' \in Seq(Events) /\ Len(mainQueue') <= MainQueueLen
    <3>1. new \in Events
      BY <2>3
    <3>2. mainQueue \in Seq(Events) /\ Len(mainQueue) <= MainQueueLen /\ MainQueueLen \in Nat
      BY <1>0
    <3> HIDE DEF new
    <3> QED
      BY <2>5, <3>1, <3>2
  <2>7. packetBuffers' \in [Buffers -> Seq(KnownIdents)]
    <3>1. packetBuffers \in [Buffers -> Seq(KnownIdents)] /\ packetBufferNum \in Buffers
      BY <1>0
    <3>2. packetBuffers' = [packetBuffers EXCEPT ![packetBufferNum] = idens]
      BY <2>1
    <3> HIDE DEF idens
    <3> QED
      BY <2>2, <3>1, <3>2
  <2>8. Types' /\ Unspoilt(event)'
    BY <1>1, <2>4, <2>6, <2>7, NoEventFacts DEF Types, Unspoilt, IsNewData
  \* The buffers of the events in the queue are not the one taken.
  <2>9. ASSUME NEW i \in 1 .. Len(mainQueue), i \in 1 .. Len(mainQueue'), mainQueue'[i] = mainQueue[i]
        PROVE  Safe(mainQueue[i], Ahead(i))'
    <3>1. Safe(mainQueue[i], i) /\ mainQueue[i] \in Events
      BY <1>0, <1>1 DEF Inv, Ahead
    <3>2. CASE ~IsNewData(mainQueue[i])
      BY <2>9, <3>2 DEF Safe, IsNewData
    <3>3. CASE IsNewData(mainQueue[i])
      <4>1. PICK b \in Buffers : b = mainQueue[i].ev_data.buffer
        BY <3>1, <3>3, NewDataEvents
      <4>2. Unspoilt(mainQueue[i]) /\ i <= Distance(b)
        BY <3>1, <3>3, <4>1 DEF Safe
      <4>3. b # packetBufferNum
        BY <4>2, <1>0 DEF Distance, Buffers
      <4>4. Distance(b)' = Distance(b) - 1
        BY <1>0, <2>1, <4>1, <4>3, DistanceStep
      <4>5. packetBuffers'[b] = packetBuffers[b]
        BY <2>1, <1>0, <4>1, <4>3
      <4>6. Unspoilt(mainQueue[i])'
        BY <2>9, <4>1, <4>2, <4>5 DEF Unspoilt
      <4>7. Ahead(i)' = i - 1 /\ Distance(b) \in Int
        BY <1>0, <1>1, <4>1 DEF Ahead, Distance, Buffers
      <4>8. Ahead(i)' <= Distance(b)'
        BY <4>2, <4>4, <4>7
      <4> QED
        BY <2>9, <4>1, <4>6, <4>8 DEF Safe
    <3> QED
      BY <3>2, <3>3
  \* The new event, if there is room for it, has at most the rest of the queue ahead.
  <2>10. ASSUME Len(mainQueue) < MainQueueLen, mainQueue' = Append(mainQueue, new),
                NEW i, i = Len(mainQueue) + 1
         PROVE  Safe(mainQueue[i], Ahead(i))'
    <3>1. mainQueue'[i] = new
      BY <1>0, <2>10
    <3>2. Distance(packetBufferNum) = 0
      BY <1>0 DEF Distance, Buffers
    <3>3. Ahead(i)' = Len(mainQueue)
      BY <1>0, <1>1, <2>10 DEF Ahead
    <3>4. packetBuffers'[packetBufferNum] = idens
      BY <1>0, <2>1
    <3>5. Unspoilt(mainQueue[i])'
      BY <2>3, <3>1, <3>4 DEF Unspoilt
    <3>6. Ahead(i)' <= PacketBufferNum - 1
      BY <1>0, <2>10, <3>3
    <3>7. ASSUME NEW b \in Buffers, b = packetBufferNum PROVE Distance(b)' = PacketBufferNum - 1
      BY <1>0, <2>1, <3>7, DistanceStep
    <3> QED
      BY <1>0, <2>3, <3>1, <3>5, <3>6, <3>7 DEF Safe
  <2>11. ASSUME NEW i \in 1 .. Len(mainQueue') PROVE Safe(mainQueue[i], Ahead(i))'
    <3>1. CASE mainQueue' = mainQueue
      BY <2>9, <3>1
    <3>2. CASE Len(mainQueue) < MainQueueLen /\ mainQueue' = Append(mainQueue, new)
      <4>1. CASE i = Len(mainQueue) + 1
        BY <2>10, <3>2, <4>1
      <4>2. CASE i \in 1 .. Len(mainQueue)
        <5>1. mainQueue'[i] = mainQueue[i]
          BY <1>0, <3>2, <4>2
        <5> QED
          BY <2>9, <4>2, <5>1
      <4> QED
        BY <1>0, <3>2, <4>1, <4>2
    <3> QED
      BY <2>5, <3>1, <3>2
  <2> QED
    BY <2>8, <2>11 DEF Inv
<1> QED
  BY <1>2, <1>3

----------------------------------------------------------------------------
(* The theorem *)

LEMMA InitInv == Init => Inv
<1> SUFFICES ASSUME Init PROVE Inv
  OBVIOUS
<1>1. mainQueue = <<>> /\ event = NoEvent /\ packetBufferNum = 0
  BY DEF Init
<1>2. packetBuffers = [b \in Buffers |-> <<>>]
  BY DEF Init
<1>3. Types
  BY <1>1, <1>2, NoEventFacts, LengthsAssumption DEF Types, Buffers
<1> QED
  BY <1>1, <1>3, NoEventFacts DEF Inv, Unspoilt, IsNewData

LEMMA NextInv == Inv /\ [Next]_vars => Inv'
<1> SUFFICES ASSUME Inv, [Next]_vars PROVE Inv'
  OBVIOUS
<1>1. CASE UNCHANGED vars
  BY <1>1, Calm DEF vars
<1>2. ASSUME NEW frame \in Frames, VanFrame(frame) PROVE Inv'
  <2>1. NewVanFrame(frame) \in Events /\ ~IsNewData(NewVanFrame(frame))
    BY DEF Events, NewVanFrame, IsNewData
  <2> QED
    BY <1>2, <2>1, OtherSent DEF VanFrame
<1>3. ASSUME NEW request \in Requests, UartRequest(request) PROVE Inv'
  <2>1. UartReceive(request) \in Events /\ ~IsNewData(UartReceive(request))
    BY DEF Events, UartReceive, IsNewData
  <2> QED
    BY <1>3, <2>1, OtherSent DEF UartRequest
<1>4. CASE Timer1S
  BY <1>4, PlainEvent, OtherSent DEF Timer1S
<1>5. CASE TimerOneshot
  BY <1>5, PlainEvent, OtherSent DEF TimerOneshot, SendOnce
<1>6. CASE TimerAudioTimeout
  BY <1>6, PlainEvent, OtherSent DEF TimerAudioTimeout, SendOnce
<1>7. CASE UartTakes \/ TssTakes \/ BatteryChanges
  BY <1>7, Calm DEF UartTakes, TssTakes, BatteryChanges
<1>8. CASE Wake \/ PowerCycle \/ HandleSleep
  BY <1>8, RestartInv DEF Wake, PowerCycle, HandleSleep
<1>9. CASE Dequeue
  BY <1>9, DequeueInv
<1>10. CASE ReceiveTimesOut \/ DelayOver \/ TssWaitOver
  BY <1>10, Calm DEF ReceiveTimesOut, DelayOver, TssWaitOver, Finish
<1>11. CASE HandleVanFrame
  BY <1>11, HandleVanFrameInv
<1>12. CASE HandleNewData \/ HandleUpdateMenu \/ HandleUartReceive
  BY <1>12, Calm DEF HandleNewData, HandleUpdateMenu, HandleUartReceive, Handle, Finish, ShowMenu
<1>13. CASE Handle1S
  BY <1>13, Calm DEF Handle1S, Handle, Finish
<1>14. CASE Handle1MS
  BY <1>14, Handle1MSInv
<1>15. CASE HandleNextItem \/ HandleCloseMenu
  BY <1>15, Calm DEF HandleNextItem, HandleCloseMenu, Handle, Finish, ShowMenu
<1> QED
  BY <1>1, <1>2, <1>3, <1>4, <1>5, <1>6, <1>7, <1>8, <1>9, <1>10, <1>11, <1>12, <1>13,
     <1>14, <1>15 DEF Next, MainTask, Environment

\* A packet buffer keeps its identifiers until main_task handles the event that points
\* to it, however many events are dropped, for every ring that is no shorter than the
\* main queue (van_packet_parser.c:49-56).
THEOREM BuffersIntact == Spec => []PacketBuffersIntact
<1>1. Inv => PacketBuffersIntact
  <2>1. ASSUME Inv, NEW i \in 1 .. Len(mainQueue) PROVE Unspoilt(mainQueue[i])
    BY <2>1 DEF Inv, Safe, Unspoilt, IsNewData
  <2> QED
    BY <2>1 DEF Inv, PacketBuffersIntact
<1> QED
  BY <1>1, InitInv, NextInv, PTL DEF Spec
=============================================================================
