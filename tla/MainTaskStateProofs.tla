------------------------- MODULE MainTaskStateProofs -------------------------
(***************************************************************************)
(* What main_task keeps: its types, the audio menu and what will close it, *)
(* the chain of battery measurements, the presets, and that what is        *)
(* written into the data buffers is sent.                                  *)
(***************************************************************************)
EXTENDS MainTaskProofs, FiniteSetTheorems

\* The stations a radio can name, and what the presets of four bands look like.
Stations == {NoStation} \union {frame.value.station : frame \in Frames}
Presets == [PresetBands -> [name : [PresetNums -> Stations], preset_num : 0 .. 6]]

\* The data buffers are a record of these fields; what the car sends in the plain
\* ones is not restricted.
DataFields ==
    {"engine_running", "accesories_on", "ignition_on", "unit_powered_on", "doors_locked",
     "cd_changer_command", "presets", "settings_menu_open", "settings_changing"}
IsData(d) == d = [f \in DataFields |-> d[f]] /\ d.presets \in Presets

UartView == [queued : 0 .. UartQueueLen, stale : SUBSET (KnownIdents \intersect Tracked),
             missed : SUBSET Tracked]
TssWrites == [packet : {"tss_packet", "tss_trip_packet"}, asked : {"NONE", "A", "B"}]

\* Where main_task is, and what it has in hand.
TaskTypes ==
    /\ pc \in {"wait", "handle", "delay", "tssWait", "asleep"}
    /\ pc = "handle" <=> event # NoEvent
    /\ \A i \in 1 .. Len(mainQueue) : mainQueue[i] # NoEvent

\* What it keeps.
DataTypes ==
    /\ IsData(data)
    /\ carState \in CarStates
    /\ extPower \in 0 .. 1 /\ extReg \in 0 .. 1
    /\ uart \in UartView

TimerTypes ==
    /\ audioMenuOpen \in 0 .. 1 /\ audioMenuSetting \in 0 .. 6
    /\ menuTimer \in BOOLEAN /\ oneshot \in BOOLEAN /\ battery \in BOOLEAN
    /\ rtc \in [valid : BOOLEAN, presets : Presets]
    /\ ticks \in 0 .. MaxTicks

TssTypes ==
    /\ tssQueue \in Seq(TssWrites) /\ Len(tssQueue) <= TssQueueLen
    /\ cdcHeader \in 0 .. HeaderMax
    /\ tripReset \in {"NONE", "A", "B"}

StateTypes == TaskTypes /\ DataTypes /\ TimerTypes /\ TssTypes

----------------------------------------------------------------------------
(* What the parser, the sender and the end of a handler do to the data *)

LEMMA NoPresetsType == [band \in PresetBands |-> NoPresets] \in Presets
BY DEF Presets, NoPresets, Stations

LEMMA InitialDataType ==
    ASSUME NEW presets \in Presets
    PROVE  IsData(InitialData(presets)) /\ InitialData(presets).presets = presets
BY DEF IsData, InitialData, DataFields

\* A frame changes no preset but the one it stores, nor what the menu shows.
LEMMA StoredPreset ==
    ASSUME NEW presets \in Presets, NEW frame \in Frames
    PROVE  LET stored == StorePreset(presets, frame.value)
           IN  /\ stored \in Presets
               /\ \A band \in PresetBands, n \in PresetNums :
                    stored[band].name[n] # presets[band].name[n] =>
                        frame.value.band = band /\ frame.value.preset = n
<1> DEFINE value == frame.value
           stored == StorePreset(presets, value)
<1>1. CASE value.band \in PresetBands /\ value.preset \in PresetNums
  <2>1. PICK b \in PresetBands, p \in PresetNums : b = value.band /\ p = value.preset
    BY <1>1
  <2>2. PICK s \in Stations : s = value.station
    BY DEF Stations
  <2>3. stored = [presets EXCEPT ![b].name[p] = s, ![b].preset_num = p]
    BY <1>1, <2>1, <2>2 DEF StorePreset
  <2>4. PICK old \in [name : [PresetNums -> Stations], preset_num : 0 .. 6] : old = presets[b]
    BY DEF Presets
  <2>5. PICK new \in [name : [PresetNums -> Stations], preset_num : 0 .. 6] :
            new = [name |-> [old.name EXCEPT ![p] = s], preset_num |-> p]
    <3>1. p \in 0 .. 6 /\ [old.name EXCEPT ![p] = s] \in [PresetNums -> Stations]
      <4>1. p \in 0 .. 6
        BY DEF PresetNums
      <4>2. old.name \in [PresetNums -> Stations]
        BY <2>4
      <4> QED
        BY <4>1, <4>2
    <3> QED
      BY <3>1
  <2>6. stored = [presets EXCEPT ![b] = new]
    BY <2>3, <2>4, <2>5 DEF Presets
  <2>7. stored \in Presets /\ stored[b] = new /\ \A c \in PresetBands \ {b} : stored[c] = presets[c]
    BY <2>6 DEF Presets
  <2>8. \A n \in PresetNums : n # p => new.name[n] = old.name[n]
    BY <2>5
  <2> HIDE DEF stored
  <2> QED
    BY <2>1, <2>4, <2>7, <2>8 DEF stored
<1>2. CASE ~(value.band \in PresetBands /\ value.preset \in PresetNums)
  BY <1>2 DEF StorePreset
<1> QED
  BY <1>1, <1>2

\* What psa_parse_van_packet leaves alone.
LEMMA ParsedDataFacts ==
    ASSUME NEW d, IsData(d), NEW frame \in Frames
    PROVE  LET parsed == ParsedData(frame, d)
           IN  /\ IsData(parsed)
               /\ parsed.settings_menu_open = d.settings_menu_open
               /\ parsed.settings_changing = d.settings_changing
               /\ \A band \in PresetBands, n \in PresetNums :
                    parsed.presets[band].name[n] # d.presets[band].name[n] =>
                        /\ frame.iden = PSA_VAN_IDEN_HEAD_UNIT
                        /\ frame.value.band = band /\ frame.value.preset = n
<1> DEFINE value == frame.value
           Goal(e) ==
                /\ IsData(e)
                /\ e.settings_menu_open = d.settings_menu_open
                /\ e.settings_changing = d.settings_changing
                /\ \A band \in PresetBands, n \in PresetNums :
                    e.presets[band].name[n] # d.presets[band].name[n] =>
                        /\ frame.iden = PSA_VAN_IDEN_HEAD_UNIT
                        /\ value.band = band /\ value.preset = n
<1>0. d = [f \in DataFields |-> d[f]] /\ d.presets \in Presets
  BY DEF IsData
<1>1. Goal(d)
  OBVIOUS
<1>2. Goal(ParsedDash(value, d))
  BY <1>0 DEF ParsedDash, IsData, DataFields
<1>3. Goal(ParsedHeadunit(value, d)) /\ Goal(ParsedCarStatus2(value, d))
  BY <1>0 DEF ParsedHeadunit, ParsedCarStatus2, IsData, DataFields
<1>4. Goal(ParsedCdcCommand(value, d))
  BY <1>0 DEF ParsedCdcCommand, IsData, DataFields
<1>5. ASSUME frame.iden = PSA_VAN_IDEN_HEAD_UNIT PROVE Goal(ParsedTuner(value, d))
  <2>1. PICK stored \in Presets : stored = StorePreset(d.presets, value)
    BY <1>0, StoredPreset
  <2>2. ParsedTuner(value, d) = [d EXCEPT !.presets = stored]
    BY <2>1 DEF ParsedTuner
  <2>3. \A band \in PresetBands, n \in PresetNums :
            stored[band].name[n] # d.presets[band].name[n] =>
                value.band = band /\ value.preset = n
    BY <1>0, <2>1, StoredPreset
  <2> QED
    BY <1>0, <1>5, <2>2, <2>3 DEF IsData, DataFields
<1> HIDE DEF Goal, value
<1>6. Goal(ParsedData(frame, d))
  BY <1>1, <1>2, <1>3, <1>4, <1>5 DEF ParsedData, value
<1> QED
  BY <1>6 DEF Goal, value

Identifiers(idens) == {idens[i] : i \in 1 .. Len(idens)}

\* Of the packets sent, those that find no room are missed; the others are up to date.
LEMMA SendPacketsFacts ==
    ASSUME NEW u \in UartView, NEW S, NEW idens \in Seq(S)
    PROVE  LET sent == SendPackets(u, idens)
           IN  /\ sent \in UartView
               /\ sent.stale \subseteq u.stale
               /\ u.stale \ Identifiers(idens) \subseteq sent.stale
               /\ sent.stale \intersect (u.missed \union Identifiers(idens)) \subseteq sent.missed
<1> DEFINE room == UartQueueLen - u.queued
           accepted == {idens[i] : i \in {j \in 1 .. Len(idens) : j <= room}}
           refused == {idens[i] : i \in {j \in 1 .. Len(idens) : j > room}}
           queued == IF Len(idens) <= room THEN u.queued + Len(idens) ELSE UartQueueLen
           stale == u.stale \ accepted
           missed == (u.missed \union (refused \intersect Tracked)) \ accepted
<1>0. /\ u.queued \in 0 .. UartQueueLen /\ u.stale \subseteq KnownIdents \intersect Tracked
      /\ u.missed \subseteq Tracked /\ UartQueueLen \in Nat /\ Len(idens) \in Nat
  BY UartQueueLenAssumption DEF UartView
<1>1. SendPackets(u, idens) = [queued |-> queued, stale |-> stale, missed |-> missed]
  BY DEF SendPackets
<1>2. queued \in 0 .. UartQueueLen
  BY <1>0
<1>3. stale \subseteq KnownIdents \intersect Tracked /\ missed \subseteq Tracked
  BY <1>0
<1>4. accepted \subseteq Identifiers(idens) /\ Identifiers(idens) \subseteq accepted \union refused
  BY <1>0 DEF Identifiers
<1>5. /\ stale \subseteq u.stale /\ u.stale \ Identifiers(idens) \subseteq stale
      /\ stale \intersect (u.missed \union Identifiers(idens)) \subseteq missed
  <2> HIDE DEF accepted, refused
  <2> QED
    BY <1>0, <1>4
<1> HIDE DEF queued, stale, missed
<1> QED
  BY <1>1, <1>2, <1>3, <1>5 DEF UartView

LEMMA WrittenFacts ==
    ASSUME NEW u \in UartView, NEW idens \in SUBSET KnownIdents
    PROVE  /\ Written(u, idens) \in UartView
           /\ Written(u, idens).stale = u.stale \union (idens \intersect Tracked)
           /\ Written(u, idens).missed = u.missed
           /\ Missed(u, idens) \in UartView
           /\ Missed(u, idens).stale = u.stale
           /\ Missed(u, idens).missed = u.missed \union (idens \intersect Tracked)
BY DEF UartView, Written, Missed

LEMMA CarFacts ==
    ASSUME NEW d, NEW power \in 0 .. 1
    PROVE  CarStateOf(d) \in CarStates /\ ExtPowerState(CarStateOf(d), power) \in 0 .. 1
BY DEF CarStateOf, CarStates, ExtPowerState

LEMMA StatusKnown == PSA_IDENT_CAR_STATUS \in KnownIdents /\ PSA_IDENT_HEADUNIT \in KnownIdents
BY DEF KnownIdents, DataSizes

\* The end of a handler keeps the presets and what the menu shows as it was told to.
LEMMA FinishFacts ==
    ASSUME DataTypes, NEW newData, IsData(newData), NEW written \in SUBSET KnownIdents,
           NEW S, NEW idens \in Seq(S), Finish(newData, written, idens)
    PROVE  /\ DataTypes'
           /\ pc' = "wait"
           /\ data'.presets = newData.presets
           /\ data'.settings_menu_open = newData.settings_menu_open
           /\ data'.settings_changing = newData.settings_changing
<1> DEFINE sent == SendPackets(Written(uart, written), idens)
           told == SendPackets(Written(sent, {PSA_IDENT_CAR_STATUS}), <<PSA_IDENT_CAR_STATUS>>)
<1>1. sent \in UartView
  BY WrittenFacts, SendPacketsFacts DEF DataTypes
<1>2. told \in UartView
  <2>1. Written(sent, {PSA_IDENT_CAR_STATUS}) \in UartView
    BY <1>1, StatusKnown, WrittenFacts
  <2>2. <<PSA_IDENT_CAR_STATUS>> \in Seq({PSA_IDENT_CAR_STATUS})
    OBVIOUS
  <2> QED
    BY <2>1, <2>2, SendPacketsFacts
<1>3. uart' = sent \/ uart' = told
  BY DEF Finish
<1>4. data' = newData \/ data' = [newData EXCEPT !.cd_changer_command = "NONE"]
  BY DEF Finish
<1>5. /\ IsData(data)' /\ data'.presets = newData.presets
      /\ data'.settings_menu_open = newData.settings_menu_open
      /\ data'.settings_changing = newData.settings_changing
  <2>1. newData = [f \in DataFields |-> newData[f]] /\ newData.presets \in Presets
    BY DEF IsData
  <2> QED
    BY <1>4, <2>1 DEF IsData, DataFields
<1>6. carState' \in CarStates /\ extPower' \in 0 .. 1 /\ extReg' \in 0 .. 1 /\ pc' = "wait"
  BY CarFacts DEF Finish, DataTypes
<1> QED
  BY <1>1, <1>2, <1>3, <1>5, <1>6 DEF DataTypes

----------------------------------------------------------------------------
(* Types *)

\* An event that is sent is at one end of the queue, or the queue stays as it is.
Joins(e, queue, longer) ==
    longer \in {queue, Append(queue, e), <<e>> \o queue}

LEMMA JoinsFacts ==
    ASSUME NEW queue \in Seq(Events), NEW e \in Events, NEW longer, Joins(e, queue, longer)
    PROVE  /\ longer \in Seq(Events)
           /\ \A i \in 1 .. Len(queue) : \E j \in 1 .. Len(longer) : longer[j] = queue[i]
           /\ \A j \in 1 .. Len(longer) :
                longer[j] = e \/ \E i \in 1 .. Len(queue) : longer[j] = queue[i]
<1>0. Len(queue) \in Nat
  OBVIOUS
<1>1. CASE longer = queue
  BY <1>1
<1>2. CASE longer = Append(queue, e)
  <2>1. longer \in Seq(Events) /\ Len(longer) = Len(queue) + 1 /\ longer[Len(longer)] = e
    BY <1>2
  <2>2. \A i \in 1 .. Len(queue) : i \in 1 .. Len(longer) /\ longer[i] = queue[i]
    BY <1>0, <1>2, <2>1
  <2>3. \A j \in 1 .. Len(longer) : j = Len(longer) \/ j \in 1 .. Len(queue)
    BY <1>0, <2>1
  <2> QED
    BY <2>1, <2>2, <2>3
<1>3. CASE longer = <<e>> \o queue
  <2>1. longer \in Seq(Events) /\ Len(longer) = Len(queue) + 1 /\ longer[1] = e
    BY <1>3
  <2>2. \A i \in 1 .. Len(queue) : i + 1 \in 1 .. Len(longer) /\ longer[i + 1] = queue[i]
    BY <1>0, <1>3, <2>1
  <2>3. \A j \in 1 .. Len(longer) :
            j = 1 \/ (j - 1 \in 1 .. Len(queue) /\ longer[j] = queue[j - 1])
    BY <1>0, <1>3, <2>1
  <2> QED
    BY <2>1, <2>2, <2>3
<1> QED
  BY <1>1, <1>2, <1>3 DEF Joins

LEMMA SendJoins == ASSUME NEW e, Send(e) PROVE Joins(e, mainQueue, mainQueue')
BY DEF Send, SendToBack, Joins

\* No event is none at all.
LEMMA EventNames ==
    /\ \A frame : NewVanFrame(frame) # NoEvent /\ NewVanFrame(frame).event = "RMT_NEW_VAN_FRAME"
    /\ \A request : UartReceive(request) # NoEvent /\ UartReceive(request).event = "UART_RECEIVE"
    /\ \A b, idens : UartNewData(b, idens) # NoEvent /\ UartNewData(b, idens).event = "UART_NEW_DATA"
    /\ \A name : Event(name).event = name
    /\ \A name : name # "NONE" => Event(name) # NoEvent
    /\ NoEvent.event = "NONE"
BY DEF NewVanFrame, UartReceive, UartNewData, NoEvent, Event

\* A step that sends main_task one event at most, and has it go on at `where'.
LEMMA SentTypes ==
    ASSUME Types, TaskTypes, NEW e \in Events, e # NoEvent, Joins(e, mainQueue, mainQueue'),
           \/ pc' = pc /\ event' = event
           \/ pc' \in {"wait", "delay", "tssWait"} /\ event' = NoEvent
    PROVE  TaskTypes'
<1>1. mainQueue \in Seq(Events)
  BY DEF Types
<1>2. \A j \in 1 .. Len(mainQueue') :
        mainQueue'[j] = e \/ \E i \in 1 .. Len(mainQueue) : mainQueue'[j] = mainQueue[i]
  BY <1>1, JoinsFacts
<1> QED
  BY <1>2 DEF TaskTypes

\* A step that sends nothing.
LEMMA QuietTypes ==
    ASSUME TaskTypes, UNCHANGED mainQueue,
           \/ pc' = pc /\ event' = event
           \/ pc' \in {"wait", "delay", "tssWait"} /\ event' = NoEvent
    PROVE  TaskTypes'
BY DEF TaskTypes

LEMMA DequeueTypes == ASSUME Types, TaskTypes, Dequeue PROVE TaskTypes'
<1>1. mainQueue \in Seq(Events) /\ mainQueue # <<>> /\ mainQueue' = Tail(mainQueue)
  BY DEF Types, Dequeue
<1>2. event' = mainQueue[1] /\ event' # NoEvent /\ pc' = "handle"
  BY <1>1 DEF Dequeue, TaskTypes
<1>3. \A i \in 1 .. Len(mainQueue') : i + 1 \in 1 .. Len(mainQueue) /\ mainQueue'[i] = mainQueue[i + 1]
  BY <1>1
<1> QED
  BY <1>2, <1>3 DEF TaskTypes

LEMMA RestartTypes ==
    ASSUME NEW where \in {"wait", "asleep"}, NEW rtcData \in [valid : BOOLEAN, presets : Presets],
           Restart(where, rtcData), battery \in BOOLEAN, UNCHANGED battery
    PROVE  StateTypes' /\ data'.presets = BootPresets(rtcData)
<1>1. BootPresets(rtcData) \in Presets
  BY NoPresetsType DEF BootPresets
<1>2. IsData(data)' /\ data'.presets = BootPresets(rtcData)
  BY <1>1, InitialDataType DEF Restart, IsData
<1>3. NoUart \in UartView
  BY UartQueueLenAssumption DEF NoUart, UartView
<1>4. DataTypes'
  BY <1>2, <1>3 DEF Restart, DataTypes, CarStates
<1>5. TaskTypes'
  BY DEF Restart, TaskTypes
<1>6. TimerTypes'
  <2>1. menuTimer' \in BOOLEAN /\ oneshot' \in BOOLEAN /\ battery' \in BOOLEAN
    BY DEF Restart
  <2>2. audioMenuOpen' \in 0 .. 1 /\ audioMenuSetting' \in 0 .. 6 /\ ticks' \in 0 .. MaxTicks
    BY BoundsAssumption DEF Restart
  <2>3. rtc' \in [valid : BOOLEAN, presets : Presets]
    BY DEF Restart
  <2> QED
    BY <2>1, <2>2, <2>3 DEF TimerTypes
<1>7. TssTypes'
  BY BoundsAssumption, LengthsAssumption DEF Restart, TssTypes
<1> QED
  BY <1>2, <1>4, <1>5, <1>6, <1>7 DEF StateTypes

LEMMA InitTypes == Init => StateTypes
<1> SUFFICES ASSUME Init PROVE StateTypes
  OBVIOUS
<1>1. BootPresets(NoRtcData) = [band \in PresetBands |-> NoPresets]
  BY DEF BootPresets, NoRtcData
<1>2. IsData(data)
  BY <1>1, NoPresetsType, InitialDataType DEF Init
<1>3. NoUart \in UartView
  BY UartQueueLenAssumption DEF NoUart, UartView
<1>4. DataTypes
  BY <1>2, <1>3 DEF Init, DataTypes, CarStates
<1>5. NoRtcData \in [valid : BOOLEAN, presets : Presets]
  BY NoPresetsType DEF NoRtcData
<1>6. TimerTypes
  <2>1. menuTimer \in BOOLEAN /\ oneshot \in BOOLEAN /\ battery \in BOOLEAN
    BY DEF Init
  <2>2. audioMenuOpen \in 0 .. 1 /\ audioMenuSetting \in 0 .. 6 /\ ticks \in 0 .. MaxTicks
    BY BoundsAssumption DEF Init
  <2>3. rtc \in [valid : BOOLEAN, presets : Presets]
    BY <1>5 DEF Init
  <2> QED
    BY <2>1, <2>2, <2>3 DEF TimerTypes
<1>7. TaskTypes /\ TssTypes
  BY BoundsAssumption, LengthsAssumption DEF Init, TaskTypes, TssTypes
<1> QED
  BY <1>4, <1>6, <1>7 DEF StateTypes

\* A handler that has only the state of the car to look after.
LEMMA PlainFinish ==
    ASSUME DataTypes, NEW S, NEW idens \in Seq(S), Finish(data, {}, idens)
    PROVE  /\ DataTypes' /\ pc' = "wait" /\ data'.presets = data.presets
           /\ data'.settings_menu_open = data.settings_menu_open
           /\ data'.settings_changing = data.settings_changing
<1>1. IsData(data) /\ {} \in SUBSET KnownIdents
  BY DEF DataTypes
<1> QED
  BY <1>1, FinishFacts

LEMMA ShowMenuFacts ==
    ASSUME DataTypes, NEW open, NEW setting, ShowMenu(open, setting)
    PROVE  /\ DataTypes' /\ pc' = "wait" /\ data'.presets = data.presets
           /\ data'.settings_menu_open = open
           /\ data'.settings_changing = Changing(setting)
<1>1. PICK newData : newData = [data EXCEPT !.settings_menu_open = open,
                                            !.settings_changing = Changing(setting)]
  OBVIOUS
<1>2. data = [f \in DataFields |-> data[f]] /\ data.presets \in Presets
  BY DEF DataTypes, IsData
<1>3. /\ IsData(newData) /\ newData.presets = data.presets
      /\ newData.settings_menu_open = open /\ newData.settings_changing = Changing(setting)
  BY <1>1, <1>2 DEF IsData, DataFields
<1>4. Finish(newData, {PSA_IDENT_HEADUNIT}, <<PSA_IDENT_HEADUNIT>>)
  BY <1>1 DEF ShowMenu
<1>5. <<PSA_IDENT_HEADUNIT>> \in Seq({PSA_IDENT_HEADUNIT})
  OBVIOUS
<1> QED
  BY <1>3, <1>4, <1>5, StatusKnown, FinishFacts

\* The frame, and the buffer, an event leads to.
LEMMA FrameEvents ==
    ASSUME NEW e \in Events, e.event = "RMT_NEW_VAN_FRAME"
    PROVE  e.ev_data \in Frames
<1>1. PICK frame \in Frames : e = NewVanFrame(frame)
  <2>1. ASSUME NEW p \in PlainEvents PROVE p.event # "RMT_NEW_VAN_FRAME"
    BY <2>1 DEF PlainEvents, Event
  <2> QED
    BY <2>1, EventNames DEF Events
<1> QED
  BY <1>1 DEF NewVanFrame

\* What the handler of a frame sends.
LEMMA FrameSends ==
    ASSUME Inv, HandleVanFrame
    PROVE  \E e \in Events : /\ Joins(e, mainQueue, mainQueue')
                             /\ e.event # "TIMER_1MS" /\ e # NoEvent
<1> DEFINE frame == event.ev_data
           idens == Idens(frame)
<1>2. idens \in Seq(KnownIdents)
  BY IdensKnown
<1>3. CASE idens # <<>>
  <2>1. Send(UartNewData(packetBufferNum, idens))
    BY <1>3 DEF HandleVanFrame, PostIdens
  <2>2. UartNewData(packetBufferNum, idens) \in Events
    BY <1>2 DEF Events, Inv, Types
  <2> QED
    BY <2>1, <2>2, SendJoins, EventNames
<1>4. CASE idens = <<>> /\ ButtonEvent(frame) # NoButton
  <2>1. Send(Event(ButtonEvent(frame)))
    BY <1>4 DEF HandleVanFrame
  <2>2. ButtonEvent(frame) \in {"VAN_UPDATE_AUDIO_MENU", "VAN_NEXT_AUDIO_MENU_ITEM"}
    <3>1. ButtonEvent(frame) \in {NoButton, "VAN_UPDATE_AUDIO_MENU", "VAN_NEXT_AUDIO_MENU_ITEM"}
      BY DEF ButtonEvent
    <3> QED
      BY <1>4, <3>1
  <2>3. Event(ButtonEvent(frame)) \in Events
    BY <2>2, PlainEvent
  <2>4. ButtonEvent(frame) # "NONE" /\ ButtonEvent(frame) # "TIMER_1MS"
    BY <2>2
  <2> QED
    BY <2>1, <2>3, <2>4, SendJoins, EventNames
<1>5. CASE idens = <<>> /\ ButtonEvent(frame) = NoButton
  <2>1. mainQueue' = mainQueue
    BY <1>5 DEF HandleVanFrame
  <2>2. Event("TIMER_1S") \in Events /\ Event("TIMER_1S") # NoEvent
        /\ Event("TIMER_1S").event # "TIMER_1MS"
    BY PlainEvent, EventNames
  <2> QED
    BY <2>1, <2>2 DEF Joins
<1> QED
  BY <1>3, <1>4, <1>5

LEMMA HandleVanFrameTypes ==
    ASSUME Inv, StateTypes, HandleVanFrame
    PROVE  StateTypes'
<1> DEFINE frame == event.ev_data
           idens == Idens(frame)
           changed == {idens[i] : i \in 1 .. Len(idens)}
<1>1. frame \in Frames /\ pc' = "delay" /\ event' = NoEvent
  BY FrameEvents DEF HandleVanFrame, Handle, Inv, Types
<1>2. idens \in Seq(KnownIdents)
  BY IdensKnown
<1>3. changed \in SUBSET KnownIdents
  <2> HIDE DEF idens
  <2> QED
    BY <1>2
<1>4. IsData(data)'
  <2>1. data' = ParsedData(frame, data)
    BY DEF HandleVanFrame
  <2> QED
    BY <1>1, <2>1, ParsedDataFacts DEF StateTypes, DataTypes, IsData
<1>5. uart' \in UartView
  <2>1. uart' = Missed(Written(uart, changed), changed) \/ uart' = Written(uart, changed)
    BY DEF HandleVanFrame
  <2>2. Written(uart, changed) \in UartView
    BY <1>3, WrittenFacts DEF StateTypes, DataTypes
  <2> HIDE DEF changed
  <2> QED
    BY <1>3, <2>1, <2>2, WrittenFacts
<1>6. DataTypes'
  BY <1>4, <1>5 DEF HandleVanFrame, StateTypes, DataTypes
<1>7. PICK e \in Events : e # NoEvent /\ Joins(e, mainQueue, mainQueue')
  BY FrameSends
<1>8. TaskTypes'
  BY <1>1, <1>7, SentTypes DEF Inv, StateTypes
<1>9. UNCHANGED <<menuVars, ticks, tssVars, sleepVars>>
  BY DEF HandleVanFrame
<1> QED
  BY <1>6, <1>8, <1>9 DEF StateTypes, TimerTypes, TssTypes, menuVars, tssVars, sleepVars

\* A packet for tss_task, sent or not.
LEMMA TssSent ==
    ASSUME TssTypes, NEW write \in TssWrites,
           tssQueue' = tssQueue \/ tssQueue' = SendToBack(tssQueue, write, TssQueueLen)
    PROVE  tssQueue' \in Seq(TssWrites) /\ Len(tssQueue') <= TssQueueLen
<1>1. tssQueue \in Seq(TssWrites) /\ Len(tssQueue) <= TssQueueLen /\ TssQueueLen \in Nat
  BY LengthsAssumption DEF TssTypes
<1> QED
  BY <1>1 DEF SendToBack, IsFull

LEMMA TimerEventTypes ==
    ASSUME Types, StateTypes,
           NEW name \in {"TIMER_1S", "TIMER_1MS", "GLOBAL_SLEEP", "VAN_CLOSE_AUDIO_MENU"},
           Joins(Event(name), mainQueue, mainQueue'),
           \/ pc' = pc /\ event' = event
           \/ pc' \in {"wait", "delay", "tssWait"} /\ event' = NoEvent
    PROVE  TaskTypes'
<1>1. name # "NONE"
  OBVIOUS
<1>2. Event(name) \in Events /\ Event(name) # NoEvent
  BY <1>1, PlainEvent, EventNames
<1> QED
  BY <1>2, SentTypes DEF StateTypes

LEMMA EnvironmentTypes == ASSUME Inv, StateTypes, Environment PROVE StateTypes'
<1>0. Types /\ TaskTypes /\ DataTypes /\ TimerTypes /\ TssTypes
  BY DEF Inv, StateTypes
<1>1. ASSUME NEW frame \in Frames, VanFrame(frame) PROVE StateTypes'
  <2>1. NewVanFrame(frame) \in Events /\ NewVanFrame(frame) # NoEvent
    BY EventNames DEF Events
  <2>2. TaskTypes'
    BY <1>0, <1>1, <2>1, SendJoins, SentTypes DEF VanFrame
  <2> QED
    BY <1>0, <1>1, <2>2
       DEF VanFrame, StateTypes, DataTypes, TimerTypes, TssTypes, carVars, menuVars, tssVars, sleepVars
<1>2. ASSUME NEW request \in Requests, UartRequest(request) PROVE StateTypes'
  <2>1. UartReceive(request) \in Events /\ UartReceive(request) # NoEvent
    BY EventNames DEF Events
  <2>2. TaskTypes'
    BY <1>0, <1>2, <2>1, SendJoins, SentTypes DEF UartRequest
  <2> QED
    BY <1>0, <1>2, <2>2
       DEF UartRequest, StateTypes, DataTypes, TimerTypes, TssTypes, carVars, menuVars, tssVars, sleepVars
<1>3. CASE Timer1S
  <2>1. TaskTypes'
    BY <1>0, <1>3, SendJoins, TimerEventTypes DEF Timer1S, StateTypes
  <2>2. ticks' \in 0 .. MaxTicks
    BY <1>0, <1>3, BoundsAssumption DEF Timer1S, TimerTypes
  <2> QED
    BY <1>0, <1>3, <2>1, <2>2
       DEF Timer1S, StateTypes, DataTypes, TimerTypes, TssTypes, carVars, menuVars, tssVars, sleepVars
<1>4. CASE TimerOneshot
  <2>1. TaskTypes'
    BY <1>0, <1>4, SendJoins, TimerEventTypes DEF TimerOneshot, SendOnce, StateTypes
  <2>2. oneshot' \in BOOLEAN
    BY <1>4 DEF TimerOneshot
  <2> QED
    BY <1>0, <1>4, <2>1, <2>2
       DEF TimerOneshot, StateTypes, DataTypes, TimerTypes, TssTypes, carVars, menuVars, tssVars
<1>5. CASE TimerAudioTimeout
  <2>1. TaskTypes'
    BY <1>0, <1>5, SendJoins, TimerEventTypes DEF TimerAudioTimeout, SendOnce, StateTypes
  <2>2. menuTimer' \in BOOLEAN
    BY <1>5 DEF TimerAudioTimeout
  <2> QED
    BY <1>0, <1>5, <2>1, <2>2
       DEF TimerAudioTimeout, StateTypes, DataTypes, TimerTypes, TssTypes, carVars, tssVars, sleepVars
<1>6. CASE UartTakes
  <2>1. uart' \in UartView
    <3>1. uart \in UartView /\ uart.queued - 1 \in 0 .. UartQueueLen
      BY <1>0, <1>6, UartQueueLenAssumption DEF DataTypes, UartView, UartTakes
    <3> QED
      BY <1>6, <3>1 DEF UartTakes, UartView
  <2>2. TaskTypes'
    BY <1>0, <1>6, QuietTypes DEF UartTakes, queueVars
  <2> QED
    BY <1>0, <1>6, <2>1, <2>2
       DEF UartTakes, StateTypes, DataTypes, TimerTypes, TssTypes, menuVars, tssVars, sleepVars
<1>7. CASE TssTakes
  <2>1. tssQueue' \in Seq(TssWrites) /\ Len(tssQueue') <= TssQueueLen
    <3>1. tssQueue \in Seq(TssWrites) /\ Len(tssQueue) <= TssQueueLen /\ tssQueue # <<>>
          /\ TssQueueLen \in Nat
      BY <1>0, <1>7, LengthsAssumption DEF TssTypes, TssTakes
    <3> QED
      BY <1>7, <3>1 DEF TssTakes
  <2>2. TaskTypes'
    BY <1>0, <1>7, QuietTypes DEF TssTakes, queueVars
  <2> QED
    BY <1>0, <1>7, <2>1, <2>2
       DEF TssTakes, StateTypes, DataTypes, TimerTypes, TssTypes, carVars, menuVars, sleepVars
<1>8. CASE BatteryChanges
  <2>1. battery' \in BOOLEAN
    BY <1>8, ChoicesAssumption DEF BatteryChanges
  <2>2. TaskTypes'
    BY <1>0, <1>8, QuietTypes DEF BatteryChanges, queueVars
  <2> QED
    BY <1>0, <1>8, <2>1, <2>2
       DEF BatteryChanges, StateTypes, DataTypes, TimerTypes, TssTypes, carVars, menuVars, tssVars
<1>9. CASE Wake
  BY <1>0, <1>9, RestartTypes DEF Wake, TimerTypes
<1>10. CASE PowerCycle
  <2>1. NoRtcData \in [valid : BOOLEAN, presets : Presets]
    BY NoPresetsType DEF NoRtcData
  <2> QED
    BY <1>0, <1>10, <2>1, RestartTypes DEF PowerCycle, TimerTypes
<1> QED
  BY <1>1, <1>2, <1>3, <1>4, <1>5, <1>6, <1>7, <1>8, <1>9, <1>10 DEF Environment

\* A handler that only ends, after sending `idens'.
LEMMA PlainFinishTypes ==
    ASSUME StateTypes, NEW S, NEW idens \in Seq(S), Finish(data, {}, idens),
           UNCHANGED queueVars, event' = NoEvent, TimerTypes', TssTypes'
    PROVE  StateTypes'
<1>1. DataTypes' /\ pc' = "wait"
  BY PlainFinish DEF StateTypes
<1>2. TaskTypes'
  BY <1>1, QuietTypes DEF StateTypes, queueVars
<1> QED
  BY <1>1, <1>2 DEF StateTypes

\* The packets a buffer names, when its event is handled.
LEMMA BufferFacts ==
    ASSUME Types, NEW e \in Events, IsNewData(e)
    PROVE  packetBuffers[e.ev_data.buffer] \in Seq(KnownIdents)
BY NewDataEvents DEF Types

LEMMA MainTaskTypes == ASSUME Inv, StateTypes, MainTask PROVE StateTypes'
<1>0. Types /\ TaskTypes /\ DataTypes /\ TimerTypes /\ TssTypes
  BY DEF Inv, StateTypes
<1>1. <<>> \in Seq({}) /\ (pc # "handle" => event = NoEvent)
  BY <1>0 DEF TaskTypes
<1>2. CASE Dequeue
  BY <1>0, <1>2, DequeueTypes
     DEF Dequeue, StateTypes, DataTypes, TimerTypes, TssTypes, carVars, menuVars, tssVars, sleepVars
<1>3. CASE ReceiveTimesOut
  <2>1. TimerTypes' /\ TssTypes'
    BY <1>0, <1>3 DEF ReceiveTimesOut, TimerTypes, TssTypes, menuVars, tssVars, sleepVars
  <2> QED
    BY <1>1, <1>3, <2>1, PlainFinishTypes DEF ReceiveTimesOut
<1>4. CASE HandleVanFrame
  BY <1>4, HandleVanFrameTypes
<1>5. CASE DelayOver
  <2>1. TimerTypes' /\ TssTypes'
    BY <1>0, <1>5 DEF DelayOver, TimerTypes, TssTypes, menuVars, tssVars, sleepVars
  <2> QED
    BY <1>1, <1>5, <2>1, PlainFinishTypes DEF DelayOver
<1>6. CASE HandleNewData
  <2>1. TimerTypes' /\ TssTypes'
    BY <1>0, <1>6 DEF HandleNewData, TimerTypes, TssTypes, menuVars, tssVars, sleepVars
  <2>2. packetBuffers[event.ev_data.buffer] \in Seq(KnownIdents)
    BY <1>0, <1>6, BufferFacts DEF HandleNewData, Handle, IsNewData, Types
  <2> QED
    BY <1>6, <2>1, <2>2, PlainFinishTypes DEF HandleNewData, Handle
<1>7. CASE Handle1S
  <2>1. cdcHeader' \in 0 .. HeaderMax
    BY <1>0, <1>7, BoundsAssumption DEF Handle1S, TssTypes
  <2>2. CdChanger \in TssWrites
    BY DEF CdChanger, TssWrite, TssWrites
  <2>3. tssQueue' = tssQueue \/ tssQueue' = SendToBack(tssQueue, CdChanger, TssQueueLen)
    BY <1>7 DEF Handle1S, SendToBack
  <2>4. TssTypes'
    BY <1>0, <1>7, <2>1, <2>2, <2>3, TssSent DEF Handle1S, TssTypes
  <2>5. TimerTypes'
    BY <1>0, <1>7 DEF Handle1S, TimerTypes, menuVars, sleepVars
  <2>6. CASE Finish(data, {}, <<>>)
    BY <1>1, <1>7, <2>4, <2>5, <2>6, PlainFinishTypes DEF Handle1S, Handle
  <2>7. CASE pc' = "tssWait" /\ UNCHANGED carVars
    <3>1. TaskTypes'
      BY <1>0, <1>7, <2>7, QuietTypes DEF Handle1S, Handle, queueVars
    <3> QED
      BY <1>0, <2>4, <2>5, <2>7, <3>1 DEF StateTypes, DataTypes, carVars
  <2> QED
    BY <1>7, <2>6, <2>7 DEF Handle1S
<1>8. CASE TssWaitOver
  <2>1. CdChanger \in TssWrites
    BY DEF CdChanger, TssWrite, TssWrites
  <2>2. TssTypes'
    BY <1>0, <1>8, <2>1, TssSent DEF TssWaitOver, TssTypes
  <2>3. TimerTypes'
    BY <1>0, <1>8 DEF TssWaitOver, TimerTypes, menuVars, sleepVars
  <2> QED
    BY <1>1, <1>8, <2>2, <2>3, PlainFinishTypes DEF TssWaitOver
<1>9. CASE Handle1MS
  <2>1. {PSA_IDENT_CAR_STATUS} \in SUBSET KnownIdents
        /\ <<PSA_IDENT_CAR_STATUS>> \in Seq({PSA_IDENT_CAR_STATUS})
    BY StatusKnown
  <2>2. DataTypes' /\ pc' = "wait"
    BY <1>0, <1>9, <2>1, FinishFacts DEF Handle1MS, DataTypes
  <2>3. Joins(Event("GLOBAL_SLEEP"), mainQueue, mainQueue')
    BY <1>9 DEF Handle1MS, SendToFront, Joins
  <2>4. TaskTypes'
    BY <1>0, <1>9, <2>2, <2>3, TimerEventTypes DEF Handle1MS, Handle, StateTypes
  <2>5. oneshot' \in BOOLEAN
    BY <1>9 DEF Handle1MS
  <2> QED
    BY <1>0, <1>9, <2>2, <2>4, <2>5 DEF Handle1MS, StateTypes, TimerTypes, TssTypes, menuVars, tssVars
<1>10. CASE HandleNextItem
  <2>1. PICK open, setting : open = audioMenuOpen' /\ setting = audioMenuSetting'
    OBVIOUS
  <2>2. DataTypes' /\ pc' = "wait"
    <3>1. ShowMenu(open, setting)
      BY <1>10, <2>1 DEF HandleNextItem
    <3> QED
      BY <1>0, <3>1, ShowMenuFacts
  <2>3. audioMenuOpen' \in 0 .. 1 /\ audioMenuSetting' \in 0 .. 6
    BY <1>0, <1>10 DEF HandleNextItem, TimerTypes
  <2>4. menuTimer' \in BOOLEAN
    <3>1. menuTimer \in BOOLEAN
      BY <1>0 DEF TimerTypes
    <3> QED
      BY <1>10, <3>1 DEF HandleNextItem, Started
  <2>5. TaskTypes'
    BY <1>0, <1>10, <2>2, QuietTypes DEF HandleNextItem, Handle, queueVars
  <2> QED
    BY <1>0, <1>10, <2>2, <2>3, <2>4, <2>5
       DEF HandleNextItem, StateTypes, TimerTypes, TssTypes, tssVars, sleepVars
<1>11. CASE HandleUpdateMenu
  <2>1. DataTypes' /\ pc' = "wait"
    BY <1>0, <1>1, <1>11, ShowMenuFacts, PlainFinish DEF HandleUpdateMenu
  <2>2. TaskTypes'
    BY <1>0, <1>11, <2>1, QuietTypes DEF HandleUpdateMenu, Handle, queueVars
  <2> QED
    BY <1>0, <1>11, <2>1, <2>2
       DEF HandleUpdateMenu, StateTypes, TimerTypes, TssTypes, menuVars, tssVars, sleepVars
<1>12. CASE HandleCloseMenu
  <2>1. DataTypes' /\ pc' = "wait"
    BY <1>0, <1>12, ShowMenuFacts DEF HandleCloseMenu
  <2>2. TaskTypes'
    BY <1>0, <1>12, <2>1, QuietTypes DEF HandleCloseMenu, Handle, queueVars
  <2>3. audioMenuOpen' \in 0 .. 1 /\ audioMenuSetting' \in 0 .. 6
    BY <1>12 DEF HandleCloseMenu
  <2> QED
    BY <1>0, <1>12, <2>1, <2>2, <2>3
       DEF HandleCloseMenu, StateTypes, TimerTypes, TssTypes, tssVars, sleepVars
<1>13. CASE HandleUartReceive
  <2> DEFINE request == event.ev_data
             idens == IF IsPacketRequest(request) THEN <<request.iden>> ELSE <<>>
  <2>1. Finish(data, {}, idens)
    BY <1>13 DEF HandleUartReceive
  <2>2. idens \in Seq({request.iden})
    <3>1. ASSUME NEW x PROVE <<x>> \in Seq({x}) /\ <<>> \in Seq({x})
      OBVIOUS
    <3> QED
      BY <3>1
  <2>3. CASE IsTripReset(request)
    <3>1. request.trip_meter \in {"A", "B"}
      BY <2>3 DEF IsTripReset
    <3>2. TssWrite("tss_trip_packet", request.trip_meter) \in TssWrites
      BY <3>1 DEF TssWrite, TssWrites
    <3>3. TssTypes'
      BY <1>0, <1>13, <2>3, <3>1, <3>2, TssSent DEF HandleUartReceive, TssTypes
    <3>4. TimerTypes'
      BY <1>0, <1>13 DEF HandleUartReceive, TimerTypes, menuVars, sleepVars
    <3> HIDE DEF idens
    <3> QED
      BY <1>13, <2>1, <2>2, <3>3, <3>4, PlainFinishTypes DEF HandleUartReceive, Handle
  <2>4. CASE ~IsTripReset(request)
    <3>1. TssTypes'
      BY <1>0, <1>13, <2>4 DEF HandleUartReceive, TssTypes
    <3>2. TimerTypes'
      BY <1>0, <1>13 DEF HandleUartReceive, TimerTypes, menuVars, sleepVars
    <3> HIDE DEF idens
    <3> QED
      BY <1>13, <2>1, <2>2, <3>1, <3>2, PlainFinishTypes DEF HandleUartReceive, Handle
  <2> QED
    BY <2>3, <2>4
<1>14. CASE HandleSleep
  <2>1. [valid |-> TRUE, presets |-> data.presets] \in [valid : BOOLEAN, presets : Presets]
    <3>1. data.presets \in Presets
      BY <1>0 DEF DataTypes, IsData
    <3> QED
      BY <3>1
  <2> QED
    BY <1>0, <1>14, <2>1, RestartTypes DEF HandleSleep, TimerTypes
<1> QED
  BY <1>2, <1>3, <1>4, <1>5, <1>6, <1>7, <1>8, <1>9, <1>10, <1>11, <1>12, <1>13, <1>14 DEF MainTask

LEMMA NextTypes == Inv /\ StateTypes /\ [Next]_vars => StateTypes'
<1> SUFFICES ASSUME Inv, StateTypes, [Next]_vars PROVE StateTypes'
  OBVIOUS
<1>1. CASE UNCHANGED vars
  BY <1>1 DEF StateTypes, TaskTypes, DataTypes, TimerTypes, TssTypes, vars, queueVars, carVars,
              menuVars, tssVars, sleepVars
<1> QED
  BY <1>1, EnvironmentTypes, MainTaskTypes DEF Next

LEMMA TypesHold == Spec => [](Inv /\ StateTypes)
BY InitInv, NextInv, InitTypes, NextTypes, PTL DEF Spec

\* What TypeOK says of an event follows from where it comes from.
LEMMA EventTypes == ASSUME NEW e \in Events PROVE IsEvent(e)
<1>1. CASE e \in {NewVanFrame(frame) : frame \in Frames}
  BY <1>1 DEF IsEvent, NewVanFrame
<1>2. CASE e \in {UartReceive(request) : request \in Requests}
  BY <1>2 DEF IsEvent, UartReceive
<1>3. CASE e \in {UartNewData(b, idens) : b \in Buffers, idens \in Seq(KnownIdents)}
  <2>1. PICK b \in Buffers, idens \in Seq(KnownIdents) : e = UartNewData(b, idens)
    BY <1>3
  <2> QED
    BY <2>1 DEF IsEvent, UartNewData
<1>4. CASE e \in PlainEvents
  BY <1>4 DEF IsEvent, PlainEvents, Event
<1> QED
  BY <1>1, <1>2, <1>3, <1>4 DEF Events

\* Every variable of main_task keeps its type, whatever the frames and requests, the
\* lengths of the queues and the order in which the events come (main.c:429-697).
THEOREM TypeCorrect == Spec => []TypeOK
<1> SUFFICES Inv /\ StateTypes => TypeOK
  BY TypesHold, PTL
<1> SUFFICES ASSUME Inv, StateTypes PROVE TypeOK
  OBVIOUS
<1>1. /\ mainQueue \in Seq(Events) /\ Len(mainQueue) <= MainQueueLen /\ event \in Events
      /\ packetBuffers \in [Buffers -> Seq(KnownIdents)] /\ packetBufferNum \in Buffers
  BY DEF Inv, Types
<1>2. \A i \in 1 .. Len(mainQueue) : IsEvent(mainQueue[i]) /\ mainQueue[i] # NoEvent
  BY <1>1, EventTypes DEF StateTypes, TaskTypes
<1>3. /\ pc \in {"wait", "handle", "delay", "tssWait", "asleep"} /\ IsEvent(event)
      /\ pc = "handle" <=> event # NoEvent
  BY <1>1, EventTypes DEF StateTypes, TaskTypes
<1>4. /\ DOMAIN data.presets = PresetBands
      /\ \A band \in PresetBands : DOMAIN data.presets[band].name = PresetNums
  <2>1. data.presets \in Presets
    BY DEF StateTypes, DataTypes, IsData
  <2> QED
    BY <2>1 DEF Presets
<1>5. /\ uart.queued \in 0 .. UartQueueLen
      /\ uart.stale \subseteq KnownIdents /\ uart.missed \subseteq Nat
  BY TrackedAssumption DEF StateTypes, DataTypes, UartView
<1>6. {menuTimer, oneshot, battery, rtc.valid} \subseteq BOOLEAN
  <2>1. rtc.valid \in BOOLEAN
    BY DEF StateTypes, TimerTypes
  <2> QED
    BY <2>1 DEF StateTypes, TimerTypes
<1>7. tssQueue \in Seq([packet : {"tss_packet", "tss_trip_packet"}, asked : {"NONE", "A", "B"}])
  BY DEF StateTypes, TssTypes, TssWrites
<1> QED
  BY <1>1, <1>2, <1>3, <1>4, <1>5, <1>6, <1>7
     DEF TypeOK, StateTypes, DataTypes, TimerTypes, TssTypes

----------------------------------------------------------------------------
(* The audio menu *)

\* A step that is not about the menu.
LEMMA MenuUntouched ==
    ASSUME MenuShown, UNCHANGED <<audioMenuOpen, audioMenuSetting>>,
           data'.settings_menu_open = data.settings_menu_open,
           data'.settings_changing = data.settings_changing
    PROVE  MenuShown'
BY DEF MenuShown

LEMMA MenuAfterRestart ==
    ASSUME NEW where, NEW rtcData, Restart(where, rtcData)
    PROVE  MenuShown'
<1>1. audioMenuOpen' = 0 /\ audioMenuSetting' = 0 /\ data' = InitialData(BootPresets(rtcData))
  BY DEF Restart
<1> QED
  BY <1>1 DEF MenuShown, InitialData, Changing

LEMMA MenuShownStep == Inv /\ StateTypes /\ MenuShown /\ [Next]_vars => MenuShown'
<1> SUFFICES ASSUME Inv, StateTypes, MenuShown, [Next]_vars PROVE MenuShown'
  OBVIOUS
<1>0. Types /\ DataTypes /\ TimerTypes /\ <<>> \in Seq({})
  BY DEF Inv, StateTypes
<1>1. CASE UNCHANGED <<data, audioMenuOpen, audioMenuSetting>>
  BY <1>1, MenuUntouched
<1>2. CASE \/ \E frame \in Frames : VanFrame(frame)
           \/ \E request \in Requests : UartRequest(request)
           \/ Timer1S \/ TimerOneshot \/ TimerAudioTimeout
           \/ UartTakes \/ TssTakes \/ BatteryChanges \/ Dequeue \/ UNCHANGED vars
  BY <1>1, <1>2 DEF VanFrame, UartRequest, Timer1S, TimerOneshot, TimerAudioTimeout, UartTakes,
                    TssTakes, BatteryChanges, Dequeue, carVars, menuVars, vars
<1>3. CASE Wake \/ PowerCycle \/ HandleSleep
  BY <1>3, MenuAfterRestart DEF Wake, PowerCycle, HandleSleep
<1>4. CASE ReceiveTimesOut \/ DelayOver \/ TssWaitOver
  BY <1>0, <1>4, PlainFinish, MenuUntouched DEF ReceiveTimesOut, DelayOver, TssWaitOver, menuVars
<1>5. CASE HandleVanFrame
  <2>1. event.ev_data \in Frames
    BY <1>0, <1>5, FrameEvents DEF HandleVanFrame, Handle, Types
  <2> QED
    BY <1>0, <1>5, <2>1, ParsedDataFacts, MenuUntouched DEF HandleVanFrame, DataTypes, menuVars
<1>6. CASE HandleNewData
  <2>1. packetBuffers[event.ev_data.buffer] \in Seq(KnownIdents)
    BY <1>0, <1>6, BufferFacts DEF HandleNewData, Handle, IsNewData, Types
  <2> QED
    BY <1>0, <1>6, <2>1, PlainFinish, MenuUntouched DEF HandleNewData, menuVars
<1>7. CASE Handle1S
  BY <1>0, <1>1, <1>7, PlainFinish, MenuUntouched DEF Handle1S, menuVars, carVars
<1>8. CASE Handle1MS
  <2>1. {PSA_IDENT_CAR_STATUS} \in SUBSET KnownIdents
        /\ <<PSA_IDENT_CAR_STATUS>> \in Seq({PSA_IDENT_CAR_STATUS})
    BY StatusKnown
  <2> QED
    BY <1>0, <1>8, <2>1, FinishFacts, MenuUntouched DEF Handle1MS, DataTypes, menuVars
<1>9. CASE HandleNextItem
  <2>1. PICK open, setting : open = audioMenuOpen' /\ setting = audioMenuSetting'
    OBVIOUS
  <2>2. ShowMenu(open, setting)
    BY <1>9, <2>1 DEF HandleNextItem
  <2>3. data'.settings_menu_open = open /\ data'.settings_changing = Changing(setting)
    BY <1>0, <2>2, ShowMenuFacts
  <2>4. open = 1 <=> setting \in 1 .. 6
    BY <1>0, <1>9, <2>1 DEF HandleNextItem, TimerTypes
  <2> QED
    BY <2>1, <2>3, <2>4 DEF MenuShown
<1>10. CASE HandleUpdateMenu
  <2>1. CASE audioMenuOpen = 1
    <3>1. ShowMenu(audioMenuOpen, audioMenuSetting)
      BY <1>10, <2>1 DEF HandleUpdateMenu
    <3>2. /\ data'.settings_menu_open = audioMenuOpen
          /\ data'.settings_changing = Changing(audioMenuSetting)
      BY <1>0, <3>1, ShowMenuFacts
    <3> QED
      BY <1>10, <3>2 DEF HandleUpdateMenu, menuVars, MenuShown
  <2>2. CASE audioMenuOpen # 1
    BY <1>0, <1>10, <2>2, PlainFinish, MenuUntouched DEF HandleUpdateMenu, menuVars
  <2> QED
    BY <2>1, <2>2
<1>11. CASE HandleCloseMenu
  <2>1. data'.settings_menu_open = 0 /\ data'.settings_changing = Changing(0)
    BY <1>0, <1>11, ShowMenuFacts DEF HandleCloseMenu
  <2> QED
    BY <1>11, <2>1 DEF HandleCloseMenu, MenuShown
<1>12. CASE HandleUartReceive
  <2>1. PICK idens : idens \in Seq({event.ev_data.iden}) /\ Finish(data, {}, idens)
    <3>1. ASSUME NEW x PROVE <<x>> \in Seq({x}) /\ <<>> \in Seq({x})
      OBVIOUS
    <3> QED
      BY <1>12, <3>1 DEF HandleUartReceive
  <2> QED
    BY <1>0, <1>12, <2>1, PlainFinish, MenuUntouched DEF HandleUartReceive, menuVars
<1> QED
  BY <1>2, <1>3, <1>4, <1>5, <1>6, <1>7, <1>8, <1>9, <1>10, <1>11, <1>12
     DEF Next, MainTask, Environment

\* What the computer is to show is what main_task thinks, at every moment between two
\* events: no handler leaves the menu half changed (main.c:606-642, psa_helper.c:175-255).
THEOREM MenuAsShown == Spec => []MenuShown
<1>1. Init => MenuShown
  BY DEF Init, MenuShown, InitialData, Changing
<1> QED
  BY <1>1, MenuShownStep, TypesHold, PTL DEF Spec

\* An event goes on waiting until it is handled, whatever else is sent.
LEMMA WaitingKept ==
    ASSUME Types, NEW name, Waiting(name), NEW e \in Events, Joins(e, mainQueue, mainQueue'),
           event' = event \/ event.event # name
    PROVE  Waiting(name)'
<1>0. mainQueue \in Seq(Events)
  BY DEF Types
<1>1. \A i \in 1 .. Len(mainQueue) : \E j \in 1 .. Len(mainQueue') : mainQueue'[j] = mainQueue[i]
  BY <1>0, JoinsFacts
<1>2. CASE event.event = name
  BY <1>2 DEF Waiting
<1>3. CASE \E i \in 1 .. Len(mainQueue) : mainQueue[i].event = name
  <2>1. PICK i \in 1 .. Len(mainQueue) : mainQueue[i].event = name
    BY <1>3
  <2>2. PICK j \in 1 .. Len(mainQueue') : mainQueue'[j] = mainQueue[i]
    BY <1>1, <2>1
  <2> QED
    BY <2>1, <2>2 DEF Waiting
<1> QED
  BY <1>2, <1>3 DEF Waiting

LEMMA WaitingDequeued ==
    ASSUME Types, TaskTypes, NEW name, name # "NONE", Waiting(name), Dequeue
    PROVE  Waiting(name)'
<1>1. mainQueue \in Seq(Events) /\ mainQueue # <<>> /\ mainQueue' = Tail(mainQueue)
  BY DEF Types, Dequeue
<1>2. event' = mainQueue[1] /\ event = NoEvent
  BY <1>1 DEF Dequeue, TaskTypes
<1>3. PICK i \in 1 .. Len(mainQueue) : mainQueue[i].event = name
  BY <1>2, EventNames DEF Waiting
<1>4. CASE i = 1
  BY <1>2, <1>3, <1>4 DEF Waiting
<1>5. CASE i # 1
  <2>1. i - 1 \in 1 .. Len(mainQueue') /\ mainQueue'[i - 1] = mainQueue[i]
    BY <1>1, <1>5
  <2> QED
    BY <1>3, <2>1 DEF Waiting
<1> QED
  BY <1>4, <1>5

\* The event of a timer waits, or is lost.
LEMMA OnceSent ==
    ASSUME Types, NEW name \in {"TIMER_1MS", "VAN_CLOSE_AUDIO_MENU"}, SendOnce(name)
    PROVE  /\ Joins(Event(name), mainQueue, mainQueue')
           /\ lost \subseteq lost'
           /\ Waiting(name)' \/ name \in lost'
<1>1. mainQueue \in Seq(Events)
  BY DEF Types
<1>2. CASE IsFull(mainQueue, MainQueueLen)
  BY <1>2, SendJoins DEF SendOnce
<1>3. CASE ~IsFull(mainQueue, MainQueueLen)
  <2>1. PICK e \in Events : e = Event(name)
    BY PlainEvent
  <2>2. mainQueue' = Append(mainQueue, e)
    BY <1>3, <2>1 DEF SendOnce, Send, SendToBack
  <2>3. Len(mainQueue') \in 1 .. Len(mainQueue') /\ mainQueue'[Len(mainQueue')] = e
    BY <1>1, <2>2
  <2>4. e.event = name
    BY <2>1, EventNames
  <2> QED
    BY <1>3, <2>3, <2>4, SendJoins DEF SendOnce, Waiting
<1> QED
  BY <1>2, <1>3

\* A step that leaves menu and timer alone, and handles another event at most.
LEMMA CloseStays ==
    ASSUME Types, MenuWillClose, UNCHANGED <<audioMenuOpen, menuTimer>>, lost \subseteq lost',
           NEW e \in Events, Joins(e, mainQueue, mainQueue'),
           event' = event \/ event.event # "VAN_CLOSE_AUDIO_MENU"
    PROVE  MenuWillClose'
BY WaitingKept DEF MenuWillClose

LEMMA CloseStaysQuiet ==
    ASSUME Types, MenuWillClose, UNCHANGED <<audioMenuOpen, menuTimer, mainQueue, lost>>,
           event' = event \/ event.event # "VAN_CLOSE_AUDIO_MENU"
    PROVE  MenuWillClose'
<1>1. Joins(NoEvent, mainQueue, mainQueue')
  BY DEF Joins
<1> QED
  BY <1>1, NoEventFacts, CloseStays

LEMMA MenuWillCloseStep == Inv /\ StateTypes /\ MenuWillClose /\ [Next]_vars => MenuWillClose'
<1> SUFFICES ASSUME Inv, StateTypes, MenuWillClose, [Next]_vars PROVE MenuWillClose'
  OBVIOUS
<1>0. Types /\ TaskTypes /\ TimerTypes
  BY DEF Inv, StateTypes
<1>1. ASSUME NEW frame \in Frames, VanFrame(frame) PROVE MenuWillClose'
  BY <1>0, <1>1, SendJoins, CloseStays DEF VanFrame, menuVars, Events
<1>2. ASSUME NEW request \in Requests, UartRequest(request) PROVE MenuWillClose'
  BY <1>0, <1>2, SendJoins, CloseStays DEF UartRequest, menuVars, Events
<1>3. CASE Timer1S
  BY <1>0, <1>3, SendJoins, PlainEvent, CloseStays DEF Timer1S, menuVars
<1>4. CASE TimerOneshot
  BY <1>0, <1>4, OnceSent, PlainEvent, CloseStays DEF TimerOneshot, menuVars
<1>5. CASE TimerAudioTimeout
  BY <1>0, <1>5, OnceSent DEF TimerAudioTimeout, MenuWillClose
<1>6. CASE UartTakes \/ TssTakes \/ BatteryChanges \/ UNCHANGED vars
  BY <1>0, <1>6, CloseStaysQuiet
     DEF UartTakes, TssTakes, BatteryChanges, vars, menuVars, queueVars
<1>7. CASE Wake \/ PowerCycle \/ HandleSleep
  BY <1>7 DEF Wake, PowerCycle, HandleSleep, Restart, MenuWillClose
<1>8. CASE Dequeue
  BY <1>0, <1>8, WaitingDequeued DEF Dequeue, MenuWillClose, menuVars
<1>9. CASE ReceiveTimesOut \/ DelayOver \/ TssWaitOver
  BY <1>0, <1>9, CloseStaysQuiet DEF ReceiveTimesOut, DelayOver, TssWaitOver, menuVars, queueVars
<1>10. CASE HandleVanFrame
  <2>1. event.event # "VAN_CLOSE_AUDIO_MENU" /\ UNCHANGED <<audioMenuOpen, menuTimer, lost>>
    BY <1>10 DEF HandleVanFrame, Handle, menuVars
  <2> QED
    BY <1>0, <1>10, <2>1, FrameSends, CloseStays
<1>11. CASE HandleNewData \/ Handle1S \/ HandleUpdateMenu \/ HandleUartReceive
  BY <1>0, <1>11, CloseStaysQuiet
     DEF HandleNewData, Handle1S, HandleUpdateMenu, HandleUartReceive, Handle, menuVars, queueVars
<1>12. CASE Handle1MS
  <2>1. Joins(Event("GLOBAL_SLEEP"), mainQueue, mainQueue')
    BY <1>12 DEF Handle1MS, SendToFront, Joins
  <2>2. event.event # "VAN_CLOSE_AUDIO_MENU" /\ UNCHANGED <<audioMenuOpen, menuTimer, lost>>
    BY <1>12 DEF Handle1MS, Handle, menuVars
  <2> QED
    BY <1>0, <2>1, <2>2, PlainEvent, CloseStays
<1>13. CASE HandleNextItem
  <2>1. CASE audioMenuOpen' = 0
    BY <2>1 DEF MenuWillClose
  <2>2. CASE audioMenuOpen' # 0 /\ (menuTimer \/ audioMenuOpen = 0)
    <3>1. menuTimer' = Started
      BY <1>13, <2>2 DEF HandleNextItem
    <3> QED
      BY <2>2, <3>1 DEF Started, MenuWillClose
  <2>3. CASE audioMenuOpen' # 0 /\ ~menuTimer /\ audioMenuOpen # 0
    <3>1. audioMenuOpen = 1
      BY <1>0, <2>3 DEF TimerTypes
    <3>2. Waiting("VAN_CLOSE_AUDIO_MENU") \/ "VAN_CLOSE_AUDIO_MENU" \in lost
      BY <2>3, <3>1 DEF MenuWillClose
    <3>3. lost' = lost /\ UNCHANGED mainQueue
      BY <1>13, <2>3 DEF HandleNextItem, queueVars
    <3>4. event.event # "VAN_CLOSE_AUDIO_MENU"
      BY <1>13 DEF HandleNextItem, Handle
    <3>5. Joins(NoEvent, mainQueue, mainQueue')
      BY <3>3 DEF Joins
    <3> QED
      BY <1>0, <3>2, <3>3, <3>4, <3>5, WaitingKept, NoEventFacts DEF MenuWillClose
  <2> QED
    BY <2>1, <2>2, <2>3
<1>14. CASE HandleCloseMenu
  BY <1>14 DEF HandleCloseMenu, MenuWillClose
<1> QED
  BY <1>1, <1>2, <1>3, <1>4, <1>5, <1>6, <1>7, <1>8, <1>9, <1>10, <1>11, <1>12, <1>13, <1>14
     DEF Next, MainTask, Environment

\* An open menu always has something that will close it, in spite of a timer that is
\* started for the first item only, is stopped behind the last, and fires into a queue
\* that may be full (main.c:89-102, 606-642).
THEOREM MenuHasAnEnd == Spec => []MenuWillClose
<1>1. Init => MenuWillClose
  BY DEF Init, MenuWillClose
<1> QED
  BY <1>1, MenuWillCloseStep, TypesHold, PTL DEF Spec

----------------------------------------------------------------------------
(* The chain of battery measurements *)

Measures(e) == e.event = "TIMER_1MS"
Never(queue) == \A i \in 1 .. Len(queue) : ~Measures(queue[i])
Once(queue) ==
    \E i \in 1 .. Len(queue) :
        Measures(queue[i]) /\ \A k \in 1 .. Len(queue) : k # i => ~Measures(queue[k])

\* The inductive invariant: one link, and where it is.
Chain ==
    LET broken == "TIMER_1MS" \in lost
    IN  \/ oneshot /\ ~Measures(event) /\ ~broken /\ Never(mainQueue)
        \/ ~oneshot /\ Measures(event) /\ ~broken /\ Never(mainQueue)
        \/ ~oneshot /\ ~Measures(event) /\ broken /\ Never(mainQueue)
        \/ ~oneshot /\ ~Measures(event) /\ ~broken /\ Once(mainQueue)

\* Other events change nothing about it.
LEMMA JoinsOther ==
    ASSUME NEW queue \in Seq(Events), NEW e \in Events, ~Measures(e), NEW longer,
           Joins(e, queue, longer)
    PROVE  /\ Never(queue) => Never(longer)
           /\ Once(queue) => Once(longer)
<1>0. Len(queue) \in Nat
  OBVIOUS
<1>1. ASSUME Never(queue) PROVE Never(longer)
  <2>1. \A j \in 1 .. Len(longer) : longer[j] = e \/ \E i \in 1 .. Len(queue) : longer[j] = queue[i]
    BY JoinsFacts
  <2> QED
    BY <1>1, <2>1 DEF Never
<1>2. ASSUME Once(queue) PROVE Once(longer)
  <2>1. PICK i \in 1 .. Len(queue) :
            Measures(queue[i]) /\ \A k \in 1 .. Len(queue) : k # i => ~Measures(queue[k])
    BY <1>2 DEF Once
  <2>2. CASE longer = queue
    BY <1>2, <2>2
  <2>3. CASE longer = Append(queue, e)
    <3>1. i \in 1 .. Len(longer) /\ longer[i] = queue[i]
      BY <1>0, <2>3
    <3>2. \A k \in 1 .. Len(longer) : longer[k] = e \/ (k \in 1 .. Len(queue) /\ longer[k] = queue[k])
      BY <1>0, <2>3
    <3>3. \A k \in 1 .. Len(longer) : k # i => ~Measures(longer[k])
      BY <2>1, <3>2
    <3> QED
      BY <2>1, <3>1, <3>3 DEF Once
  <2>4. CASE longer = <<e>> \o queue
    <3>1. i + 1 \in 1 .. Len(longer) /\ longer[i + 1] = queue[i]
      BY <1>0, <2>4
    <3>2. \A k \in 1 .. Len(longer) :
            longer[k] = e \/ (k - 1 \in 1 .. Len(queue) /\ longer[k] = queue[k - 1])
      BY <1>0, <2>4
    <3>3. \A k \in 1 .. Len(longer) : k # i + 1 => ~Measures(longer[k])
      <4> SUFFICES ASSUME NEW k \in 1 .. Len(longer), k # i + 1 PROVE ~Measures(longer[k])
        OBVIOUS
      <4>1. k - 1 # i
        OBVIOUS
      <4> QED
        BY <2>1, <3>2, <4>1
    <3> QED
      BY <2>1, <3>1, <3>3 DEF Once
  <2> QED
    BY <2>2, <2>3, <2>4 DEF Joins
<1> QED
  BY <1>1, <1>2

LEMMA AppendedOnce ==
    ASSUME NEW queue \in Seq(Events), Never(queue), NEW e \in Events, Measures(e)
    PROVE  Once(Append(queue, e))
<1>1. PICK longer : longer = Append(queue, e)
  OBVIOUS
<1>2. Len(longer) \in 1 .. Len(longer) /\ longer[Len(longer)] = e
  BY <1>1
<1>3. \A k \in 1 .. Len(longer) : k # Len(longer) => k \in 1 .. Len(queue) /\ longer[k] = queue[k]
  BY <1>1
<1>4. \A k \in 1 .. Len(longer) : k # Len(longer) => ~Measures(longer[k])
  BY <1>3 DEF Never
<1>5. Once(longer)
  BY <1>2, <1>4 DEF Once
<1> QED
  BY <1>1, <1>5

\* The link leaves the queue with its event.
LEMMA TailOnce ==
    ASSUME NEW queue \in Seq(Events), queue # <<>>
    PROVE  /\ Never(queue) => ~Measures(Head(queue)) /\ Never(Tail(queue))
           /\ Once(queue) /\ Measures(Head(queue)) => Never(Tail(queue))
           /\ Once(queue) /\ ~Measures(Head(queue)) => Once(Tail(queue))
<1>0. Tail(queue) \in Seq(Events)
  OBVIOUS
<1>1. PICK rest \in Seq(Events) : rest = Tail(queue)
  BY <1>0
<1>2. 1 \in 1 .. Len(queue) /\ Head(queue) = queue[1] /\ Len(rest) = Len(queue) - 1
      /\ Len(queue) \in Nat
  BY <1>1
<1>3. \A k \in 1 .. Len(rest) : k + 1 \in 1 .. Len(queue) /\ k + 1 # 1 /\ rest[k] = queue[k + 1]
  BY <1>1
<1>4. ASSUME Never(queue) PROVE ~Measures(Head(queue)) /\ Never(rest)
  BY <1>2, <1>3, <1>4 DEF Never
<1>5. ASSUME Once(queue), Measures(Head(queue)) PROVE Never(rest)
  <2>1. PICK i \in 1 .. Len(queue) : \A k \in 1 .. Len(queue) : k # i => ~Measures(queue[k])
    BY <1>5 DEF Once
  <2>2. i = 1
    BY <1>2, <1>5, <2>1
  <2> QED
    BY <1>3, <2>1, <2>2 DEF Never
<1>6. ASSUME Once(queue), ~Measures(Head(queue)) PROVE Once(rest)
  <2>1. PICK i \in 1 .. Len(queue) :
            Measures(queue[i]) /\ \A k \in 1 .. Len(queue) : k # i => ~Measures(queue[k])
    BY <1>6 DEF Once
  <2>2. i # 1
    BY <1>2, <1>6, <2>1
  <2>3. i - 1 \in 1 .. Len(rest) /\ rest[i - 1] = queue[i]
    BY <1>1, <1>2, <2>2
  <2>4. ASSUME NEW k \in 1 .. Len(rest), k # i - 1 PROVE ~Measures(rest[k])
    <3>1. k + 1 # i
      BY <2>4
    <3> QED
      BY <1>3, <2>1, <3>1
  <2> QED
    BY <2>1, <2>3, <2>4 DEF Once
<1> QED
  BY <1>1, <1>4, <1>5, <1>6

\* A step that has nothing to do with the measurement.
LEMMA ChainKept ==
    ASSUME Types, Chain, UNCHANGED oneshot, ("TIMER_1MS" \in lost') = ("TIMER_1MS" \in lost),
           NEW e \in Events, ~Measures(e), Joins(e, mainQueue, mainQueue'),
           event' = event \/ (event' = NoEvent /\ ~Measures(event))
    PROVE  Chain'
<1>1. /\ Never(mainQueue) => Never(mainQueue')
      /\ Once(mainQueue) => Once(mainQueue')
  BY JoinsOther DEF Types
<1>2. Measures(event') = Measures(event)
  BY EventNames DEF Measures
<1> HIDE DEF Never, Once, Measures
<1> QED
  BY <1>1, <1>2 DEF Chain

LEMMA ChainKeptQuiet ==
    ASSUME Types, Chain, UNCHANGED <<oneshot, mainQueue, lost>>,
           event' = event \/ (event' = NoEvent /\ ~Measures(event))
    PROVE  Chain'
<1>1. Joins(NoEvent, mainQueue, mainQueue') /\ ~Measures(NoEvent)
  BY EventNames DEF Joins, Measures
<1> QED
  BY <1>1, NoEventFacts, ChainKept

LEMMA ChainAfterRestart ==
    ASSUME NEW where, NEW rtcData, Restart(where, rtcData)
    PROVE  Chain'
<1>1. oneshot' = TRUE /\ event' = NoEvent /\ mainQueue' = <<>> /\ lost' = {}
  BY DEF Restart
<1> QED
  BY <1>1, EventNames DEF Chain, Measures, Never

LEMMA ChainStep == Inv /\ StateTypes /\ Chain /\ [Next]_vars => Chain'
<1> SUFFICES ASSUME Inv, StateTypes, Chain, [Next]_vars PROVE Chain'
  OBVIOUS
<1>0. Types /\ TaskTypes
  BY DEF Inv, StateTypes
<1>1. ASSUME NEW name, name # "TIMER_1MS" PROVE ~Measures(Event(name))
  BY <1>1, EventNames DEF Measures
<1>2. ASSUME NEW frame \in Frames, VanFrame(frame) PROVE Chain'
  <2>1. NewVanFrame(frame) \in Events /\ ~Measures(NewVanFrame(frame))
    BY EventNames DEF Events, Measures
  <2> QED
    BY <1>0, <1>2, <2>1, SendJoins, ChainKept DEF VanFrame, sleepVars
<1>3. ASSUME NEW request \in Requests, UartRequest(request) PROVE Chain'
  <2>1. UartReceive(request) \in Events /\ ~Measures(UartReceive(request))
    BY EventNames DEF Events, Measures
  <2> QED
    BY <1>0, <1>3, <2>1, SendJoins, ChainKept DEF UartRequest, sleepVars
<1>4. CASE Timer1S
  BY <1>0, <1>1, <1>4, PlainEvent, SendJoins, ChainKept DEF Timer1S, sleepVars
<1>5. CASE TimerOneshot
  <2>1. /\ oneshot /\ ~oneshot' /\ event' = event
        /\ ~Measures(event) /\ "TIMER_1MS" \notin lost /\ Never(mainQueue)
    BY <1>5 DEF TimerOneshot, Chain
  <2>2. CASE IsFull(mainQueue, MainQueueLen)
    <3>1. mainQueue' = mainQueue /\ "TIMER_1MS" \in lost'
      BY <1>5, <2>2 DEF TimerOneshot, SendOnce, Send, SendToBack
    <3> QED
      BY <2>1, <3>1 DEF Chain
  <2>3. CASE ~IsFull(mainQueue, MainQueueLen)
    <3>1. PICK e \in Events : e = Event("TIMER_1MS") /\ Measures(e)
      BY PlainEvent, EventNames DEF Measures
    <3>2. mainQueue' = Append(mainQueue, e) /\ lost' = lost
      BY <1>5, <2>3, <3>1 DEF TimerOneshot, SendOnce, Send, SendToBack
    <3>3. Once(mainQueue')
      BY <1>0, <2>1, <3>1, <3>2, AppendedOnce DEF Types
    <3> QED
      BY <2>1, <3>2, <3>3 DEF Chain
  <2> QED
    BY <2>2, <2>3
<1>6. CASE TimerAudioTimeout
  <2>1. ("TIMER_1MS" \in lost') = ("TIMER_1MS" \in lost)
    BY <1>6 DEF TimerAudioTimeout, SendOnce
  <2> QED
    BY <1>0, <1>1, <1>6, <2>1, PlainEvent, OnceSent, ChainKept DEF TimerAudioTimeout, sleepVars
<1>7. CASE UartTakes \/ TssTakes \/ BatteryChanges \/ UNCHANGED vars
  BY <1>0, <1>7, ChainKeptQuiet
     DEF UartTakes, TssTakes, BatteryChanges, vars, queueVars, sleepVars
<1>8. CASE Wake \/ PowerCycle \/ HandleSleep
  BY <1>8, ChainAfterRestart DEF Wake, PowerCycle, HandleSleep
<1>9. CASE Dequeue
  <2>1. mainQueue \in Seq(Events) /\ mainQueue # <<>>
    BY <1>0, <1>9 DEF Types, Dequeue
  <2>2. event' = Head(mainQueue) /\ mainQueue' = Tail(mainQueue) /\ UNCHANGED <<oneshot, lost>>
    BY <1>9 DEF Dequeue, sleepVars
  <2>3. ~Measures(event)
    BY <1>0, <1>9, EventNames DEF Dequeue, TaskTypes, Measures
  <2>4. /\ Never(mainQueue) => ~Measures(event') /\ Never(mainQueue')
        /\ Once(mainQueue) /\ Measures(event') => Never(mainQueue')
        /\ Once(mainQueue) /\ ~Measures(event') => Once(mainQueue')
    BY <2>1, <2>2, TailOnce
  <2> HIDE DEF Never, Once, Measures
  <2> QED
    BY <2>2, <2>3, <2>4 DEF Chain
<1>10. CASE ReceiveTimesOut \/ DelayOver \/ TssWaitOver
  BY <1>0, <1>10, ChainKeptQuiet DEF ReceiveTimesOut, DelayOver, TssWaitOver, queueVars, sleepVars
<1>11. CASE HandleVanFrame
  <2>1. /\ ~Measures(event) /\ event' = NoEvent /\ UNCHANGED <<oneshot, lost>>
    BY <1>11 DEF HandleVanFrame, Handle, Measures, sleepVars
  <2> QED
    BY <1>0, <1>11, <2>1, FrameSends, ChainKept DEF Measures
<1>12. CASE HandleNewData \/ Handle1S \/ HandleUpdateMenu \/ HandleUartReceive
  <2>1. ~Measures(event) /\ event' = NoEvent /\ UNCHANGED <<oneshot, mainQueue, lost>>
    BY <1>12 DEF HandleNewData, Handle1S, HandleUpdateMenu, HandleUartReceive, Handle, Measures,
                 queueVars, sleepVars
  <2> QED
    BY <1>0, <2>1, ChainKeptQuiet
<1>13. CASE HandleNextItem \/ HandleCloseMenu
  <2>1. ~Measures(event) /\ event' = NoEvent /\ UNCHANGED <<oneshot, mainQueue>>
    BY <1>13 DEF HandleNextItem, HandleCloseMenu, Handle, Measures, queueVars, sleepVars
  <2>2. ("TIMER_1MS" \in lost') = ("TIMER_1MS" \in lost)
    BY <1>13 DEF HandleNextItem, HandleCloseMenu
  <2>3. Joins(NoEvent, mainQueue, mainQueue') /\ ~Measures(NoEvent)
    BY <2>1, EventNames DEF Joins, Measures
  <2> QED
    BY <1>0, <2>1, <2>2, <2>3, NoEventFacts, ChainKept
<1>14. CASE Handle1MS
  <2>1. Measures(event) /\ event' = NoEvent /\ oneshot' /\ lost' = lost
    BY <1>14 DEF Handle1MS, Handle, Measures
  <2>2. Joins(Event("GLOBAL_SLEEP"), mainQueue, mainQueue')
    BY <1>14 DEF Handle1MS, SendToFront, Joins
  <2>3. Never(mainQueue) /\ "TIMER_1MS" \notin lost
    BY <2>1 DEF Chain
  <2>4. Never(mainQueue')
    BY <1>0, <1>1, <2>2, <2>3, PlainEvent, JoinsOther DEF Types
  <2>5. ~Measures(event')
    BY <2>1, EventNames DEF Measures
  <2> HIDE DEF Never, Measures
  <2> QED
    BY <2>1, <2>3, <2>4, <2>5 DEF Chain
<1> QED
  BY <1>2, <1>3, <1>4, <1>5, <1>6, <1>7, <1>8, <1>9, <1>10, <1>11, <1>12, <1>13, <1>14
     DEF Next, MainTask, Environment

\* The property counts the links.
LEMMA OneLink == Types /\ TimerTypes /\ Chain => MeasurementGoesOn
<1> SUFFICES ASSUME Types, TimerTypes, Chain PROVE MeasurementGoesOn
  OBVIOUS
<1> DEFINE links == <<oneshot, event.event = "TIMER_1MS", "TIMER_1MS" \in lost>>
           there == {i \in DOMAIN links : links[i]}
           queued == {i \in 1 .. Len(mainQueue) : mainQueue[i].event = "TIMER_1MS"}
<1>1. ASSUME Never(mainQueue) PROVE Cardinality(queued) = 0
  <2>1. queued = {}
    BY <1>1 DEF Never, Measures
  <2> QED
    BY <2>1, FS_EmptySet
<1>2. ASSUME Once(mainQueue) PROVE Cardinality(queued) = 1
  <2>1. PICK i \in 1 .. Len(mainQueue) :
            /\ Measures(mainQueue[i])
            /\ \A k \in 1 .. Len(mainQueue) : k # i => ~Measures(mainQueue[k])
    BY <1>2 DEF Once
  <2>2. queued = {i}
    BY <2>1 DEF Measures
  <2> QED
    BY <2>2, FS_Singleton
<1>3. there = {i \in {1, 2, 3} : links[i]}
  <2>1. DOMAIN links = {1, 2, 3}
    OBVIOUS
  <2> QED
    BY <2>1
<1>4. /\ 1 \in there <=> oneshot
      /\ 2 \in there <=> Measures(event)
      /\ 3 \in there <=> "TIMER_1MS" \in lost
  <2>1. links[1] = oneshot /\ links[2] = Measures(event) /\ links[3] = ("TIMER_1MS" \in lost)
    BY DEF Measures
  <2> HIDE DEF links
  <2> QED
    BY <1>3, <2>1
<1>5. \A S : S \subseteq {1, 2, 3} =>
        /\ 1 \in S /\ 2 \notin S /\ 3 \notin S => S = {1}
        /\ 1 \notin S /\ 2 \in S /\ 3 \notin S => S = {2}
        /\ 1 \notin S /\ 2 \notin S /\ 3 \in S => S = {3}
        /\ 1 \notin S /\ 2 \notin S /\ 3 \notin S => S = {}
  OBVIOUS
<1>6. there \subseteq {1, 2, 3}
  BY <1>3
<1> HIDE DEF there, queued
<1>7. Cardinality(there) + Cardinality(queued) = 1
  <2>1. CASE Once(mainQueue) /\ 1 \notin there /\ 2 \notin there /\ 3 \notin there
    <3>1. there = {} /\ Cardinality(there) = 0
      BY <1>5, <1>6, <2>1, FS_EmptySet
    <3> QED
      BY <1>2, <2>1, <3>1
  <2>2. CASE Never(mainQueue) /\ there \in {{1}, {2}, {3}}
    <3>1. Cardinality(there) = 1
      BY <2>2, FS_Singleton
    <3> QED
      BY <1>1, <2>2, <3>1
  <2>3. \/ Once(mainQueue) /\ 1 \notin there /\ 2 \notin there /\ 3 \notin there
        \/ Never(mainQueue) /\ there \in {{1}, {2}, {3}}
    <3> HIDE DEF Once, Never, Measures
    <3> QED
      BY <1>4, <1>5, <1>6 DEF Chain
  <2> QED
    BY <2>1, <2>2, <2>3
<1> QED
  BY <1>7 DEF MeasurementGoesOn, there, queued

\* The chain of battery measurements is never broken but by a full queue, and never
\* doubled: the timer is started again only by the handler of its own event, whatever
\* else waits, sleeps or restarts (main.c:104-118, 585-605).
THEOREM ChainUnbroken == Spec => []MeasurementGoesOn
<1>1. Init => Chain
  BY EventNames DEF Init, Chain, Measures, Never
<1>2. Types /\ TimerTypes /\ Chain => MeasurementGoesOn
  BY OneLink
<1> QED
  BY <1>1, <1>2, ChainStep, TypesHold, PTL DEF Spec, Inv, StateTypes

----------------------------------------------------------------------------
(* The presets *)

\* Before it sleeps, main_task has stored the presets.
PresetsAsleep == ~Awake => rtc.valid /\ rtc.presets = data.presets

\* A step that changes no preset, or one that a frame stores.
PresetStep ==
    \A band \in PresetBands, n \in PresetNums :
        data'.presets[band].name[n] # data.presets[band].name[n] =>
            StoresPreset(band, n) \/ PowerCycle

\* The presets in RAM change by a frame, or when the RTC memory has been initialised.
LEMMA PresetsStep ==
    ASSUME Inv, StateTypes, PresetsAsleep, [Next]_vars
    PROVE  PresetStep /\ PresetsAsleep'
<1>0. Types /\ TaskTypes /\ DataTypes /\ <<>> \in Seq({})
  BY DEF Inv, StateTypes
<1>1. CASE data'.presets = data.presets /\ ((pc' = pc /\ rtc' = rtc) \/ pc' # "asleep")
  BY <1>1 DEF PresetStep, PresetsAsleep, Awake
<1>2. CASE \/ \E frame \in Frames : VanFrame(frame)
           \/ \E request \in Requests : UartRequest(request)
           \/ Timer1S \/ TimerOneshot \/ TimerAudioTimeout
           \/ UartTakes \/ TssTakes \/ BatteryChanges \/ Dequeue \/ UNCHANGED vars
  BY <1>1, <1>2 DEF VanFrame, UartRequest, Timer1S, TimerOneshot, TimerAudioTimeout, UartTakes,
                    TssTakes, BatteryChanges, Dequeue, carVars, sleepVars, vars
<1>3. CASE Wake
  <2>1. data' = InitialData(rtc.presets) /\ rtc.presets = data.presets /\ pc' = "wait"
    BY <1>3 DEF Wake, Restart, BootPresets, PresetsAsleep
  <2> QED
    BY <1>1, <2>1 DEF InitialData
<1>4. CASE PowerCycle
  BY <1>4 DEF PowerCycle, Restart, PresetStep, PresetsAsleep, Awake
<1>5. CASE HandleSleep
  <2>1. rtc' = [valid |-> TRUE, presets |-> data.presets]
    BY <1>5 DEF HandleSleep, Restart
  <2>2. rtc'.valid /\ rtc'.presets = data.presets
    BY <2>1
  <2>3. data' = InitialData(data.presets)
    BY <1>5 DEF HandleSleep, Restart, BootPresets
  <2>4. data'.presets = data.presets
    BY <2>3 DEF InitialData
  <2> QED
    BY <2>2, <2>4 DEF PresetStep, PresetsAsleep
<1>6. CASE ReceiveTimesOut \/ DelayOver \/ TssWaitOver
  BY <1>0, <1>1, <1>6, PlainFinish DEF ReceiveTimesOut, DelayOver, TssWaitOver
<1>7. CASE HandleVanFrame
  <2>1. event.ev_data \in Frames
    BY <1>0, <1>7, FrameEvents DEF HandleVanFrame, Handle, Types
  <2>2. \A band \in PresetBands, n \in PresetNums :
            data'.presets[band].name[n] # data.presets[band].name[n] =>
                /\ event.ev_data.iden = PSA_VAN_IDEN_HEAD_UNIT
                /\ event.ev_data.value.band = band /\ event.ev_data.value.preset = n
    BY <1>0, <1>7, <2>1, ParsedDataFacts DEF HandleVanFrame, DataTypes
  <2> QED
    BY <1>7, <2>2 DEF HandleVanFrame, Handle, StoresPreset, PresetStep, PresetsAsleep, Awake
<1>8. CASE HandleNewData
  <2>1. packetBuffers[event.ev_data.buffer] \in Seq(KnownIdents)
    BY <1>0, <1>8, BufferFacts DEF HandleNewData, Handle, IsNewData, Types
  <2> QED
    BY <1>0, <1>1, <1>8, <2>1, PlainFinish DEF HandleNewData
<1>9. CASE Handle1S
  <2>1. (data'.presets = data.presets /\ pc' = "wait") \/ (data' = data /\ pc' = "tssWait")
    BY <1>0, <1>9, PlainFinish DEF Handle1S, carVars
  <2> QED
    BY <1>1, <2>1
<1>10. CASE Handle1MS
  <2>1. {PSA_IDENT_CAR_STATUS} \in SUBSET KnownIdents
        /\ <<PSA_IDENT_CAR_STATUS>> \in Seq({PSA_IDENT_CAR_STATUS})
    BY StatusKnown
  <2> QED
    BY <1>0, <1>1, <1>10, <2>1, FinishFacts DEF Handle1MS, DataTypes
<1>11. CASE HandleNextItem
  <2>1. PICK open, setting : open = audioMenuOpen' /\ setting = audioMenuSetting'
    OBVIOUS
  <2>2. ShowMenu(open, setting)
    BY <1>11, <2>1 DEF HandleNextItem
  <2> QED
    BY <1>0, <1>1, <2>2, ShowMenuFacts
<1>12. CASE HandleUpdateMenu \/ HandleCloseMenu
  BY <1>0, <1>1, <1>12, ShowMenuFacts, PlainFinish DEF HandleUpdateMenu, HandleCloseMenu
<1>13. CASE HandleUartReceive
  <2>1. PICK idens : idens \in Seq({event.ev_data.iden}) /\ Finish(data, {}, idens)
    <3>1. ASSUME NEW x PROVE <<x>> \in Seq({x}) /\ <<>> \in Seq({x})
      OBVIOUS
    <3> QED
      BY <1>13, <3>1 DEF HandleUartReceive
  <2> QED
    BY <1>0, <1>1, <2>1, PlainFinish
<1> QED
  BY <1>2, <1>3, <1>4, <1>5, <1>6, <1>7, <1>8, <1>9, <1>10, <1>11, <1>12, <1>13
     DEF Next, MainTask, Environment

\* A preset is lost neither by sleeping nor by waking up, nor by the presets of other
\* bands and numbers (main.c:379-385, 682-688, van_packet_parser.c:286-321).
THEOREM PresetsStay == Spec => PresetsKept
<1>1. Init => PresetsAsleep
  BY DEF Init, PresetsAsleep, Awake
<1>2. Inv /\ StateTypes /\ PresetsAsleep /\ [Next]_vars => PresetsAsleep'
  BY PresetsStep
<1>3. Inv /\ StateTypes /\ PresetsAsleep /\ [Next]_vars => [PresetStep]_vars
  BY PresetsStep
<1> QED
  BY <1>1, <1>2, <1>3, TypesHold, PTL DEF Spec, PresetsKept, PresetStep

----------------------------------------------------------------------------
(* What is written is sent *)

\* The packets an event was sent for, whatever its buffer holds by now.
Named(e) == IF IsNewData(e) THEN Identifiers(e.ev_data.idens) ELSE {}

\* A packet that an event will send.
Waits(x) == x \in Named(event) \/ \E i \in 1 .. Len(mainQueue) : x \in Named(mainQueue[i])

StaleSent == \A x \in uart.stale : Waits(x) \/ x \in uart.missed
CommandSent == data.cd_changer_command # "NONE" => PSA_IDENT_CAR_STATUS \in uart.stale

\* The buffers are intact, so what events announce is what they were sent for.
LEMMA WaitsIsPending == ASSUME Inv PROVE \A x : Waits(x) <=> x \in Pending
<1>1. ASSUME NEW e, Unspoilt(e) PROVE Named(e) = Announced(e)
  BY <1>1 DEF Named, Announced, IsNewData, Unspoilt, Identifiers
<1>2. Named(event) = Announced(event)
  BY <1>1 DEF Inv
<1>3. ASSUME NEW i \in 1 .. Len(mainQueue) PROVE Named(mainQueue[i]) = Announced(mainQueue[i])
  <2>1. Unspoilt(mainQueue[i])
    BY DEF Inv, Safe, Unspoilt, IsNewData
  <2> QED
    BY <1>1, <2>1
<1>4. ASSUME NEW x
      PROVE  x \in UNION {Announced(mainQueue[i]) : i \in 1 .. Len(mainQueue)}
                <=> \E i \in 1 .. Len(mainQueue) : x \in Announced(mainQueue[i])
  OBVIOUS
<1>5. ASSUME NEW x
      PROVE  (\E i \in 1 .. Len(mainQueue) : x \in Announced(mainQueue[i]))
                <=> (\E i \in 1 .. Len(mainQueue) : x \in Named(mainQueue[i]))
  BY <1>3
<1>6. ASSUME NEW x
      PROVE  x \in Pending
                <=> \/ x \in UNION {Announced(mainQueue[i]) : i \in 1 .. Len(mainQueue)}
                    \/ x \in Announced(event)
  BY DEF Pending
<1>7. ASSUME NEW x PROVE Waits(x) <=> x \in Pending
  BY <1>2, <1>4, <1>5, <1>6 DEF Waits
<1> QED
  BY <1>7

LEMMA WaitsKept ==
    ASSUME Types, NEW x, Waits(x), NEW e \in Events, Joins(e, mainQueue, mainQueue'),
           event' = event \/ x \notin Named(event)
    PROVE  Waits(x)'
<1>0. mainQueue \in Seq(Events)
  BY DEF Types
<1>1. \A i \in 1 .. Len(mainQueue) : \E j \in 1 .. Len(mainQueue') : mainQueue'[j] = mainQueue[i]
  BY <1>0, JoinsFacts
<1>2. CASE x \in Named(event)
  BY <1>2 DEF Waits
<1>3. CASE \E i \in 1 .. Len(mainQueue) : x \in Named(mainQueue[i])
  <2>1. PICK i \in 1 .. Len(mainQueue) : x \in Named(mainQueue[i])
    BY <1>3
  <2>2. PICK j \in 1 .. Len(mainQueue') : mainQueue'[j] = mainQueue[i]
    BY <1>1, <2>1
  <2>3. x \in Named(mainQueue'[j])
    BY <2>1, <2>2
  <2> QED
    BY <2>3 DEF Waits
<1> QED
  BY <1>2, <1>3 DEF Waits

LEMMA WaitsDequeued ==
    ASSUME Types, TaskTypes, NEW x, Waits(x), Dequeue
    PROVE  Waits(x)'
<1>1. mainQueue \in Seq(Events) /\ mainQueue # <<>> /\ mainQueue' = Tail(mainQueue)
  BY DEF Types, Dequeue
<1>2. event' = mainQueue[1] /\ event = NoEvent
  BY <1>1 DEF Dequeue, TaskTypes
<1>3. PICK i \in 1 .. Len(mainQueue) : x \in Named(mainQueue[i])
  BY <1>2, NoEventFacts DEF Waits, Named
<1>4. CASE i = 1
  BY <1>2, <1>3, <1>4 DEF Waits
<1>5. CASE i # 1
  <2>1. i - 1 \in 1 .. Len(mainQueue') /\ mainQueue'[i - 1] = mainQueue[i]
    BY <1>1, <1>5
  <2>2. x \in Named(mainQueue'[i - 1])
    BY <1>3, <2>1
  <2> QED
    BY <2>1, <2>2 DEF Waits
<1> QED
  BY <1>4, <1>5

\* A step that writes and sends no data.
LEMMA StaleKept ==
    ASSUME Types, StaleSent, CommandSent,
           uart'.stale = uart.stale, uart'.missed = uart.missed,
           data'.cd_changer_command = data.cd_changer_command,
           NEW e \in Events, Joins(e, mainQueue, mainQueue'),
           event' = event \/ Named(event) = {}
    PROVE  StaleSent' /\ CommandSent'
<1>1. StaleSent'
  BY WaitsKept DEF StaleSent
<1> QED
  BY <1>1 DEF CommandSent

LEMMA StaleKeptQuiet ==
    ASSUME Types, StaleSent, CommandSent, UNCHANGED <<uart, data, mainQueue>>,
           event' = event \/ Named(event) = {}
    PROVE  StaleSent' /\ CommandSent'
<1>1. Joins(NoEvent, mainQueue, mainQueue')
  BY DEF Joins
<1> QED
  BY <1>1, NoEventFacts, StaleKept

\* What is out of date when a handler ends has been refused, or was out of date before
\* and is not among the packets it sent.
LEMMA FinishSends ==
    ASSUME DataTypes, NEW newData, IsData(newData), NEW written \in SUBSET KnownIdents,
           NEW S, NEW idens \in Seq(S), Finish(newData, written, idens),
           written \subseteq Identifiers(idens),
           newData.cd_changer_command # "NONE" => PSA_IDENT_CAR_STATUS \in uart.stale
    PROVE  /\ \A x \in uart'.stale :
                x \in uart'.missed
                  \/ (x \in uart.stale /\ x \notin uart.missed /\ x \notin Identifiers(idens))
           /\ CommandSent'
<1> DEFINE before == Written(uart, written)
           sent == SendPackets(before, idens)
           again == Written(sent, {PSA_IDENT_CAR_STATUS})
           told == SendPackets(again, <<PSA_IDENT_CAR_STATUS>>)
           Good(u) == \A x \in u.stale :
                x \in u.missed
                  \/ (x \in uart.stale /\ x \notin uart.missed /\ x \notin Identifiers(idens))
<1>1. /\ before \in UartView /\ before.missed = uart.missed
      /\ before.stale = uart.stale \union (written \intersect Tracked)
  BY WrittenFacts DEF DataTypes
<1>2. /\ sent \in UartView /\ sent.stale \subseteq before.stale
      /\ before.stale \ Identifiers(idens) \subseteq sent.stale
      /\ sent.stale \intersect (before.missed \union Identifiers(idens)) \subseteq sent.missed
  BY <1>1, SendPacketsFacts
<1>3. /\ again \in UartView /\ again.missed = sent.missed
      /\ again.stale = sent.stale \union ({PSA_IDENT_CAR_STATUS} \intersect Tracked)
  BY <1>2, WrittenFacts, StatusKnown
<1>4. /\ told.stale \subseteq again.stale
      /\ told.stale \intersect (again.missed \union {PSA_IDENT_CAR_STATUS}) \subseteq told.missed
  <2>1. <<PSA_IDENT_CAR_STATUS>> \in Seq({PSA_IDENT_CAR_STATUS})
    OBVIOUS
  <2>2. Identifiers(<<PSA_IDENT_CAR_STATUS>>) = {PSA_IDENT_CAR_STATUS}
    BY DEF Identifiers
  <2> QED
    BY <1>3, <2>1, <2>2, SendPacketsFacts
<1>5. uart' = sent \/ uart' = told
  BY DEF Finish
<1>6. CommandSent'
  <2> DEFINE status == CarStateOf(newData) # carState \/ PSA_IDENT_CAR_STATUS \in Identifiers(idens)
  <2>1. /\ data' = IF status THEN [newData EXCEPT !.cd_changer_command = "NONE"] ELSE newData
        /\ uart' = IF CarStateOf(newData) # carState THEN told ELSE sent
    BY DEF Finish, Identifiers
  <2>2. CASE status
    <3>1. newData = [f \in DataFields |-> newData[f]]
      BY DEF IsData
    <3>2. data'.cd_changer_command = "NONE"
      BY <2>1, <2>2, <3>1 DEF DataFields
    <3> QED
      BY <3>2 DEF CommandSent
  <2>3. CASE ~status
    <3>1. data' = newData /\ uart' = sent /\ PSA_IDENT_CAR_STATUS \notin Identifiers(idens)
      BY <2>1, <2>3
    <3> HIDE DEF sent, before
    <3> QED
      BY <1>1, <1>2, <3>1 DEF CommandSent
  <2> QED
    BY <2>2, <2>3
<1> HIDE DEF before, sent, again, told
<1>7. Good(sent)
  BY <1>1, <1>2
<1>8. Good(told)
  BY <1>3, <1>4, <1>7
<1> QED
  BY <1>5, <1>6, <1>7, <1>8

\* A handler ends that has sent at least what its event is for.
LEMMA FinishStale ==
    ASSUME Types, StaleSent, DataTypes, NEW newData, IsData(newData),
           NEW written \in SUBSET KnownIdents, NEW S, NEW idens \in Seq(S),
           Finish(newData, written, idens), written \subseteq Identifiers(idens),
           newData.cd_changer_command # "NONE" => PSA_IDENT_CAR_STATUS \in uart.stale,
           NEW e \in Events, Joins(e, mainQueue, mainQueue'),
           Named(event) \subseteq Identifiers(idens)
    PROVE  StaleSent' /\ CommandSent'
<1>1. /\ \A x \in uart'.stale :
            x \in uart'.missed
              \/ (x \in uart.stale /\ x \notin uart.missed /\ x \notin Identifiers(idens))
      /\ CommandSent'
  BY FinishSends
<1>2. ASSUME NEW x \in uart.stale, x \notin uart.missed, x \notin Identifiers(idens)
      PROVE  Waits(x)'
  BY <1>2, WaitsKept DEF StaleSent
<1> QED
  BY <1>1, <1>2 DEF StaleSent

\* A CD changer command comes with a frame that announces the state of the car.
LEMMA CommandAnnounced ==
    ASSUME NEW d, IsData(d), NEW frame,
           ParsedData(frame, d).cd_changer_command # d.cd_changer_command
    PROVE  PSA_IDENT_CAR_STATUS \in Identifiers(Idens(frame))
<1>0. d = [f \in DataFields |-> d[f]]
  BY DEF IsData
<1>1. /\ d.cd_changer_command = ParsedDash(frame.value, d).cd_changer_command
      /\ d.cd_changer_command = ParsedTuner(frame.value, d).cd_changer_command
      /\ d.cd_changer_command = ParsedHeadunit(frame.value, d).cd_changer_command
      /\ d.cd_changer_command = ParsedCarStatus2(frame.value, d).cd_changer_command
  BY <1>0 DEF ParsedDash, ParsedTuner, ParsedHeadunit, ParsedCarStatus2, DataFields
<1>2. Idens(frame) # <<>> /\ frame.iden = PSA_VAN_IDEN_CDCHANGER_COMMAND
  <2>1. \/ ParsedData(frame, d) \in {d, ParsedDash(frame.value, d), ParsedTuner(frame.value, d),
                                    ParsedHeadunit(frame.value, d),
                                    ParsedCarStatus2(frame.value, d)}
        \/ Idens(frame) # <<>> /\ frame.iden = PSA_VAN_IDEN_CDCHANGER_COMMAND
    BY DEF ParsedData
  <2> QED
    BY <1>1, <2>1
<1>3. PICK rule \in Rules : Applies(rule, frame) /\ Idens(frame) = rule.idens
  BY <1>2 DEF Idens
<1>4. rule.iden = PSA_VAN_IDEN_CDCHANGER_COMMAND
  BY <1>2, <1>3 DEF Applies
<1>5. ASSUME NEW iden, NEW size, NEW about, NEW idens, iden # PSA_VAN_IDEN_CDCHANGER_COMMAND
      PROVE  rule # Rule(iden, size, about, idens)
  BY <1>4, <1>5 DEF Rule
<1>6. rule = CdcCommandRule
  <2>1. /\ PSA_VAN_IDEN_RPM # PSA_VAN_IDEN_CDCHANGER_COMMAND
        /\ PSA_VAN_IDEN_CAR_STATUS1 # PSA_VAN_IDEN_CDCHANGER_COMMAND
        /\ PSA_VAN_IDEN_ENGINE # PSA_VAN_IDEN_CDCHANGER_COMMAND
        /\ PSA_VAN_IDEN_VIN # PSA_VAN_IDEN_CDCHANGER_COMMAND
        /\ PSA_VAN_IDEN_HEAD_UNIT # PSA_VAN_IDEN_CDCHANGER_COMMAND
        /\ PSA_VAN_IDEN_AUDIO_SETTINGS # PSA_VAN_IDEN_CDCHANGER_COMMAND
        /\ PSA_VAN_IDEN_LIGHTS_STATUS # PSA_VAN_IDEN_CDCHANGER_COMMAND
        /\ PSA_VAN_IDEN_CAR_STATUS2 # PSA_VAN_IDEN_CDCHANGER_COMMAND
    BY DEF PSA_VAN_IDEN_RPM, PSA_VAN_IDEN_CDCHANGER_COMMAND, PSA_VAN_IDEN_CAR_STATUS1,
           PSA_VAN_IDEN_ENGINE, PSA_VAN_IDEN_VIN, PSA_VAN_IDEN_HEAD_UNIT,
           PSA_VAN_IDEN_AUDIO_SETTINGS, PSA_VAN_IDEN_LIGHTS_STATUS, PSA_VAN_IDEN_CAR_STATUS2
  <2>2. /\ rule # RpmRule /\ rule # TripRule /\ rule # DashRule /\ rule # VinRule
        /\ rule # TunerRule /\ rule # CdShortRule /\ rule # CdLongRule /\ rule # HeadunitRule
        /\ rule # InstrumentsShortRule /\ rule # InstrumentsLongRule
        /\ rule # CarStatus2ShortRule /\ rule # CarStatus2LongRule
    BY <1>5, <2>1 DEF RpmRule, TripRule, DashRule, VinRule, TunerRule, CdShortRule, CdLongRule,
                      HeadunitRule, InstrumentsShortRule, InstrumentsLongRule,
                      CarStatus2ShortRule, CarStatus2LongRule
  <2> QED
    BY <1>3, <2>2 DEF Rules
<1>7. Idens(frame) = <<PSA_IDENT_CAR_STATUS>>
  BY <1>3, <1>6 DEF CdcCommandRule, Rule
<1> QED
  BY <1>7 DEF Identifiers

LEMMA VanFrameStale ==
    ASSUME Inv, StateTypes, StaleSent, CommandSent, HandleVanFrame,
           PSA_IDENT_CAR_STATUS \in Tracked
    PROVE  StaleSent' /\ CommandSent'
<1> DEFINE frame == event.ev_data
           idens == Idens(frame)
           changed == {idens[i] : i \in 1 .. Len(idens)}
           new == UartNewData(packetBufferNum, idens)
<1>0. Types /\ DataTypes /\ MainQueueLen \in Nat
  BY LengthsAssumption DEF Inv, StateTypes
<1>1. frame \in Frames /\ event' = NoEvent /\ Named(event) = {}
  BY <1>0, FrameEvents DEF HandleVanFrame, Handle, Types, Named, IsNewData
<1>2. idens \in Seq(KnownIdents) /\ changed = Identifiers(idens)
  BY IdensKnown DEF Identifiers
<1>3. changed \in SUBSET KnownIdents
  <2> HIDE DEF idens
  <2> QED
    BY <1>2 DEF Identifiers
<1>4. /\ uart'.stale = uart.stale \union (changed \intersect Tracked)
      /\ uart.missed \subseteq uart'.missed
      /\ IsFull(mainQueue, MainQueueLen) => changed \intersect Tracked \subseteq uart'.missed
  <2>1. PICK u \in UartView : u = Written(uart, changed)
    BY <1>0, <1>3, WrittenFacts DEF DataTypes
  <2>2. u.stale = uart.stale \union (changed \intersect Tracked) /\ u.missed = uart.missed
    BY <1>0, <1>3, <2>1, WrittenFacts DEF DataTypes
  <2>3. uart' = IF IsFull(mainQueue, MainQueueLen) THEN Missed(u, changed) ELSE u
    BY <2>1 DEF HandleVanFrame
  <2>4. Missed(u, changed).stale = u.stale
        /\ Missed(u, changed).missed = u.missed \union (changed \intersect Tracked)
    BY <1>3, WrittenFacts
  <2> HIDE DEF changed
  <2> QED
    BY <2>2, <2>3, <2>4
<1>5. PICK e \in Events : Joins(e, mainQueue, mainQueue')
  BY FrameSends
<1>6. ASSUME NEW x \in changed, x \in Tracked PROVE Waits(x)' \/ x \in uart'.missed
  <2>1. CASE IsFull(mainQueue, MainQueueLen)
    BY <1>4, <1>6, <2>1
  <2>2. CASE ~IsFull(mainQueue, MainQueueLen)
    <3>1. idens # <<>>
      BY <1>2 DEF Identifiers
    <3>2. mainQueue' = Append(mainQueue, new)
      BY <2>2, <3>1 DEF HandleVanFrame, PostIdens, Send, SendToBack
    <3>3. mainQueue \in Seq(Events)
      BY <1>0 DEF Types
    <3>4. Len(mainQueue') \in 1 .. Len(mainQueue') /\ mainQueue'[Len(mainQueue')] = new
      <4> HIDE DEF new
      <4> QED
        BY <3>2, <3>3
    <3>5. Named(new) = changed
      BY <1>2 DEF Named, IsNewData, UartNewData
    <3> QED
      <4> HIDE DEF new
      <4> QED
        BY <3>4, <3>5 DEF Waits
  <2> QED
    BY <2>1, <2>2
<1>7. ASSUME NEW x \in uart.stale PROVE Waits(x)' \/ x \in uart'.missed
  BY <1>0, <1>1, <1>4, <1>5, WaitsKept DEF StaleSent
<1>8. StaleSent'
  <2> HIDE DEF changed
  <2> QED
    BY <1>4, <1>6, <1>7 DEF StaleSent
<1>9. CommandSent'
  <2>1. data' = ParsedData(frame, data)
    BY DEF HandleVanFrame
  <2>2. CASE ParsedData(frame, data).cd_changer_command = data.cd_changer_command
    BY <1>4, <2>1, <2>2 DEF CommandSent
  <2>3. CASE ParsedData(frame, data).cd_changer_command # data.cd_changer_command
    <3>1. PSA_IDENT_CAR_STATUS \in changed
      BY <1>0, <1>2, <2>3, CommandAnnounced DEF DataTypes
    <3> QED
      BY <1>4, <3>1 DEF CommandSent
  <2> QED
    BY <2>2, <2>3
<1> QED
  BY <1>8, <1>9

LEMMA StaleStep ==
    ASSUME PSA_IDENT_CAR_STATUS \in Tracked
    PROVE  Inv /\ StateTypes /\ StaleSent /\ CommandSent /\ [Next]_vars => StaleSent' /\ CommandSent'
<1> SUFFICES ASSUME Inv, StateTypes, StaleSent, CommandSent, [Next]_vars
             PROVE  StaleSent' /\ CommandSent'
  OBVIOUS
<1>0. Types /\ TaskTypes /\ DataTypes /\ IsData(data) /\ <<>> \in Seq({})
      /\ {} \in SUBSET KnownIdents /\ {} \subseteq Identifiers(<<>>)
  BY DEF Inv, StateTypes, DataTypes
<1>a. Joins(NoEvent, mainQueue, mainQueue) /\ NoEvent \in Events
  BY NoEventFacts DEF Joins
<1>1. ASSUME NEW name, name # "UART_NEW_DATA", event.event = name PROVE Named(event) = {}
  BY <1>1 DEF Named, IsNewData
<1>2. ASSUME NEW frame \in Frames, VanFrame(frame) PROVE StaleSent' /\ CommandSent'
  BY <1>0, <1>2, SendJoins, StaleKept DEF VanFrame, carVars, Events
<1>3. ASSUME NEW request \in Requests, UartRequest(request) PROVE StaleSent' /\ CommandSent'
  BY <1>0, <1>3, SendJoins, StaleKept DEF UartRequest, carVars, Events
<1>4. CASE Timer1S
  BY <1>0, <1>4, PlainEvent, SendJoins, StaleKept DEF Timer1S, carVars
<1>5. CASE TimerOneshot
  BY <1>0, <1>5, PlainEvent, OnceSent, StaleKept DEF TimerOneshot, carVars
<1>6. CASE TimerAudioTimeout
  BY <1>0, <1>6, PlainEvent, OnceSent, StaleKept DEF TimerAudioTimeout, carVars
<1>7. CASE UartTakes
  <2>1. uart'.stale = uart.stale /\ uart'.missed = uart.missed
    BY <1>0, <1>7 DEF UartTakes, DataTypes, UartView
  <2> QED
    BY <1>0, <1>a, <1>7, <2>1, StaleKept DEF UartTakes, queueVars
<1>8. CASE TssTakes \/ BatteryChanges \/ UNCHANGED vars
  BY <1>0, <1>8, StaleKeptQuiet DEF TssTakes, BatteryChanges, vars, carVars, queueVars
<1>9. CASE Wake \/ PowerCycle \/ HandleSleep
  <2>1. uart' = NoUart /\ \E presets : data' = InitialData(presets)
    BY <1>9 DEF Wake, PowerCycle, HandleSleep, Restart
  <2> QED
    BY <2>1 DEF NoUart, InitialData, StaleSent, CommandSent
<1>10. CASE Dequeue
  BY <1>0, <1>10, WaitsDequeued DEF Dequeue, carVars, StaleSent, CommandSent
<1>11. CASE ReceiveTimesOut \/ DelayOver \/ TssWaitOver
  <2>1. Finish(data, {}, <<>>) /\ mainQueue' = mainQueue /\ event = NoEvent
    BY <1>0, <1>11 DEF ReceiveTimesOut, DelayOver, TssWaitOver, TaskTypes, queueVars
  <2>2. Named(event) = {}
    BY <1>1, <2>1, EventNames
  <2> QED
    BY <1>0, <1>a, <2>1, <2>2, FinishStale DEF CommandSent
<1>12. CASE HandleVanFrame
  BY <1>12, VanFrameStale
<1>13. CASE HandleNewData
  <2>1. PICK idens \in Seq(KnownIdents) : idens = packetBuffers[event.ev_data.buffer]
    BY <1>0, <1>13, BufferFacts DEF HandleNewData, Handle, IsNewData, Types
  <2>2. Finish(data, {}, idens) /\ mainQueue' = mainQueue
    BY <1>13, <2>1 DEF HandleNewData, queueVars
  <2>3. Named(event) = Identifiers(idens)
    BY <1>13, <2>1 DEF HandleNewData, Handle, Inv, Unspoilt, Named, IsNewData
  <2> QED
    BY <1>0, <1>a, <2>2, <2>3, FinishStale DEF CommandSent
<1>14. CASE Handle1S
  <2>1. Named(event) = {} /\ mainQueue' = mainQueue
    BY <1>1, <1>14 DEF Handle1S, Handle, queueVars
  <2>2. CASE Finish(data, {}, <<>>)
    BY <1>0, <1>a, <2>1, <2>2, FinishStale DEF CommandSent
  <2>3. CASE UNCHANGED carVars
    BY <1>0, <2>1, <2>3, StaleKeptQuiet DEF carVars
  <2> QED
    BY <1>14, <2>2, <2>3 DEF Handle1S
<1>15. CASE Handle1MS
  <2> DEFINE status == <<PSA_IDENT_CAR_STATUS>>
  <2>1. Joins(Event("GLOBAL_SLEEP"), mainQueue, mainQueue') /\ Event("GLOBAL_SLEEP") \in Events
    BY <1>15, PlainEvent DEF Handle1MS, SendToFront, Joins
  <2>2. /\ {PSA_IDENT_CAR_STATUS} \in SUBSET KnownIdents
        /\ status \in Seq({PSA_IDENT_CAR_STATUS})
        /\ {PSA_IDENT_CAR_STATUS} \subseteq Identifiers(status)
    BY StatusKnown DEF Identifiers
  <2>3. Finish(data, {PSA_IDENT_CAR_STATUS}, status) /\ Named(event) = {}
    BY <1>1, <1>15 DEF Handle1MS, Handle
  <2> HIDE DEF status
  <2> QED
    BY <1>0, <2>1, <2>2, <2>3, FinishStale DEF CommandSent
<1>16. ASSUME NEW open, NEW setting, ShowMenu(open, setting), mainQueue' = mainQueue, Named(event) = {}
       PROVE  StaleSent' /\ CommandSent'
  <2> DEFINE headunit == <<PSA_IDENT_HEADUNIT>>
  <2>1. PICK newData : newData = [data EXCEPT !.settings_menu_open = open,
                                              !.settings_changing = Changing(setting)]
    OBVIOUS
  <2>2. data = [f \in DataFields |-> data[f]] /\ data.presets \in Presets
    BY <1>0 DEF IsData
  <2>3. IsData(newData) /\ newData.cd_changer_command = data.cd_changer_command
    BY <2>1, <2>2 DEF IsData, DataFields
  <2>4. Finish(newData, {PSA_IDENT_HEADUNIT}, headunit)
    BY <1>16, <2>1 DEF ShowMenu
  <2>5. /\ {PSA_IDENT_HEADUNIT} \in SUBSET KnownIdents
        /\ headunit \in Seq({PSA_IDENT_HEADUNIT})
        /\ {PSA_IDENT_HEADUNIT} \subseteq Identifiers(headunit)
    BY StatusKnown DEF Identifiers
  <2> HIDE DEF headunit
  <2> QED
    BY <1>0, <1>a, <1>16, <2>3, <2>4, <2>5, FinishStale DEF CommandSent
<1>17. CASE HandleNextItem
  <2>1. PICK open, setting : open = audioMenuOpen' /\ setting = audioMenuSetting'
    OBVIOUS
  <2>2. ShowMenu(open, setting) /\ mainQueue' = mainQueue /\ Named(event) = {}
    BY <1>1, <1>17, <2>1 DEF HandleNextItem, Handle, queueVars
  <2> QED
    BY <1>16, <2>2
<1>18. CASE HandleUpdateMenu
  <2>1. mainQueue' = mainQueue /\ Named(event) = {}
    BY <1>1, <1>18 DEF HandleUpdateMenu, Handle, queueVars
  <2>2. CASE Finish(data, {}, <<>>)
    BY <1>0, <1>a, <2>1, <2>2, FinishStale DEF CommandSent
  <2> QED
    BY <1>16, <1>18, <2>1, <2>2 DEF HandleUpdateMenu
<1>19. CASE HandleCloseMenu
  <2>1. ShowMenu(0, 0) /\ mainQueue' = mainQueue /\ Named(event) = {}
    BY <1>1, <1>19 DEF HandleCloseMenu, Handle, queueVars
  <2> QED
    BY <1>16, <2>1
<1>20. CASE HandleUartReceive
  <2>1. PICK idens : idens \in Seq({event.ev_data.iden}) /\ Finish(data, {}, idens)
    <3>1. ASSUME NEW x PROVE <<x>> \in Seq({x}) /\ <<>> \in Seq({x})
      OBVIOUS
    <3> QED
      BY <1>20, <3>1 DEF HandleUartReceive
  <2>2. mainQueue' = mainQueue /\ Named(event) = {}
    BY <1>1, <1>20 DEF HandleUartReceive, Handle, queueVars
  <2> QED
    BY <1>0, <1>a, <2>1, <2>2, FinishStale DEF CommandSent
<1> QED
  BY <1>2, <1>3, <1>4, <1>5, <1>6, <1>7, <1>8, <1>9, <1>10, <1>11, <1>12, <1>13, <1>14, <1>15,
     <1>17, <1>18, <1>19, <1>20 DEF Next, MainTask, Environment

\* Data that has been written is announced by an event still to be handled, or was
\* refused by a full queue; no order of frames, handlers and blocked sends leaves the
\* computer with old data for no reason.  A CD changer command is never forgotten
\* before its packet is sent (van_packet_parser.c:49-56, main.c:546-560, 643-650,
\* psa_helper.c:97).
THEOREM UpdatesGetSent ==
    ASSUME PSA_IDENT_CAR_STATUS \in Tracked
    PROVE  Spec => []UpdatesAreSent
<1>1. Init => StaleSent /\ CommandSent
  BY DEF Init, NoUart, InitialData, StaleSent, CommandSent
<1>2. Inv /\ StaleSent /\ CommandSent => UpdatesAreSent
  <2> SUFFICES ASSUME Inv, StaleSent, CommandSent PROVE UpdatesAreSent
    OBVIOUS
  <2> QED
    BY WaitsIsPending DEF StaleSent, CommandSent, UpdatesAreSent
<1>3. Inv /\ StateTypes /\ StaleSent /\ CommandSent /\ [Next]_vars => StaleSent' /\ CommandSent'
  BY StaleStep
<1> QED
  BY <1>1, <1>2, <1>3, TypesHold, PTL DEF Spec

=============================================================================
