------------------------------ MODULE MainTask ------------------------------
(***************************************************************************)
(* main_task (main.c:429-697), the hub of the firmware: every other task,  *)
(* interrupt and timer sends it events, and it keeps the data buffers, the *)
(* audio menu, the state of the car, and puts the ESP32 to sleep.          *)
(*                                                                         *)
(* main_task is the task of highest priority on its core, so what it does  *)
(* with one event is one step, except where it blocks: in xQueueReceive,   *)
(* in vTaskDelay after a VAN frame, and in the send of the one-second tick *)
(* to a full TSS queue.  The other core and the interrupts go on meanwhile *)
(* and may fill the slot an event has left before the event is handled;    *)
(* therefore taking an event and handling it are two steps.                *)
(*                                                                         *)
(* Parsing a frame sends main_task an event to itself: the identifiers of  *)
(* the packets to send are in a ring of packet_buffers, the event points   *)
(* to one of them (van_packet_parser.c:26-56).                             *)
(***************************************************************************)
EXTENDS Integers, FiniteSets, EventQueue, PsaPacketDefs, VanPacketParser, PsaHelper, CarState

CONSTANTS
    MainQueueLen,       \* length of the main queue (20, main.c:365)
    PacketBufferNum,    \* PACKET_BUFFER_NUM (20)
    TssQueueLen,        \* length of the TSS queue (10)
    HeaderMax,          \* the CD changer header counts from 0 to HeaderMax (7)
    MaxTicks,           \* bound on the one-second ticks between two boots
    Voltages,           \* the readings of the battery: is there power on VAN+
    Resets,             \* may there be resets other than waking up
    Frames,             \* the frames van_rmt_task receives: [iden, size, value]
    Requests            \* the requests uart_rx_task receives: [iden, trip_meter]

ASSUME LengthsAssumption ==
    {MainQueueLen, PacketBufferNum, TssQueueLen} \subseteq Nat \ {0}
ASSUME BoundsAssumption == HeaderMax \in Nat /\ MaxTicks \in Nat
ASSUME ChoicesAssumption == Voltages \subseteq BOOLEAN /\ TRUE \in Voltages /\ Resets \in BOOLEAN
\* The ring is no smaller than the queue.
ASSUME RingAssumption == MainQueueLen <= PacketBufferNum

VARIABLES
    mainQueue,          \* global_main_queue
    pc,                 \* where main_task is
    event,              \* the event it has taken
    packetBuffers,      \* packet_buffers: sequences of identifiers
    packetBufferNum,    \* packet_buffer_num
    data,               \* global_libpsa_buffers
    carState,           \* g_global_car_state, also in status_data
    extPower,           \* g_global_ext_power_state, which switches nothing
    extReg,             \* PSA_EXT_REG_PIN: the regulator that supplies the computer
    audioMenuOpen, audioMenuSetting,
    menuTimer,          \* timer_handle_audio_timeout is running
    oneshot,            \* timer_handle_oneshot is running
    ticks,              \* one-second ticks so far
    uart,               \* what main_task sees of the UART queue, see PsaHelper
    tssQueue,           \* global_tss_queue: which of main_task's two packets an
                        \* event points to, and which trip meter it is meant for
    cdcHeader,          \* header and footer of *tss_packet
    tripReset,          \* the meter *tss_trip_packet resets
    battery,            \* there is power on VAN+
    rtc,                \* what survives deep sleep: rtc_data_valid, rtc_preset_data
    lost                \* the timers whose event found the main queue full, until
                        \* what the event is for has happened

queueVars == <<mainQueue, packetBuffers, packetBufferNum>>
carVars == <<data, carState, extPower, extReg, uart>>
menuVars == <<audioMenuOpen, audioMenuSetting, menuTimer>>
tssVars == <<tssQueue, cdcHeader, tripReset>>
sleepVars == <<oneshot, battery, rtc>>
vars == <<queueVars, pc, event, carVars, menuVars, ticks, tssVars, sleepVars, lost>>

Buffers == 0 .. PacketBufferNum - 1

\* Events: `event' is the name without MIVE_EVENT_, `ev_data' what the pointer
\* leads to.  A UART_NEW_DATA event points to a packet buffer, and `idens' records
\* what the buffer held when the event was sent.
Event(name) == [event |-> name, ev_data |-> "NULL"]
NewVanFrame(frame) == [event |-> "RMT_NEW_VAN_FRAME", ev_data |-> frame]
UartReceive(request) == [event |-> "UART_RECEIVE", ev_data |-> request]
UartNewData(b, idens) ==
    [event |-> "UART_NEW_DATA", ev_data |-> [buffer |-> b, idens |-> idens]]
NoEvent == Event("NONE")
TssWrite(packet, meter) == [packet |-> packet, asked |-> meter]
CdChanger == TssWrite("tss_packet", "NONE")

\* The buffers init_libpsa_packets allocates, all zero but for the presets.
InitialData(presets) ==
    [engine_running |-> 0, accesories_on |-> 0, ignition_on |-> 0, unit_powered_on |-> 0,
     doors_locked |-> 0, cd_changer_command |-> "NONE", presets |-> presets,
     settings_menu_open |-> 0, settings_changing |-> {}]

NoRtcData == [valid |-> FALSE, presets |-> [band \in PresetBands |-> NoPresets]]

\* A mutant: the presets are zeroed on every boot.
BootWithoutPresets(rtcData) == [band \in PresetBands |-> NoPresets]

\* app_main takes the presets over if the RTC memory holds any (main.c:379-385).
BootPresets(rtcData) ==
    IF rtcData.valid THEN rtcData.presets ELSE [band \in PresetBands |-> NoPresets]

Init ==
    /\ mainQueue = <<>>
    /\ packetBuffers = [b \in Buffers |-> <<>>]
    /\ packetBufferNum = 0
    /\ pc = "wait"
    /\ event = NoEvent
    /\ data = InitialData(BootPresets(NoRtcData))
    /\ carState = "CAR_SLEEP"
    /\ extPower = 1
    /\ extReg = 1
    /\ uart = NoUart
    /\ audioMenuOpen = 0 /\ audioMenuSetting = 0 /\ menuTimer = FALSE
    /\ ticks = 0
    /\ tssQueue = <<>> /\ cdcHeader = 0 /\ tripReset = "NONE"
    /\ oneshot = TRUE
    /\ battery = TRUE
    /\ rtc = NoRtcData
    /\ lost = {}

\* Everything in RAM is as after a reset; the RTC memory is `rtcData'.  main_task
\* raises the pin of the regulator as it starts, go_to_sleep lowers it.
Restart(where, rtcData) ==
    /\ pc' = where
    /\ rtc' = rtcData
    /\ mainQueue' = <<>>
    /\ packetBuffers' = [b \in Buffers |-> <<>>]
    /\ packetBufferNum' = 0
    /\ event' = NoEvent
    /\ data' = InitialData(BootPresets(rtcData))
    /\ carState' = "CAR_SLEEP"
    /\ extPower' = 1
    /\ extReg' = IF where = "asleep" THEN 0 ELSE 1
    /\ uart' = NoUart
    /\ audioMenuOpen' = 0 /\ audioMenuSetting' = 0 /\ menuTimer' = FALSE
    /\ ticks' = 0
    /\ tssQueue' = <<>> /\ cdcHeader' = 0 /\ tripReset' = "NONE"
    /\ oneshot' = TRUE
    /\ lost' = {}

Awake == pc # "asleep"

----------------------------------------------------------------------------
(* The other tasks, the interrupts and the car *)

\* Somebody sends main_task an event; it is gone if the queue is full.
Send(e) == mainQueue' = SendToBack(mainQueue, e, MainQueueLen)

\* van_rmt_task has a frame (van_rmt_task.c:133-142).
VanFrame(frame) ==
    /\ Awake
    /\ Send(NewVanFrame(frame))
    /\ UNCHANGED <<packetBuffers, packetBufferNum, pc, event, carVars, menuVars, ticks,
                   tssVars, sleepVars, lost>>

\* uart_rx_task has a packet from the computer (uart_task.c:174-179).
UartRequest(request) ==
    /\ Awake
    /\ Send(UartReceive(request))
    /\ UNCHANGED <<packetBuffers, packetBufferNum, pc, event, carVars, menuVars, ticks,
                   tssVars, sleepVars, lost>>

\* timer_callback_f, every second.
Timer1S ==
    /\ Awake
    /\ ticks < MaxTicks
    /\ ticks' = ticks + 1
    /\ Send(Event("TIMER_1S"))
    /\ UNCHANGED <<packetBuffers, packetBufferNum, pc, event, carVars, menuVars, tssVars,
                   sleepVars, lost>>

\* The timers that run once: their event is recorded if it is lost.
SendOnce(name) ==
    /\ Send(Event(name))
    /\ lost' = IF IsFull(mainQueue, MainQueueLen) THEN lost \union {name} ELSE lost

\* timer_callback_oneshot_f, for the next measurement of the battery.
TimerOneshot ==
    /\ Awake
    /\ oneshot
    /\ oneshot' = FALSE
    /\ SendOnce("TIMER_1MS")
    /\ UNCHANGED <<packetBuffers, packetBufferNum, pc, event, carVars, menuVars, ticks,
                   tssVars, battery, rtc>>

\* timer_callback_audio_timeout_f.
TimerAudioTimeout ==
    /\ Awake
    /\ menuTimer
    /\ menuTimer' = FALSE
    /\ SendOnce("VAN_CLOSE_AUDIO_MENU")
    /\ UNCHANGED <<packetBuffers, packetBufferNum, pc, event, carVars, audioMenuOpen,
                   audioMenuSetting, ticks, tssVars, sleepVars>>

\* uart_task takes a packet from its queue.
UartTakes ==
    /\ uart.queued > 0
    /\ uart' = [uart EXCEPT !.queued = @ - 1]
    /\ UNCHANGED <<queueVars, pc, event, data, carState, extPower, extReg, menuVars, ticks,
                   tssVars, sleepVars, lost>>

\* tss_task takes a packet from its queue.
TssTakes ==
    /\ tssQueue # <<>>
    /\ tssQueue' = Tail(tssQueue)
    /\ UNCHANGED <<queueVars, pc, event, carVars, menuVars, ticks, cdcHeader, tripReset,
                   sleepVars, lost>>

\* The car switches VAN+ on or off.
BatteryChanges ==
    /\ battery' \in Voltages \ {battery}
    /\ UNCHANGED <<queueVars, pc, event, carVars, menuVars, ticks, tssVars, oneshot, rtc, lost>>

\* The ULP sees the voltage rise and wakes the ESP32 up.
Wake ==
    /\ ~Awake
    /\ battery
    /\ Restart("wait", rtc)
    /\ UNCHANGED battery

\* A reset for any other reason: the RTC memory is initialised again.
PowerCycle ==
    /\ Resets
    /\ Restart("wait", NoRtcData)
    /\ UNCHANGED battery

----------------------------------------------------------------------------
(* main_task: taking an event *)

\* xQueueReceive finds an event.
Dequeue ==
    /\ pc = "wait"
    /\ mainQueue # <<>>
    /\ event' = Head(mainQueue)
    /\ mainQueue' = Tail(mainQueue)
    /\ pc' = "handle"
    /\ UNCHANGED <<packetBuffers, packetBufferNum, carVars, menuVars, ticks, tssVars,
                   sleepVars, lost>>

\* The handler of event `name' runs; it is done with the event.
Handle(name) ==
    /\ pc = "handle"
    /\ event.event = name
    /\ event' = NoEvent

\* A handler ends: it leaves the data buffers as newData, having written those of
\* `written', and sends the packets `idens'.  Then the loop calls
\* calculate_car_state, which tells the computer a new state at once.  A CAR_STATUS
\* packet takes the CD changer command along (psa_helper.c:97).
Finish(newData, written, idens) ==
    LET sent == SendPackets(Written(uart, written), idens)
        newState == CarStateOf(newData)
        told == SendPackets(Written(sent, {PSA_IDENT_CAR_STATUS}), <<PSA_IDENT_CAR_STATUS>>)
        status == newState # carState \/ PSA_IDENT_CAR_STATUS \in {idens[i] : i \in 1 .. Len(idens)}
    IN  /\ carState' = newState
        /\ uart' = IF newState # carState THEN told ELSE sent
        /\ data' = IF status THEN [newData EXCEPT !.cd_changer_command = "NONE"] ELSE newData
        /\ extPower' = ExtPowerState(newState, extPower)
        /\ pc' = "wait"
        /\ UNCHANGED extReg

\* xQueueReceive finds nothing for a second.
ReceiveTimesOut ==
    /\ pc = "wait"
    /\ mainQueue = <<>>
    /\ Finish(data, {}, <<>>)
    /\ UNCHANGED <<queueVars, event, menuVars, ticks, tssVars, sleepVars, lost>>

----------------------------------------------------------------------------
(* main_task: the handlers *)

\* Mutants of the index: the ring is left by one, or one buffer too short.
NextPacketBufferLate(b) == IF b >= PacketBufferNum THEN 0 ELSE b + 1
NextPacketBufferShort(b) == IF b >= PacketBufferNum - 2 THEN 0 ELSE b + 1

\* get_packet_buffer.
NextPacketBuffer(b) == IF b >= PacketBufferNum - 1 THEN 0 ELSE b + 1

\* A mutant: the buffer gets the first identifier only.
PostFirstIden(idens) ==
    /\ packetBuffers' = [packetBuffers EXCEPT ![packetBufferNum] = <<Head(idens)>>]
    /\ packetBufferNum' = NextPacketBuffer(packetBufferNum)
    /\ Send(UartNewData(packetBufferNum, <<Head(idens)>>))

\* The parser takes a packet buffer, whether or not its event then finds room.
PostIdens(idens) ==
    /\ packetBuffers' = [packetBuffers EXCEPT ![packetBufferNum] = idens]
    /\ packetBufferNum' = NextPacketBuffer(packetBufferNum)
    /\ Send(UartNewData(packetBufferNum, idens))

\* MIVE_EVENT_RMT_NEW_VAN_FRAME: psa_parse_van_packet, then vTaskDelay.
HandleVanFrame ==
    /\ Handle("RMT_NEW_VAN_FRAME")
    /\ LET frame == event.ev_data
           idens == Idens(frame)
           changed == {idens[i] : i \in 1 .. Len(idens)}
       IN  /\ data' = ParsedData(frame, data)
           /\ \/ /\ idens # <<>>
                 /\ PostIdens(idens)
              \/ /\ idens = <<>>
                 /\ IF ButtonEvent(frame) # NoButton THEN Send(Event(ButtonEvent(frame)))
                                                     ELSE UNCHANGED mainQueue
                 /\ UNCHANGED <<packetBuffers, packetBufferNum>>
           /\ uart' = IF IsFull(mainQueue, MainQueueLen)
                        THEN Missed(Written(uart, changed), changed)
                        ELSE Written(uart, changed)
    /\ pc' = "delay"
    /\ UNCHANGED <<carState, extPower, extReg, menuVars, ticks, tssVars, sleepVars, lost>>

\* Ten milliseconds later.
DelayOver ==
    /\ pc = "delay"
    /\ Finish(data, {}, <<>>)
    /\ UNCHANGED <<queueVars, event, menuVars, ticks, tssVars, sleepVars, lost>>

\* A mutant: the loop over the identifiers ends after the first.
HandleNewDataOnce ==
    /\ Handle("UART_NEW_DATA")
    /\ Finish(data, {}, <<Head(packetBuffers[event.ev_data.buffer])>>)
    /\ UNCHANGED <<queueVars, menuVars, ticks, tssVars, sleepVars, lost>>

\* MIVE_EVENT_UART_NEW_DATA: the packets the buffer names now.
HandleNewData ==
    /\ Handle("UART_NEW_DATA")
    /\ Finish(data, {}, packetBuffers[event.ev_data.buffer])
    /\ UNCHANGED <<queueVars, menuVars, ticks, tssVars, sleepVars, lost>>

\* MIVE_EVENT_TIMER_1S: the next CD changer packet is written into *tss_packet, and
\* a pointer to it sent.  If the queue is full, main_task waits for room.
Handle1S ==
    /\ Handle("TIMER_1S")
    /\ cdcHeader' = IF cdcHeader >= HeaderMax THEN 0 ELSE cdcHeader + 1
    /\ \/ /\ ~IsFull(tssQueue, TssQueueLen)
          /\ tssQueue' = Append(tssQueue, CdChanger)
          /\ Finish(data, {}, <<>>)
       \/ /\ IsFull(tssQueue, TssQueueLen)
          /\ pc' = "tssWait"
          /\ UNCHANGED <<tssQueue, carVars>>
    /\ UNCHANGED <<queueVars, menuVars, ticks, tripReset, sleepVars, lost>>

\* There is room before the 100 milliseconds are over, or there is not.
TssWaitOver ==
    /\ pc = "tssWait"
    /\ tssQueue' = SendToBack(tssQueue, CdChanger, TssQueueLen)
    /\ Finish(data, {}, <<>>)
    /\ UNCHANGED <<queueVars, event, menuVars, ticks, cdcHeader, tripReset, sleepVars, lost>>

\* A mutant: the timer is not started again once there is no power.
Handle1MSOnce ==
    /\ Handle("TIMER_1MS")
    /\ oneshot' = battery
    /\ mainQueue' = IF battery THEN mainQueue
                               ELSE SendToFront(mainQueue, Event("GLOBAL_SLEEP"), MainQueueLen)
    /\ Finish(data, {PSA_IDENT_CAR_STATUS}, <<PSA_IDENT_CAR_STATUS>>)
    /\ UNCHANGED <<packetBuffers, packetBufferNum, menuVars, ticks, tssVars, battery, rtc, lost>>

\* MIVE_EVENT_TIMER_1MS: measure the battery, report it, start the timer again, and
\* go to sleep, ahead of everything else, when there is no power.
Handle1MS ==
    /\ Handle("TIMER_1MS")
    /\ oneshot' = TRUE
    /\ mainQueue' = IF battery THEN mainQueue
                               ELSE SendToFront(mainQueue, Event("GLOBAL_SLEEP"), MainQueueLen)
    /\ Finish(data, {PSA_IDENT_CAR_STATUS}, <<PSA_IDENT_CAR_STATUS>>)
    /\ UNCHANGED <<packetBuffers, packetBufferNum, menuVars, ticks, tssVars, battery, rtc, lost>>

\* A mutant: the packet is updated before the setting is.
ShowMenuBefore(open, setting) ==
    Finish([data EXCEPT !.settings_menu_open = open,
                        !.settings_changing = Changing(audioMenuSetting)],
           {PSA_IDENT_HEADUNIT}, <<PSA_IDENT_HEADUNIT>>)

\* libpsa_update_audio_settings_packet and the HEADUNIT packet.
ShowMenu(open, setting) ==
    Finish([data EXCEPT !.settings_menu_open = open, !.settings_changing = Changing(setting)],
           {PSA_IDENT_HEADUNIT}, <<PSA_IDENT_HEADUNIT>>)

\* A closed menu starts the timer if it is not running; the restart that follows has
\* no effect unless it is.  (The mutant only restarts.)
OnlyRestarted == menuTimer
Started == menuTimer \/ audioMenuOpen = 0

\* MIVE_EVENT_VAN_NEXT_AUDIO_MENU_ITEM.
HandleNextItem ==
    /\ Handle("VAN_NEXT_AUDIO_MENU_ITEM")
    /\ \/ /\ audioMenuSetting >= 6
          /\ audioMenuOpen' = 0
          /\ audioMenuSetting' = 0
          /\ menuTimer' = FALSE
       \/ /\ audioMenuSetting < 6
          /\ audioMenuOpen' = 1
          /\ audioMenuSetting' = audioMenuSetting + 1
          /\ menuTimer' = Started
    /\ lost' = IF audioMenuOpen' = 0 THEN lost \ {"VAN_CLOSE_AUDIO_MENU"} ELSE lost
    /\ ShowMenu(audioMenuOpen', audioMenuSetting')
    /\ UNCHANGED <<queueVars, ticks, tssVars, sleepVars>>

\* MIVE_EVENT_VAN_UPDATE_AUDIO_MENU: the restart of the timer has no effect unless
\* it is running.
HandleUpdateMenu ==
    /\ Handle("VAN_UPDATE_AUDIO_MENU")
    /\ IF audioMenuOpen = 1 THEN ShowMenu(audioMenuOpen, audioMenuSetting)
                            ELSE Finish(data, {}, <<>>)
    /\ UNCHANGED <<queueVars, menuVars, ticks, tssVars, sleepVars, lost>>

\* MIVE_EVENT_VAN_CLOSE_AUDIO_MENU.
HandleCloseMenu ==
    /\ Handle("VAN_CLOSE_AUDIO_MENU")
    /\ audioMenuOpen' = 0
    /\ audioMenuSetting' = 0
    /\ lost' = lost \ {"VAN_CLOSE_AUDIO_MENU"}
    /\ ShowMenu(0, 0)
    /\ UNCHANGED <<queueVars, menuTimer, ticks, tssVars, sleepVars>>

\* MIVE_EVENT_UART_RECEIVE: a packet the computer asks for, or a trip meter it resets.
IsPacketRequest(request) ==
    request.iden >= PSA_MSP_MIN_IDENT /\ request.iden < PSA_IDENT_SET_CD_CHANGER_DATA
IsTripReset(request) ==
    request.iden = PSA_IDENT_SET_TRIP_RESET /\ request.trip_meter \in {"A", "B"}

HandleUartReceive ==
    /\ Handle("UART_RECEIVE")
    /\ LET request == event.ev_data
       IN  /\ Finish(data, {}, IF IsPacketRequest(request) THEN <<request.iden>> ELSE <<>>)
           /\ IF IsTripReset(request)
                THEN /\ tripReset' = request.trip_meter
                     /\ tssQueue' = SendToBack(tssQueue,
                                               TssWrite("tss_trip_packet", request.trip_meter),
                                               TssQueueLen)
                ELSE UNCHANGED <<tripReset, tssQueue>>
    /\ UNCHANGED <<queueVars, menuVars, ticks, cdcHeader, sleepVars, lost>>

\* MIVE_EVENT_GLOBAL_SLEEP: the presets go to the RTC memory.  Deep sleep loses
\* everything else, and there is no return from it but a boot.
HandleSleep ==
    /\ Handle("GLOBAL_SLEEP")
    /\ Restart("asleep", [valid |-> TRUE, presets |-> data.presets])
    /\ UNCHANGED battery

MainTask ==
    \/ Dequeue \/ ReceiveTimesOut
    \/ HandleVanFrame \/ DelayOver \/ HandleNewData
    \/ Handle1S \/ TssWaitOver \/ Handle1MS
    \/ HandleNextItem \/ HandleUpdateMenu \/ HandleCloseMenu
    \/ HandleUartReceive
    \/ HandleSleep

Environment ==
    \/ \E frame \in Frames : VanFrame(frame)
    \/ \E request \in Requests : UartRequest(request)
    \/ Timer1S
    \/ TimerOneshot
    \/ TimerAudioTimeout
    \/ UartTakes
    \/ TssTakes
    \/ BatteryChanges
    \/ Wake
    \/ PowerCycle

Next == MainTask \/ Environment

\* main_task has the highest priority on its core, the timers are hardware, and the
\* other tasks run whenever main_task waits.
Fairness ==
    /\ WF_vars(MainTask)
    /\ WF_vars(TimerOneshot)
    /\ WF_vars(TimerAudioTimeout)
    /\ WF_vars(UartTakes)

Spec == Init /\ [][Next]_vars /\ Fairness

----------------------------------------------------------------------------
(* Properties *)

PlainEvents ==
    {Event(name) : name \in {"NONE", "TIMER_1S", "TIMER_1MS", "GLOBAL_SLEEP",
                             "VAN_NEXT_AUDIO_MENU_ITEM", "VAN_UPDATE_AUDIO_MENU",
                             "VAN_CLOSE_AUDIO_MENU"}}

IsEvent(e) ==
    CASE e.event = "RMT_NEW_VAN_FRAME" -> e.ev_data \in Frames
      [] e.event = "UART_RECEIVE" -> e.ev_data \in Requests
      [] e.event = "UART_NEW_DATA" ->
            e.ev_data.buffer \in Buffers /\ e.ev_data.idens \in Seq(KnownIdents)
      [] OTHER -> e \in PlainEvents

\* Every variable has its type.
TypeOK ==
    /\ Len(mainQueue) <= MainQueueLen
    /\ \A i \in 1 .. Len(mainQueue) : IsEvent(mainQueue[i]) /\ mainQueue[i] # NoEvent
    /\ pc \in {"wait", "handle", "delay", "tssWait", "asleep"}
    /\ IsEvent(event)
    /\ pc = "handle" <=> event # NoEvent
    /\ packetBuffers \in [Buffers -> Seq(KnownIdents)]
    /\ packetBufferNum \in Buffers
    /\ DOMAIN data.presets = PresetBands
    /\ \A band \in PresetBands : DOMAIN data.presets[band].name = PresetNums
    /\ carState \in CarStates
    /\ {extPower, extReg} \subseteq 0 .. 1
    /\ audioMenuOpen \in 0 .. 1 /\ audioMenuSetting \in 0 .. 6
    /\ {menuTimer, oneshot, battery, rtc.valid} \subseteq BOOLEAN
    /\ ticks \in 0 .. MaxTicks
    /\ uart.queued \in 0 .. UartQueueLen
    /\ uart.stale \subseteq KnownIdents /\ uart.missed \subseteq Nat
    /\ tssQueue \in Seq([packet : {"tss_packet", "tss_trip_packet"}, asked : {"NONE", "A", "B"}])
    /\ Len(tssQueue) <= TssQueueLen
    /\ cdcHeader \in 0 .. HeaderMax
    /\ tripReset \in {"NONE", "A", "B"}

\* A packet buffer keeps its identifiers from the parser's send until main_task
\* handles the event.  The ring has one buffer per slot of the main queue and
\* nothing to spare: a dropped event still uses up a buffer, but every frame that
\* does so has left a slot before the queued events (van_packet_parser.c:26, 49-56).
Unspoilt(e) == e.event = "UART_NEW_DATA" => packetBuffers[e.ev_data.buffer] = e.ev_data.idens
PacketBuffersIntact ==
    /\ \A i \in 1 .. Len(mainQueue) : Unspoilt(mainQueue[i])
    /\ Unspoilt(event)

\* The packets that the queued events, and the one being handled, will send.
Announced(e) ==
    IF e.event = "UART_NEW_DATA"
      THEN LET idens == packetBuffers[e.ev_data.buffer] IN {idens[i] : i \in 1 .. Len(idens)}
      ELSE {}
Pending == (UNION {Announced(mainQueue[i]) : i \in 1 .. Len(mainQueue)}) \union Announced(event)

\* Whatever is written into the data buffers is sent afterwards, not only before:
\* data the computer has not seen is announced by an event behind it in the queue,
\* or its packet found no room.  A CD changer command waits for such a packet.
UpdatesAreSent ==
    /\ uart.stale \subseteq Pending \union uart.missed
    /\ data.cd_changer_command # "NONE" => PSA_IDENT_CAR_STATUS \in uart.stale

\* And it does get to the UART queue.
UpdatesArrive ==
    \A ident \in Tracked :
        ident \in uart.stale ~> ident \notin uart.stale \/ ident \in uart.missed

Waiting(name) ==
    event.event = name \/ \E i \in 1 .. Len(mainQueue) : mainQueue[i].event = name

\* An open audio menu always has something that will close it: the timer, or the
\* timer's event, unless that event was lost (main.c:89-102, 606-642).
MenuWillClose ==
    audioMenuOpen = 1 =>
        menuTimer \/ Waiting("VAN_CLOSE_AUDIO_MENU") \/ "VAN_CLOSE_AUDIO_MENU" \in lost

\* What the computer is to show is what main_task thinks: the menu is open exactly
\* at one of the six settings, and that setting is marked.
MenuShown ==
    /\ audioMenuOpen = 1 <=> audioMenuSetting \in 1 .. 6
    /\ data.settings_menu_open = audioMenuOpen
    /\ data.settings_changing = Changing(audioMenuSetting)

\* When the buttons are left alone, the menu closes.
MenuCloses ==
    <>[][~HandleNextItem /\ ~HandleUpdateMenu]_vars =>
        (audioMenuOpen = 1 ~> audioMenuOpen = 0 \/ "VAN_CLOSE_AUDIO_MENU" \in lost)

\* The chain of battery measurements has one link at any time: the timer runs, or
\* its event waits, or the chain has been broken for good by a full queue.
MeasurementGoesOn ==
    Awake =>
        LET links == <<oneshot, event.event = "TIMER_1MS", "TIMER_1MS" \in lost>>
            queued == {i \in 1 .. Len(mainQueue) : mainQueue[i].event = "TIMER_1MS"}
        IN  Cardinality({i \in DOMAIN links : links[i]}) + Cardinality(queued) = 1

\* main_task has taken the event to measure the battery, and not yet handled it.
Measuring == pc = "handle" /\ event.event = "TIMER_1MS"

\* There is no more power on VAN+, the bus has gone silent, and nothing resets the
\* ESP32.  The computer and the one-second tick go on, but from some time on neither
\* fills the slot that an event of the timer has just left: they could do so again and
\* again, each time with the sleep event about to be sent to the front (main.c:602).
CarAtRest ==
    /\ <>[]~battery
    /\ <>[][\A frame \in Frames : ~VanFrame(frame)]_vars
    /\ <>[][~PowerCycle]_vars
    /\ <>[][Measuring => ~Timer1S /\ \A request \in Requests : ~UartRequest(request)]_vars

\* The ESP32 of a car at rest goes to sleep, however often the sleep event itself
\* found the queue full, unless the chain of measurements was broken before.
SleepsUnlessLost == CarAtRest => <>(~Awake \/ "TIMER_1MS" \in lost)

\* "Automobil u stanju mirovanja & Iskljuceno (bez napajanja) & Stanje spavanja"
\* (3-implementation.tex:369): the car at rest, no power, the ESP32 asleep.
WithoutPowerSleeps == CarAtRest => <>~Awake

\* "PSA_IDENT_SET_TRIP_RESET = 0x4502,      // Send trip reset request"
\* (psa_packet_defs.h:25): the reset that waits for tss_task is the one the computer
\* asked for.  Both meters' requests share one packet (main.c:663-673).
ResetsAsAsked ==
    \A i \in 1 .. Len(tssQueue) :
        tssQueue[i].packet = "tss_trip_packet" => tripReset = tssQueue[i].asked

\* A preset of the radio stays until the radio stores another station in its place:
\* sleeping and waking up does not lose it.  Only another kind of reset does.
StoresPreset(band, n) ==
    /\ event.event = "RMT_NEW_VAN_FRAME"
    /\ event.ev_data.iden = PSA_VAN_IDEN_HEAD_UNIT
    /\ event.ev_data.value.band = band /\ event.ev_data.value.preset = n
PresetsKept ==
    [][\A band \in PresetBands, n \in PresetNums :
            data'.presets[band].name[n] # data.presets[band].name[n] =>
                StoresPreset(band, n) \/ PowerCycle]_vars
=============================================================================
