-------------------------- MODULE VanPacketParser --------------------------
(***************************************************************************)
(* psa_parse_van_packet (van_packet_parser.c): what a VAN frame does to    *)
(* the data buffers, and what main_task is to do about it afterwards.      *)
(*                                                                         *)
(* A frame is [iden, size, value].  Of the value only what decides         *)
(* something is kept: the state of the car, the CD changer command, the    *)
(* stalk's buttons and the radio's presets.                                *)
(***************************************************************************)
EXTENDS Integers, Sequences, PsaPacketDefs

PSA_VAN_IDEN_VIN == 3620                \* 0xE24
PSA_VAN_IDEN_ENGINE == 2212             \* 0x8A4
PSA_VAN_IDEN_LIGHTS_STATUS == 1276      \* 0x4FC
PSA_VAN_IDEN_DEVICE_REPORT == 2244      \* 0x8C4
PSA_VAN_IDEN_CAR_STATUS1 == 1380        \* 0x564
PSA_VAN_IDEN_CAR_STATUS2 == 1316        \* 0x524
PSA_VAN_IDEN_RPM == 2084                \* 0x824
PSA_VAN_IDEN_HEAD_UNIT == 1364          \* 0x554
PSA_VAN_IDEN_AUDIO_SETTINGS == 1236     \* 0x4D4
PSA_VAN_IDEN_CDCHANGER_COMMAND == 2284  \* 0x8EC

\* The second byte of a head unit frame says what it is about.
FREQ_INFO == 209                        \* 0xD1
CD_INFO == 214                          \* 0xD6

\* Which packets a frame changes.  ANY: there is no second byte to look at.
ANY == -1
Rule(iden, size, about, idens) == [iden |-> iden, size |-> size, about |-> about, idens |-> idens]
RpmRule == Rule(PSA_VAN_IDEN_RPM, 7, ANY, <<PSA_IDENT_ENGINE>>)
TripRule == Rule(PSA_VAN_IDEN_CAR_STATUS1, 27, ANY, <<PSA_IDENT_DOORS, PSA_IDENT_TRIP>>)
DashRule == Rule(PSA_VAN_IDEN_ENGINE, 7, ANY, <<PSA_IDENT_DASHBOARD, PSA_IDENT_ENGINE>>)
VinRule == Rule(PSA_VAN_IDEN_VIN, 17, ANY, <<PSA_IDENT_VIN>>)
TunerRule ==
    Rule(PSA_VAN_IDEN_HEAD_UNIT, 22, FREQ_INFO, <<PSA_IDENT_RADIO, PSA_IDENT_RADIO_PRESETS>>)
CdShortRule == Rule(PSA_VAN_IDEN_HEAD_UNIT, 10, CD_INFO, <<PSA_IDENT_CD_PLAYER>>)
CdLongRule == Rule(PSA_VAN_IDEN_HEAD_UNIT, 19, CD_INFO, <<PSA_IDENT_CD_PLAYER>>)
HeadunitRule == Rule(PSA_VAN_IDEN_AUDIO_SETTINGS, 11, ANY, <<PSA_IDENT_HEADUNIT>>)
InstrumentsShortRule == Rule(PSA_VAN_IDEN_LIGHTS_STATUS, 11, ANY, <<PSA_IDENT_ENGINE>>)
InstrumentsLongRule == Rule(PSA_VAN_IDEN_LIGHTS_STATUS, 14, ANY, <<PSA_IDENT_ENGINE>>)
CarStatus2ShortRule == Rule(PSA_VAN_IDEN_CAR_STATUS2, 14, ANY, <<PSA_IDENT_CAR_STATUS>>)
CarStatus2LongRule == Rule(PSA_VAN_IDEN_CAR_STATUS2, 16, ANY, <<PSA_IDENT_CAR_STATUS>>)
CdcCommandRule == Rule(PSA_VAN_IDEN_CDCHANGER_COMMAND, 2, ANY, <<PSA_IDENT_CAR_STATUS>>)

Rules ==
    {RpmRule, TripRule, DashRule, VinRule, TunerRule, CdShortRule, CdLongRule, HeadunitRule,
     InstrumentsShortRule, InstrumentsLongRule, CarStatus2ShortRule, CarStatus2LongRule,
     CdcCommandRule}

Applies(rule, frame) ==
    /\ rule.iden = frame.iden
    /\ rule.size = frame.size
    /\ rule.about # ANY => frame.value.about = rule.about

\* The packets the frame changes; none if its iden, size or second byte is unknown.
Idens(frame) ==
    IF \E rule \in Rules : Applies(rule, frame)
      THEN (CHOOSE rule \in Rules : Applies(rule, frame)).idens
      ELSE <<>>

\* psa_parse_buttons_iden.  The three bytes are abstracted to what they are
\* checked for: 0x?2 in the second, and up, down or audio released in the third.
NoButton == "NONE"
ButtonEvent(frame) ==
    IF frame.iden # PSA_VAN_IDEN_DEVICE_REPORT \/ frame.size # 3
      THEN NoButton
      ELSE CASE frame.value = "up or down" -> "VAN_UPDATE_AUDIO_MENU"
             [] frame.value = "audio released" -> "VAN_NEXT_AUDIO_MENU_ITEM"
             [] OTHER -> NoButton

----------------------------------------------------------------------------
(* The radio's presets *)

PresetNums == 1 .. 6
NoStation == "no station"

\* psa_preset_data: six names, and the number stored with the first of them
\* (the numbers stored with the others are never written).
NoPresets == [name |-> [n \in PresetNums |-> NoStation], preset_num |-> 0]

\* The bands whose presets are kept.  The radio has three more: FM3, PTY, none.
PresetBands == {"AM", "FM_1", "FM_2", "FMAST"}

\* The tuner's station becomes preset number `preset' of its band.  The number
\* goes to the first entry (van_packet_parser.c:320), the name to its own.
StorePreset(presets, tuner) ==
    IF tuner.band \in PresetBands /\ tuner.preset \in PresetNums
      THEN [presets EXCEPT ![tuner.band].name[tuner.preset] = tuner.station,
                           ![tuner.band].preset_num = tuner.preset]
      ELSE presets

----------------------------------------------------------------------------
(* The data buffers *)

\* psa_parse_cdc_command: the commands the computer is told about.
CdChangerCommand(command) ==
    IF command \in {"PLAY", "PAUSE", "NEXT_TRACK", "PREV_TRACK"} THEN command ELSE "NONE"

ParsedDash(value, data) ==
    [data EXCEPT !.engine_running = value.engine_running,
                 !.accesories_on = value.accesories_on,
                 !.ignition_on = value.ignition_on]
ParsedTuner(value, data) == [data EXCEPT !.presets = StorePreset(@, value)]
ParsedHeadunit(value, data) == [data EXCEPT !.unit_powered_on = value.power_on]
ParsedCarStatus2(value, data) == [data EXCEPT !.doors_locked = value.doors_locked]
ParsedCdcCommand(value, data) ==
    [data EXCEPT !.cd_changer_command = CdChangerCommand(value.command)]

\* What psa_parse_van_packet makes of the data buffers.
ParsedData(frame, data) ==
    LET value == frame.value
    IN  IF Idens(frame) = <<>> THEN data ELSE
        CASE frame.iden = PSA_VAN_IDEN_ENGINE -> ParsedDash(value, data)
          [] frame.iden = PSA_VAN_IDEN_HEAD_UNIT /\ frame.size = 22 -> ParsedTuner(value, data)
          [] frame.iden = PSA_VAN_IDEN_AUDIO_SETTINGS -> ParsedHeadunit(value, data)
          [] frame.iden = PSA_VAN_IDEN_CAR_STATUS2 -> ParsedCarStatus2(value, data)
          [] frame.iden = PSA_VAN_IDEN_CDCHANGER_COMMAND -> ParsedCdcCommand(value, data)
          [] OTHER -> data
============================================================================
