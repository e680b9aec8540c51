----------------------------- MODULE MCMainTask -----------------------------
(* MainTask on queues of one or two events, with the frames and requests    *)
(* that each run is about.                                                  *)
EXTENDS MainTask

Frame(iden, size, value) == [iden |-> iden, size |-> size, value |-> value]

Dash(engine, acc, ign) ==
    Frame(PSA_VAN_IDEN_ENGINE, 7,
          [engine_running |-> engine, accesories_on |-> acc, ignition_on |-> ign])
AudioSettings(on) == Frame(PSA_VAN_IDEN_AUDIO_SETTINGS, 11, [power_on |-> on])
CarStatus2(locked) == Frame(PSA_VAN_IDEN_CAR_STATUS2, 14, [doors_locked |-> locked])
CdcCommand(command) == Frame(PSA_VAN_IDEN_CDCHANGER_COMMAND, 2, [command |-> command])
Buttons(what) == Frame(PSA_VAN_IDEN_DEVICE_REPORT, 3, what)
Tuner(about, band, preset, station) ==
    Frame(PSA_VAN_IDEN_HEAD_UNIT, 22,
          [about |-> about, band |-> band, preset |-> preset, station |-> station])

Request(iden, meter) == [iden |-> iden, trip_meter |-> meter]

\* Two packets at once, a CD changer command, which waits for its packet.
DataFrames == {Dash(0, 0, 0), CdcCommand("NEXT_TRACK")}

\* The two buttons.
MenuFrames == {Buttons("audio released"), Buttons("up or down")}

\* Requests of the computer: a packet; the trip meters, and one there is not.
DataRequests == {Request(PSA_IDENT_CAR_STATUS, "NONE")}
TripRequests == {Request(PSA_IDENT_SET_TRIP_RESET, meter) : meter \in {"A", "B", "C"}}

\* What decides the state of the car, and two stations for one preset.
CarFrames ==
    {Dash(1, 1, 1), Dash(0, 0, 1), Dash(0, 0, 0),
     AudioSettings(0), AudioSettings(1), CarStatus2(0), CarStatus2(1),
     Tuner(FREQ_INFO, "FMAST", 2, "Radio Osijek"),
     Tuner(FREQ_INFO, "FMAST", 2, "Radio 101")}

NoRequests == {}
Power == {TRUE}
Nothing == {}
DataTracked == {PSA_IDENT_ENGINE, PSA_IDENT_CAR_STATUS}
NoFrames == {}
=============================================================================
