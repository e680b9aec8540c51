--------------------------- MODULE PsaPacketDefs ---------------------------
(* The identifiers and limits of the protocol with the infotainment         *)
(* computer (include/mive/psa_packet_defs.h).                               *)
EXTENDS Naturals

PSA_IDENT_VERSIONS == 16384             \* 0x4000
PSA_IDENT_VIN == 16385
PSA_IDENT_ENGINE == 16386
PSA_IDENT_RADIO == 16387
PSA_IDENT_RADIO_PRESETS == 16388
PSA_IDENT_DOORS == 16389
PSA_IDENT_DASHBOARD == 16390
PSA_IDENT_TRIP == 16391
PSA_IDENT_HEADUNIT == 16392
PSA_IDENT_CAR_STATUS == 16393
PSA_IDENT_CD_PLAYER == 16400            \* 0x4010
PSA_IDENT_SET_CD_CHANGER_DATA == 17665  \* 0x4501
PSA_IDENT_SET_TRIP_RESET == 17666       \* 0x4502

PSA_MSP_MIN_IDENT == PSA_IDENT_VERSIONS
PSA_MSP_MAX_SIZE == 100

\* The packets libpsa_send_packet can build: identifier and payload size.
DataSizes ==
    {<<PSA_IDENT_ENGINE, 9>>, <<PSA_IDENT_RADIO, 14>>, <<PSA_IDENT_VIN, 17>>,
     <<PSA_IDENT_RADIO_PRESETS, 66>>, <<PSA_IDENT_CAR_STATUS, 18>>,
     <<PSA_IDENT_HEADUNIT, 14>>, <<PSA_IDENT_CD_PLAYER, 7>>,
     <<PSA_IDENT_DASHBOARD, 8>>, <<PSA_IDENT_TRIP, 15>>, <<PSA_IDENT_DOORS, 2>>}

KnownIdents == {entry[1] : entry \in DataSizes}

\* What the packet for an identifier holds: an identifier without a case gives
\* a packet with identifier 0 and no data.
PacketIden(ident) == IF ident \in KnownIdents THEN ident ELSE 0
PacketSize(iden) ==
    IF iden \in KnownIdents THEN (CHOOSE entry \in DataSizes : entry[1] = iden)[2] ELSE 0

\* A mutant of the check: the limit is that of the header.
WritableShort(iden) == iden > PSA_MSP_MIN_IDENT /\ PacketSize(iden) < 18

\* uart_task writes a packet only within these limits (uart_task.c:110).
Writable(iden) == iden > PSA_MSP_MIN_IDENT /\ PacketSize(iden) < PSA_MSP_MAX_SIZE
============================================================================
