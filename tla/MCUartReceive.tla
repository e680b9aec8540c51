---------------------------- MODULE MCUartReceive ----------------------------
(* UartReceive with the firmware's CRC-8 and two trip resets, which are      *)
(* packets that differ only in their data.                                   *)
EXTENDS UartReceive, Checksums

TripReset(meter) == [iden |-> 17666, data |-> <<meter>>]

MCKinds == {TripReset(1), TripReset(2)}
MCHeap == {165}

\* The checksum tells these packets, with as many bytes lost as in the run.
ASSUME PacketsAreTold == ChecksumTellsPackets
ASSUME RepeatsAreTold == ChecksumTellsRepeats
==============================================================================
