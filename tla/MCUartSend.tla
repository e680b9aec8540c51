----------------------------- MODULE MCUartSend -----------------------------
(* UartSend with a ring of three buffers, a queue of two events and three   *)
(* kinds of packet: the one that carries commands, one that does not, and   *)
(* one that has no case in libpsa_send_packet.                              *)
EXTENDS UartSend

MCIdents == {PSA_IDENT_CAR_STATUS, PSA_IDENT_ENGINE, PSA_IDENT_VERSIONS}
MCIdentsVersions == {PSA_IDENT_CAR_STATUS, PSA_IDENT_VERSIONS}
=============================================================================
