--------------------------- MODULE MCRingChannel ---------------------------
(* RingChannel on a ring of four buffers and a queue of two events, with    *)
(* enough sends to come round the ring twice.                               *)
EXTENDS RingChannel
=============================================================================
