------------------------------ MODULE MCTssTask ------------------------------
(* TssTask with a few changes of each packet, one deep sleep, and two       *)
(* accesses to the chip that are not answered.                             *)
EXTENDS TssTask

MCMaxChanges == [cdc |-> 2, trip |-> 2]
==============================================================================
