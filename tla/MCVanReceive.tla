---------------------------- MODULE MCVanReceive ----------------------------
(* VanReceive with frames of one or two parts: the interrupt comes between   *)
(* the parts, frames differ in length, and one kind fails the CRC.           *)
EXTENDS VanReceive

Kind(parts, valid) == [parts |-> parts, valid |-> valid]

MCKinds == {Kind(1, TRUE), Kind(2, TRUE), Kind(2, FALSE)}
=============================================================================
