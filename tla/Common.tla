------------------------------- MODULE Common -------------------------------
(***************************************************************************)
(* The arithmetic of common.c on unsigned bytes.                           *)
(***************************************************************************)
EXTENDS Naturals

Bytes == 0 .. 255

\* Mutants: half of the multiple is rounded up; a digit of ten is taken for a digit.
RoundToNearestHalfUp(numToRound, multiple) ==
    IF multiple = 0 THEN numToRound
    ELSE LET remainder == numToRound % multiple
         IN  IF remainder >= multiple \div 2
             THEN (numToRound + multiple - remainder) % 256
             ELSE numToRound - remainder
BcdToDecUnchecked(value) == (value \div 16) * 10 + (value % 16)

\* round_to_nearest: half a multiple is rounded down.  The result is a byte again.
RoundToNearest(numToRound, multiple) ==
    IF multiple = 0 THEN numToRound
    ELSE LET remainder == numToRound % multiple
         IN  IF remainder > multiple \div 2
             THEN (numToRound + multiple - remainder) % 256
             ELSE numToRound - remainder

\* get_iden_from_bytes: 12 bits, the low nibble of the second byte is not of them.
GetIdenFromBytes(byte1, byte2) == byte1 * 16 + byte2 \div 16

\* dec_to_bcd: 255 is "no value" and stays; what has three digits becomes 99.
DecToBcd(input) ==
    IF input = 255 THEN 255
    ELSE IF input > 99 THEN 16 * 9 + 9
    ELSE (input \div 10) * 16 + (input % 10)

\* bcd_to_dec: what is not two decimal digits stays as it is.
BcdToDec(value) ==
    LET ms_nibble == value \div 16
        ls_nibble == value % 16
    IN  IF ms_nibble >= 10 \/ ls_nibble >= 10 THEN value ELSE ms_nibble * 10 + ls_nibble
=============================================================================
