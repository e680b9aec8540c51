------------------------------ MODULE Checksums ------------------------------
(***************************************************************************)
(* The two checksums of the firmware, both computed through a table of the *)
(* remainders of all bytes: CRC-8 of the packets on the UART (common.c)    *)
(* and CRC-15 of the frames on the VAN bus (van_rmt_rx.c).  The tables     *)
(* are the firmware's.                                                     *)
(***************************************************************************)
EXTENDS Naturals, Sequences, Bitwise

crc8tab == <<
      0, 213, 127, 170, 254,  43, 129,  84,  41, 252,  86, 131, 215,   2, 168, 125,
     82, 135,  45, 248, 172, 121, 211,   6, 123, 174,   4, 209, 133,  80, 250,  47,
    164, 113, 219,  14,  90, 143,  37, 240, 141,  88, 242,  39, 115, 166,  12, 217,
    246,  35, 137,  92,   8, 221, 119, 162, 223,  10, 160, 117,  33, 244,  94, 139,
    157,  72, 226,  55,  99, 182,  28, 201, 180,  97, 203,  30,  74, 159,  53, 224,
    207,  26, 176, 101,  49, 228,  78, 155, 230,  51, 153,  76,  24, 205, 103, 178,
     57, 236,  70, 147, 199,  18, 184, 109,  16, 197, 111, 186, 238,  59, 145,  68,
    107, 190,  20, 193, 149,  64, 234,  63,  66, 151,  61, 232, 188, 105, 195,  22,
    239,  58, 144,  69,  17, 196, 110, 187, 198,  19, 185, 108,  56, 237,  71, 146,
    189, 104, 194,  23,  67, 150,  60, 233, 148,  65, 235,  62, 106, 191,  21, 192,
     75, 158,  52, 225, 181,  96, 202,  31,  98, 183,  29, 200, 156,  73, 227,  54,
     25, 204, 102, 179, 231,  50, 152,  77,  48, 229,  79, 154, 206,  27, 177, 100,
    114, 167,  13, 216, 140,  89, 243,  38,  91, 142,  36, 241, 165, 112, 218,  15,
     32, 245,  95, 138, 222,  11, 161, 116,   9, 220, 118, 163, 247,  34, 136,  93,
    214,   3, 169, 124,  40, 253,  87, 130, 255,  42, 128,  85,   1, 212, 126, 171,
    132,  81, 251,  46, 122, 175,   5, 208, 173, 120, 210,   7,  83, 134,  44, 249>>

crcTable == <<
        0,  3997,  7994,  4263, 15988, 12777,  8526, 11987, 31976, 29557, 25554, 27727, 17052, 19713, 23974, 21051,
    30285, 31184, 26999, 26346, 18489, 18340, 22275, 22686,  2725,  1336,  5535,  6658, 13521, 15180, 11243,  9334,
    25351, 27802, 31805, 29600, 23923, 21230, 16969, 19924,  8175,  4210,   213,  3912,  8603, 11782, 16033, 12604,
     5450,  6871,  2672,  1517, 11070,  9379, 13316, 15257, 27042, 26175, 30360, 30981, 22486, 22603, 18668, 18289,
    18835, 17934, 22185, 22836, 30695, 30842, 26845, 26432, 13691, 15078, 10817,  9692,  2831,  1170,  5173,  7080,
    16350, 12355,  8420, 12153,   426,  3639,  7824,  4365, 17206, 19627, 23564, 21393, 32066, 29407, 25208, 28133,
    10900,  9481, 13742, 14899,  5344,  7037,  3034,  1095, 22140, 23009, 18758, 18139, 26632, 26517, 30514, 30895,
    23769, 21316, 17379, 19582, 25261, 27952, 32151, 29194,  8241, 12204, 16139, 12438,  7749,  4568,   383,  3810,
     7355,  4902,   897,  3100,  8911, 11602, 15861, 12904, 24659, 28622, 32617, 28916, 24103, 20922, 16669, 20096,
    27382, 25963, 30156, 31313, 21634, 23327, 19384, 17445,  5662,  6531,  2340,  1721, 10346, 10231, 14160, 14541,
    32700, 28705, 24710, 28443, 16840, 20053, 24306, 20847,   852,  3273,  7278,  5107, 15648, 12989,  8730, 11655,
     2545,  1644,  5835,  6486, 14213, 14360, 10431, 10018, 29977, 31364, 27171, 26046, 19309, 17648, 21591, 23498,
    21800, 23221, 18962, 17807, 27484, 25793, 29798, 31739, 10688,  9821, 14074, 14695,  6068,  6185,  2190,  1811,
     9061, 11512, 15455, 13250,  7441,  4748,   555,  3510, 24461, 20496, 16567, 20266, 25081, 28260, 32451, 29022,
    13871, 14770, 10517,  9864,  2139,  1990,  5985,  6396, 19143, 17754, 22013, 23136, 29875, 31534, 27529, 25620,
    16482, 20479, 24408, 20677, 32278, 29067, 24876, 28337, 15498, 13079,  9136, 11309,   766,  3427,  7620,  4697>>

\* Exclusive or of two bytes, by their halves.
XorNibble == [a \in 0 .. 15, b \in 0 .. 15 |-> a ^^ b]
XorByte(a, b) == XorNibble[a \div 16, b \div 16] * 16 + XorNibble[a % 16, b % 16]

\* psa_crc8_checksum: go[i, crc, n] goes on when crc is that of the first i of n bytes.
PsaCrc8(bytes) ==
    LET go[i \in Nat, crc \in 0 .. 255, n \in Nat] ==
            IF i = n THEN crc ELSE go[i + 1, crc8tab[XorByte(crc, bytes[i + 1]) + 1], n]
    IN  go[0, 0, Len(bytes)]

\* The loop of van_rmt_rx_crc15 on a register of 16 bits: what the shift leaves in bit
\* 15 is not masked; it is cut off when crc15 >> 7 becomes a byte.
RECURSIVE Crc15From(_, _)
Crc15From(crc15, data) ==
    IF data = <<>> THEN crc15
    ELSE LET pos == ((crc15 \div 128) % 256) ^^ Head(data)
         IN  Crc15From(((crc15 * 256) % 65536) ^^ crcTable[pos + 1], Tail(data))

\* The last shift makes 16 bits of 15, and cuts off bit 15 once more.
VanCrc15(data) == ((Crc15From(32767, data) ^^ 32767) * 2) % 65536

----------------------------------------------------------------------------
(* Reference: division of polynomials over GF(2), bit by bit. *)

\* The bits of the bytes, the most significant first.
Bits(bytes) ==
    [k \in 1 .. 8 * Len(bytes) |->
        (bytes[((k - 1) \div 8) + 1] \div 2 ^ (7 - ((k - 1) % 8))) % 2]

\* The remainder of the bits and `width' zeros behind them, when `register' is added
\* to their first ones and the polynomial is x^width + polynom.
RECURSIVE Remainder(_, _, _, _)
Remainder(register, bits, width, polynom) ==
    IF bits = <<>> THEN register
    ELSE LET shifted == (register * 2) % (2 ^ width)
             carry == ((register \div 2 ^ (width - 1)) + Head(bits)) % 2
         IN  Remainder(IF carry = 1 THEN shifted ^^ polynom ELSE shifted, Tail(bits), width, polynom)
==============================================================================
