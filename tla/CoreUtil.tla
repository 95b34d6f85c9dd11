------------------------------ MODULE CoreUtil ------------------------------
(***************************************************************************)
(* The services CoreMark's three algorithms share (core_util.c): the       *)
(* 16-bit CRC that folds every result into a checksum, and the widths of   *)
(* the integer types of core_portme.h.  Values are kept unsigned; S16      *)
(* gives the signed reading of a 16-bit value.                             *)
(***************************************************************************)
EXTENDS Integers, Sequences

U16(x) == x % 65536

S16(x) == ((x + 32768) % 65536) - 32768

Bit(x, k) == (x \div 2^k) % 2

Flip(x, k) == IF Bit(x, k) = 1 THEN x - 2^k ELSE x + 2^k

(* while (Go(s)) s = Step(s), for states in S and at most 2^10 rounds,     *)
(* which no loop here reaches: Rounds[k, s] is up to 2^k rounds from s.    *)
While(Go(_), Step(_), S, s0) ==
    LET Rounds[k \in Nat, s \in S] ==
            IF ~Go(s) THEN s
            ELSE IF k = 0 THEN Step(s) ELSE Rounds[k - 1, Rounds[k - 1, s]]
    IN  Rounds[10, s0]

(* One round of crcu8: the polynomial enters as 0x4002 before the shift    *)
(* and its top bit as the carry after it.                                  *)
CrcBit(d, crc) ==
    IF (d + crc) % 2 = 1
    THEN 2^15 + (Flip(Flip(crc, 14), 1) \div 2)
    ELSE crc \div 2

(* The loop of crcu8: n more bits of data, the lowest first.               *)
CrcBits[n \in 0..8, data \in 0..255, crc \in 0..65535] ==
    IF n = 0 THEN crc ELSE CrcBits[n - 1, data \div 2, CrcBit(data % 2, crc)]

crcu8(data, crc) == CrcBits[8, data, crc]

crcu16(newval, crc) == crcu8(newval \div 256, crcu8(newval % 256, crc))

crc16(newval, crc) == crcu16(U16(newval), crc)

crcu32(newval, crc) == crc16(newval \div 65536, crc16(U16(newval), crc))
=============================================================================
