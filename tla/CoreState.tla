------------------------------ MODULE CoreState ------------------------------
(***************************************************************************)
(* CoreMark's state machine benchmark (core_state.c).  A block of memory   *)
(* holds number-like tokens separated by commas; the machine classifies    *)
(* every token, once on the clean block and once on a corrupted one, and   *)
(* the corruption is undone.  The block is a sequence of bytes, zero       *)
(* terminated inside the block: a scan that meets no zero would run past   *)
(* its end, which Scan reports as a position beyond Len(blk).              *)
(***************************************************************************)
EXTENDS CoreUtil, Bitwise

CORE_START      == 0
CORE_INVALID    == 1
CORE_S1         == 2
CORE_S2         == 3
CORE_INT        == 4
CORE_FLOAT      == 5
CORE_EXPONENT   == 6
CORE_SCIENTIFIC == 7
States          == 0..7

Comma == 44
Plus  == 43
Minus == 45
Dot   == 46
SmallE == 101
BigE   == 69

(* "5012" "1234" "-874" "+122"                                             *)
intpat == << <<53, 48, 49, 50>>, <<49, 50, 51, 52>>,
             <<45, 56, 55, 52>>, <<43, 49, 50, 50>> >>
(* "35.54400" ".1234500" "-110.700" "+0.64400"                             *)
floatpat == << <<51, 53, 46, 53, 52, 52, 48, 48>>,
               <<46, 49, 50, 51, 52, 53, 48, 48>>,
               <<45, 49, 49, 48, 46, 55, 48, 48>>,
               <<43, 48, 46, 54, 52, 52, 48, 48>> >>
(* "5.500e+3" "-.123e-2" "-87e+832" "+0.6e-12"                             *)
scipat == << <<53, 46, 53, 48, 48, 101, 43, 51>>,
             <<45, 46, 49, 50, 51, 101, 45, 50>>,
             <<45, 56, 55, 101, 43, 56, 51, 50>>,
             <<43, 48, 46, 54, 101, 45, 49, 50>> >>
(* "T0.3e-1F" "-T.T++Tq" "1T3.4e4z" "34.0e-T^"                             *)
errpat == << <<84, 48, 46, 51, 101, 45, 49, 70>>,
             <<45, 84, 46, 84, 43, 43, 84, 113>>,
             <<49, 84, 51, 46, 52, 101, 52, 122>>,
             <<51, 52, 46, 48, 101, 45, 84, 94>> >>

(* The token core_init_state chooses for a value of its running seed.      *)
Pattern(seed) ==
    LET kind == seed % 8
        row  == ((seed \div 8) % 4) + 1
    IN  IF kind <= 2 THEN intpat[row]
        ELSE IF kind <= 4 THEN floatpat[row]
        ELSE IF kind <= 6 THEN scipat[row]
        ELSE errpat[row]

(* Whether a token of next bytes and its comma still leave room for zeros. *)
HasRoom_slip(total, next, size) == total + next + 1 <= size

HasRoom(total, next, size) == total + next + 1 < size - 1

(* core_init_state: buf is the token chosen last, written while it still   *)
(* has room; the rest of the block is zero.                                *)
core_init_state(size, seed0) ==
    LET Go(s)    == HasRoom(Len(s.blk), Len(s.buf), size)
        Write(s) == [blk  |-> IF s.buf = <<>> THEN s.blk ELSE s.blk \o s.buf \o <<Comma>>,
                     buf  |-> Pattern(s.seed + 1),
                     seed |-> s.seed + 1]
        full == While(Go, Write, [blk : Seq(Nat), buf : Seq(Nat), seed : Nat],
                      [blk |-> <<>>, buf |-> <<>>, seed |-> seed0]).blk
    IN  full \o [i \in 1..(size - Len(full)) |-> 0]

ee_isdigit(c) == c \in 48..57

(* The switch of core_state_transition: where a symbol leads ...           *)
NextState(st, c) ==
    CASE st = CORE_START ->
             IF ee_isdigit(c) THEN CORE_INT
             ELSE IF c \in {Plus, Minus} THEN CORE_S1
             ELSE IF c = Dot THEN CORE_FLOAT ELSE CORE_INVALID
      [] st = CORE_S1 ->
             IF ee_isdigit(c) THEN CORE_INT
             ELSE IF c = Dot THEN CORE_FLOAT ELSE CORE_INVALID
      [] st = CORE_INT ->
             IF c = Dot THEN CORE_FLOAT
             ELSE IF ee_isdigit(c) THEN CORE_INT ELSE CORE_INVALID
      [] st = CORE_FLOAT ->
             IF c \in {BigE, SmallE} THEN CORE_S2
             ELSE IF ee_isdigit(c) THEN CORE_FLOAT ELSE CORE_INVALID
      [] st = CORE_S2 ->
             IF c \in {Plus, Minus} THEN CORE_EXPONENT ELSE CORE_INVALID
      [] st = CORE_EXPONENT ->
             IF ee_isdigit(c) THEN CORE_SCIENTIFIC ELSE CORE_INVALID
      [] st = CORE_SCIENTIFIC ->
             IF ee_isdigit(c) THEN CORE_SCIENTIFIC ELSE CORE_INVALID

(* ... and which transition counters it increments.                        *)
Counted_slip(st, c) ==
    LET to == NextState(st, c)
    IN  IF st = CORE_START THEN {CORE_START} \cup ({to} \cap {CORE_INVALID})
        ELSE IF to = st THEN {} ELSE {st}

Counted(st, c) ==
    LET to == NextState(st, c)
    IN  CASE st = CORE_START      -> {CORE_START} \cup ({to} \cap {CORE_INVALID})
          [] st = CORE_SCIENTIFIC -> {to} \cap {CORE_INVALID}
          [] OTHER                -> IF to = st THEN {} ELSE {st}

Counts == [States -> Nat]

(* core_state_transition: scan one token from p, adding to the counters n. *)
core_state_transition(blk, p0, n0) ==
    LET Token[p \in Nat, st \in States, n \in Counts] ==
            IF p > Len(blk) \/ st = CORE_INVALID THEN [p |-> p, st |-> st, n |-> n]
            ELSE IF blk[p] = 0 THEN [p |-> p, st |-> st, n |-> n]
            ELSE IF blk[p] = Comma THEN [p |-> p + 1, st |-> st, n |-> n]
            ELSE Token[p + 1, NextState(st, blk[p]),
                       [s \in States |-> IF s \in Counted(st, blk[p]) THEN n[s] + 1 ELSE n[s]]]
    IN  Token[p0, CORE_START, n0]

(* Every token up to the terminating zero: how many ended in each state,   *)
(* and the transitions counted.                                            *)
Scan(blk, final0, track0) ==
    LET Go(s)    == IF s.p > Len(blk) THEN FALSE ELSE blk[s.p] # 0
        Token(s) == LET t == core_state_transition(blk, s.p, s.track)
                    IN  [p |-> t.p, final |-> [s.final EXCEPT ![t.st] = @ + 1], track |-> t.n]
    IN  While(Go, Token, [p : Nat, final : Counts, track : Counts],
              [p |-> 1, final |-> final0, track |-> track0])

(* XOR every step-th byte that is not a comma with the low byte of seed.   *)
Corrupt(blk, seed, step) ==
    [i \in 1..Len(blk) |->
        IF (i - 1) % step = 0 /\ blk[i] # Comma THEN blk[i] ^^ (seed % 256) ELSE blk[i]]

CrcCounts(final, track, crc0) ==
    LET From[s \in 0..8, crc \in 0..65535] ==
            IF s = 8 THEN crc ELSE From[s + 1, crcu32(track[s], crcu32(final[s], crc))]
    IN  From[0, crc0]

(* The second corruption, which undoes the first when the seeds are equal. *)
Undo(blk, seed, step) == Corrupt(blk, seed, step)

(* core_bench_state: the block it leaves behind, its CRC, and the furthest *)
(* position either scan stopped at.                                        *)
core_bench_state(blk, seed1, seed2, step, crc) ==
    LET zero == [s \in States |-> 0]
        one  == Scan(blk, zero, zero)
        bad  == Corrupt(blk, seed1, step)
        two  == Scan(bad, one.final, one.track)
    IN  [blk |-> Undo(bad, seed2, step),
         crc |-> CrcCounts(two.final, two.track, crc),
         end |-> IF one.p > two.p THEN one.p ELSE two.p]
=============================================================================
