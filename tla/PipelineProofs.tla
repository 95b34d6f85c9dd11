--------------------------- MODULE PipelineProofs ---------------------------
(***************************************************************************)
(* The pipeline of cpu.v implements the sequential machine Isa, whatever   *)
(* the word width (from 5 bits), the program, the memory image, the guesses *)
(* of the predictors and the interrupts: first the inductive invariant,    *)
(* then the arithmetic of the restoring divider, then that every clock edge *)
(* keeps the invariant, and last that every edge is one step of Isa or none. *)
(***************************************************************************)
EXTENDS Pipeline, TLAPS

(***************************************************************************)
(* The invariant of the pipeline.                                          *)
(***************************************************************************)

\* What the four pipeline registers hold.
Fetched == [valid : BOOLEAN, pc : Word, inst : Inst, predicted_taken : BOOLEAN,
            predicted_target : Word]
Decoded == [valid : BOOLEAN, pc : Word, inst : Inst, predicted_taken : BOOLEAN,
            predicted_target : Word, rs1 : Word, rs2 : Word]
Executed == [valid : BOOLEAN, inst : Inst, pc : Word, alu : Word, rs2 : Word, rd : Regs,
             reg_wen : BOOLEAN, mem_rw : BOOLEAN, wb_sel : {"alu", "mem", "link"},
             atomic : {"lr", "sc", "amo", "none"}, size : {1, 2}]
Finished == [valid : BOOLEAN, alu : Word, data : Word, pc : Word, rd : Regs,
             reg_wen : BOOLEAN, wb_sel : {"alu", "mem", "link"}, size : {1, 2}]
Divider == [busy : BOOLEAN, done : BOOLEAN, count : 0 .. W - 1, hi : Int, lo : Int,
            divisor : Int, neg_q : BOOLEAN, neg_r : BOOLEAN, quotient : Word, remainder : Word]

StageTypes ==
  /\ prog \in Programs /\ pc \in Word
  /\ if_id \in Fetched /\ id_ex \in Decoded /\ ex_mem \in Executed /\ mem_wb \in Finished
StateTypes ==
  /\ x \in [Regs -> Word] /\ x[0] = 0
  /\ mem \in [Aligned -> Word] /\ csr \in [Csrs -> Word]
  /\ lock_valid \in BOOLEAN /\ reserved_addr \in Word
DivTypes == div \in Divider /\ div_result_ready \in BOOLEAN

\* Where the fetch went after s, and what a guess of its target is.
Follow(s) == IF s.predicted_taken THEN s.predicted_target ELSE Wrap(s.pc + s.inst.size)
Guessed(s) ==
  s.predicted_taken =>
    \/ s.inst.op \in {"beq", "jal"} /\ s.predicted_target = Wrap(s.pc + s.inst.imm)
    \/ s.inst.op = "jalr"

\* The stages before EX hold consecutive instructions of the guessed path; an
\* empty one is clear.
FetchInv ==
  IF if_id.valid
  THEN if_id.inst = Fetch(prog, if_id.pc) /\ Guessed(if_id) /\ pc = Follow(if_id)
  ELSE if_id = IfIdClear
DecodeInv ==
  IF id_ex.valid
  THEN /\ id_ex.inst = Fetch(prog, id_ex.pc) /\ Guessed(id_ex)
       /\ if_id.valid /\ if_id.pc = Follow(id_ex)
  ELSE id_ex = IdExClear

\* A value read in ID is the register's unless WB is about to write it, and
\* nobody in EX waits for a load that is in MEM.
Latched(r, v) == v = x[r] \/ (mem_wb.reg_wen /\ mem_wb.rd = r /\ r # 0)
Awaited(r) == ex_mem.reg_wen /\ ex_mem.wb_sel = "mem" /\ ex_mem.rd = r /\ r # 0
OperandInv ==
  /\ Latched(id_ex.inst.rs1, id_ex.rs1) /\ Latched(id_ex.inst.rs2, id_ex.rs2)
  /\ rs1_used(id_ex.inst) => ~Awaited(id_ex.inst.rs1)
  /\ rs2_used(id_ex.inst) => ~Awaited(id_ex.inst.rs2)

\* The control bits in MEM belong together, and an access is aligned.
ExecuteInv ==
  /\ ex_mem.atomic = "sc" => ex_mem.wb_sel = "alu"
  /\ ex_mem.atomic \in {"lr", "amo"} => ex_mem.reg_wen /\ ex_mem.wb_sel = "mem"
  /\ \/ ex_mem.reg_wen /\ ex_mem.wb_sel = "mem"
     \/ ex_mem.mem_rw
     => ex_mem.alu \in Aligned

\* The loop invariant of the divider after c iterations: of the dividend A, r is
\* still to come in, and q is the quotient of what has.
DivLoop(A, D, c, hi, lo) ==
  \E q \in 0 .. 2 ^ c - 1, r \in 0 .. 2 ^ (W - c) - 1 :
    lo = r * 2 ^ c + q /\ A = (hi + D * q) * 2 ^ (W - c) + r

DivBusy ==
  div.busy =>
    /\ alu_b # 0 /\ div.divisor = b_abs /\ div.hi \in 0 .. b_abs - 1
    /\ DivLoop(a_abs, b_abs, div.count, div.hi, div.lo)
    /\ 2 ^ div.count * 2 ^ (W - div.count) = 2 ^ W
    /\ div.neg_q = (is_signed /\ Bit(alu_a, W - 1) # Bit(alu_b, W - 1))
    /\ div.neg_r = (is_signed /\ Bit(alu_a, W - 1))
DivDone ==
  div.done \/ div_result_ready => ex_result = DivResult(id_ex.inst.op, alu_a, alu_b)
DivPhase ==
  /\ div.busy \/ div.done \/ div_result_ready => is_div_op(id_ex.inst)
  /\ ~(div.busy /\ div.done) /\ ~(div.busy /\ div_result_ready)
  /\ ~(div.done /\ div_result_ready)

Inv == /\ StageTypes /\ StateTypes /\ DivTypes
       /\ FetchInv /\ DecodeInv /\ OperandInv /\ ExecuteInv
       /\ DivPhase /\ DivBusy /\ DivDone

(***************************************************************************)
(* Words and the restoring divider.                                        *)
(***************************************************************************)

\* The number of words, and the sign bit's weight.
LEMMA WordSize ==
  /\ 2 ^ W \in Nat \ {0} /\ 2 ^ (W - 1) \in Nat /\ 2 ^ W = 2 * 2 ^ (W - 1) /\ 2 ^ (W - 1) >= 16
  /\ W - 1 \in Nat /\ W \in Nat
  BY WAssumption, BinaryAssumption, SMTT(30)

\* Quotient and remainder are unique.
LEMMA DivMod ==
  ASSUME NEW a \in Nat, NEW d \in Nat \ {0}, NEW q \in Nat, NEW r \in 0 .. d - 1, a = d * q + r
  PROVE  a \div d = q /\ a % d = r
  OBVIOUS

\* What % and \div are on integers.
LEMMA DivRange ==
  ASSUME NEW a \in Int, NEW d \in Nat \ {0}
  PROVE  a % d \in 0 .. d - 1 /\ a \div d \in Int /\ a = d * (a \div d) + (a % d)
  OBVIOUS

\* Truncation to a register's width gives a word.
LEMMA WrapRange ==
  ASSUME NEW n \in Int
  PROVE  Wrap(n) \in Word
  BY WordSize, DivRange, Zenon DEF Wrap, Word

\* The divider starts with nothing brought in: div_unit's start cycle.
LEMMA LoopStart ==
  ASSUME NEW A \in Word, NEW D \in Word
  PROVE  DivLoop(A, D, 0, 0, A) /\ 2 ^ 0 * 2 ^ (W - 0) = 2 ^ W
  <1>1. 2 ^ 0 = 1 /\ W - 0 = W
    BY BinaryAssumption, WordSize
  <1>2. 0 \in 0 .. 2 ^ 0 - 1 /\ A \in 0 .. 2 ^ (W - 0) - 1
    BY <1>1, WordSize DEF Word
  <1>3. A = A * 2 ^ 0 + 0 /\ A = (0 + D * 0) * 2 ^ (W - 0) + A
    BY <1>1, WordSize DEF Word
  <1>4. 2 ^ 0 * 2 ^ (W - 0) = 2 ^ W
    BY <1>1, WordSize
  <1> QED BY <1>2, <1>3, <1>4, Zenon DEF DivLoop

\* After W iterations the divider holds quotient and remainder (div_unit).
LEMMA LoopEnd ==
  ASSUME NEW A \in Word, NEW D \in Word \ {0}, NEW hi \in 0 .. D - 1, NEW lo \in Int,
         DivLoop(A, D, W, hi, lo)
  PROVE  lo = A \div D /\ hi = A % D
  <1>a. 2 ^ 0 = 1 /\ W - W = 0
    BY BinaryAssumption, WordSize
  <1>1. 2 ^ (W - W) = 1
    BY <1>a, Zenon
  <1>2. PICK q \in 0 .. 2 ^ W - 1, r \in 0 .. 2 ^ (W - W) - 1 :
          lo = r * 2 ^ W + q /\ A = (hi + D * q) * 2 ^ (W - W) + r
    BY Zenon DEF DivLoop
  <1>3. r = 0
    BY <1>1
  <1>4. lo = q /\ A = hi + D * q
    BY <1>1, <1>2, <1>3, WordSize DEF Word
  <1>5. q \in Nat /\ A \in Nat /\ D \in Nat \ {0} /\ A = D * q + hi
    BY <1>4, WordSize DEF Word
  <1> QED BY <1>4, <1>5, DivMod

\* One iteration of div_unit, with its trial subtraction and shift, keeps the loop
\* invariant.
LEMMA LoopStep ==
  ASSUME NEW A \in Word, NEW D \in Word \ {0}, NEW c \in 0 .. W - 1, NEW hi \in 0 .. D - 1,
         NEW lo \in Int, DivLoop(A, D, c, hi, lo), 2 ^ c * 2 ^ (W - c) = 2 ^ W,
         NEW top, top = Wrap(2 * hi) + (IF Bit(lo, W - 1) THEN 1 ELSE 0),
         NEW h, h = IF top < D THEN top ELSE top - D,
         NEW l, l = Wrap(2 * lo) + (IF top < D THEN 0 ELSE 1)
  PROVE  /\ h \in 0 .. D - 1 /\ l \in Int
         /\ DivLoop(A, D, c + 1, h, l) /\ 2 ^ (c + 1) * 2 ^ (W - (c + 1)) = 2 ^ W
  <1> DEFINE P == 2 ^ c  R == 2 ^ (W - (c + 1))  H == 2 ^ (W - 1)
  <1>1. /\ P \in Nat \ {0} /\ R \in Nat \ {0} /\ H \in Nat \ {0} /\ P <= H
        /\ 2 ^ (c + 1) = 2 * P /\ 2 ^ (W - c) = 2 * R /\ 2 ^ W = 2 * H
    <2>1. c \in 0 .. W - 1 /\ W - (c + 1) \in 0 .. W - 1 /\ W - 1 \in 0 .. W - 1
      BY WordSize
    <2>2. W - c = (W - (c + 1)) + 1 /\ W = (W - 1) + 1
      BY WordSize
    <2> QED BY <2>1, <2>2, BinaryAssumption, Zenon
  <1>2. PICK q \in 0 .. P - 1, r \in 0 .. (2 * R) - 1 :
          lo = r * P + q /\ A = (hi + D * q) * (2 * R) + r
    BY <1>1, Zenon DEF DivLoop
  <1> HIDE DEF P, R, H
  <1>3. P * (2 * R) = 2 * H
    BY <1>1, Zenon DEF P
  <1>4. P * R = H
    BY <1>1, <1>3
  <1> DEFINE bit == IF r >= R THEN 1 ELSE 0  s == r - bit * R
  <1>5. bit \in 0 .. 1 /\ s \in 0 .. R - 1 /\ r = bit * R + s
    BY <1>1, <1>2
  <1> HIDE DEF bit, s
  <1>6. lo = H * bit + (s * P + q)
    <2>1. r * P = (bit * R + s) * P
      BY <1>5, Zenon
    <2>2. (bit * R + s) * P = bit * (R * P) + s * P
      BY <1>1, <1>5
    <2>3. R * P = H
      BY <1>1, <1>4
    <2> QED BY <1>1, <1>2, <1>5, <2>1, <2>2, <2>3
  <1>7. s * P + q \in 0 .. H - 1
    <2>1. s * P \in Nat /\ s * P <= (R - 1) * P
      BY <1>1, <1>5
    <2>2. (R - 1) * P = H - P
      BY <1>1, <1>4
    <2> QED BY <1>1, <1>2, <2>1, <2>2, SMTT(30)
  <1>8. lo \div H = bit
    <2> DEFINE m == s * P + q
    <2>1. lo \in Nat /\ bit \in Nat /\ H \in Nat \ {0} /\ m \in 0 .. H - 1 /\ lo = H * bit + m
      BY <1>1, <1>5, <1>6, <1>7, SMTT(30)
    <2> HIDE DEF m
    <2> QED BY <2>1, DivMod, ZenonT(30)
  <1>9. (IF Bit(lo, W - 1) THEN 1 ELSE 0) = bit
    BY <1>5, <1>8, SMTT(30) DEF Bit, H
  <1>10. hi < P
    <2>1. A < P * (2 * R)
      BY <1>1, <1>3 DEF Word
    <2>2. hi * (2 * R) <= A
      <3>1. (hi + D * q) * (2 * R) = hi * (2 * R) + (D * q) * (2 * R)
        BY <1>1, <1>2 DEF Word
      <3>2. (D * q) * (2 * R) >= 0
        BY <1>1, <1>2 DEF Word
      <3> QED BY <1>1, <1>2, <3>1, <3>2, SMTT(30) DEF Word
    <2>3. hi * (2 * R) < P * (2 * R)
      BY <1>1, <2>1, <2>2 DEF Word
    <2> QED BY <1>1, <2>3 DEF Word
  <1>11. Wrap(2 * hi) = 2 * hi
    <2>1. 2 * hi \in 0 .. 2 ^ W - 1
      BY <1>1, <1>10 DEF Word
    <2> QED BY <1>1, <2>1, SMTT(30) DEF Wrap
  <1>12. Wrap(2 * lo) = s * (2 * P) + 2 * q
    <2>1. 2 * lo = (2 * H) * bit + (s * (2 * P) + 2 * q)
      BY <1>1, <1>2, <1>5, <1>6, SMTT(30)
    <2>2. s * (2 * P) + 2 * q \in 0 .. (2 * H) - 1
      BY <1>1, <1>2, <1>5, <1>7
    <2>3. (2 * lo) % (2 * H) = s * (2 * P) + 2 * q
      <3> DEFINE m == s * (2 * P) + 2 * q  n == 2 * H  a == 2 * lo
      <3>1. m \in 0 .. n - 1 /\ n \in Nat \ {0} /\ a = n * bit + m /\ a \in Nat /\ bit \in Nat
        BY <1>1, <1>5, <2>1, <2>2, <1>2, SMTT(30)
      <3> HIDE DEF m, n, a
      <3>2. a % n = m
        BY <3>1, DivMod, Zenon
      <3> QED BY <3>2, Zenon DEF m, n, a
    <2> QED BY <1>1, <2>3, Zenon DEF Wrap
  <1>13. top = 2 * hi + bit
    BY <1>9, <1>11, ZenonT(30)
  <1> DEFINE nb == IF top < D THEN 0 ELSE 1
  <1>14. h \in 0 .. D - 1 /\ top = h + D * nb /\ nb \in 0 .. 1
    BY <1>5, <1>13, SMTT(30) DEF Word
  <1>15. l = s * (2 * P) + (2 * q + nb) /\ 2 * q + nb \in 0 .. (2 * P) - 1
    BY <1>1, <1>2, <1>5, <1>12, <1>14, SMTT(20)
  <1>16. A = (h + D * (2 * q + nb)) * R + s
    <2>1. (hi + D * q) * (2 * R) + r = (2 * hi + bit + D * (2 * q)) * R + s
      BY <1>1, <1>2, <1>5, SMTT(30) DEF Word
    <2>2. 2 * hi + bit + D * (2 * q) = h + D * (2 * q + nb)
      <3>1. D \in Int /\ q \in Int /\ nb \in Int /\ h \in Int /\ hi \in Int /\ bit \in Int
        BY <1>2, <1>5, <1>14, SMTT(30) DEF Word
      <3>2. D * (2 * q + nb) = D * (2 * q) + D * nb
        BY <3>1
      <3>3. 2 * hi + bit = h + D * nb
        BY <1>13, <1>14, ZenonT(30)
      <3> HIDE DEF nb
      <3> QED BY <3>1, <3>2, <3>3, SMTT(30)
    <2> QED BY <1>2, <2>1, <2>2, ZenonT(30)
  <1>17. (2 * P) * R = 2 * H
    BY <1>1, <1>4
  <1> HIDE DEF nb
  <1>18. DivLoop(A, D, c + 1, h, l)
    BY <1>1, <1>5, <1>15, <1>16, ZenonT(30) DEF DivLoop, R
  <1>19. l \in Int
    BY <1>1, <1>2, <1>5, <1>15, <1>14, SMTT(30)
  <1> QED BY <1>1, <1>14, <1>17, <1>18, <1>19, ZenonT(30) DEF R

\* Truncation keeps a word.
LEMMA WrapWord ==
  ASSUME NEW v \in Word
  PROVE  Wrap(v) = v
  BY WordSize, SMTT(30) DEF Wrap, Word

\* The sign bit and the value of a word as a signed number.
LEMMA SignBit ==
  ASSUME NEW a \in Word
  PROVE  /\ Bit(a, W - 1) <=> Signed(a) < 0
         /\ Abs(Signed(a)) = IF Bit(a, W - 1) THEN Wrap(-a) ELSE a
         /\ Abs(Signed(a)) \in Word /\ Signed(a) \in Int
         /\ Signed(a) = Sign(Signed(a)) * Abs(Signed(a))
         /\ a # 0 => Abs(Signed(a)) # 0
  <1> DEFINE H == 2 ^ (W - 1)
  <1>1. H \in Nat \ {0} /\ 2 ^ W = 2 * H /\ a \in 0 .. (2 * H) - 1
    BY WordSize DEF Word
  <1> HIDE DEF H
  <1>2. CASE a >= H
    <2>1. a = H * 1 + (a - H) /\ a - H \in 0 .. H - 1
      BY <1>1, <1>2
    <2>2. a \div H = 1
      BY <1>1, <2>1, DivMod
    <2>3. Bit(a, W - 1)
      BY <2>2 DEF Bit, H
    <2>4. Signed(a) = a - 2 * H
      BY <1>1, <1>2, Zenon DEF Signed, H
    <2>5. (-a) % (2 * H) = 2 * H - a
      BY <1>1, <1>2
    <2>6. Wrap(-a) = 2 * H - a
      BY <1>1, <2>5, ZenonT(30) DEF Wrap
    <2>7. Signed(a) < 0 /\ Abs(Signed(a)) = 2 * H - a /\ Sign(Signed(a)) = -1
      BY <1>1, <1>2, <2>4 DEF Abs, Sign
    <2>8. 2 * H - a \in Word
      BY <1>1, <1>2, SMTT(30) DEF Word
    <2> QED BY <1>1, <1>2, <2>3, <2>4, <2>6, <2>7, <2>8, SMTT(30)
  <1>3. CASE a < H
    <2>1. a = H * 0 + a /\ a \in 0 .. H - 1
      BY <1>1, <1>3
    <2>2. a \div H = 0
      BY <1>1, <2>1, DivMod
    <2>3. ~Bit(a, W - 1)
      BY <2>2 DEF Bit, H
    <2>4. Signed(a) = a
      BY <1>1, <1>3 DEF Signed, H
    <2>5. ~(Signed(a) < 0) /\ Abs(Signed(a)) = a /\ Sign(Signed(a)) = 1
      BY <1>1, <2>4 DEF Abs, Sign
    <2> QED BY <1>1, <1>3, <2>3, <2>4, <2>5, SMTT(30)
  <1> QED BY <1>1, <1>2, <1>3

\* Division of signed words from that of their magnitudes.
LEMMA SignedDivide ==
  ASSUME NEW a \in Word, NEW b \in Word \ {0}, NEW q, NEW r,
         q = Abs(Signed(a)) \div Abs(Signed(b)), r = Abs(Signed(a)) % Abs(Signed(b))
  PROVE  /\ DivResult("div", a, b) = IF Bit(a, W - 1) # Bit(b, W - 1) THEN Wrap(-q) ELSE q
         /\ DivResult("rem", a, b) = IF Bit(a, W - 1) THEN Wrap(-r) ELSE r
         /\ q \in Word /\ r \in Word
  <1> DEFINE A == Abs(Signed(a))  D == Abs(Signed(b))  sa == Signed(a)  sb == Signed(b)
  <1>1. /\ A \in Word /\ D \in Word \ {0} /\ sa = Sign(sa) * A /\ sb = Sign(sb) * D
        /\ sa \in Int /\ sb \in Int
        /\ Bit(a, W - 1) <=> sa < 0
        /\ Bit(b, W - 1) <=> sb < 0
    BY SignBit, Zenon
  <1>2. /\ Sign(sa) = IF sa < 0 THEN -1 ELSE 1
        /\ Sign(sb) = IF sb < 0 THEN -1 ELSE 1
    BY Zenon DEF Sign
  <1>3. DivResult("div", a, b) = Wrap(Sign(sa) * Sign(sb) * q)
    BY Zenon DEF DivResult
  <1>4. DivResult("rem", a, b) = Wrap(sa - sb * (Sign(sa) * Sign(sb) * q))
    BY Zenon DEF DivResult
  <1> HIDE DEF A, D, sa, sb
  <1>5. A = D * q + r /\ r \in 0 .. D - 1 /\ q \in Nat
    <2>1. q = A \div D /\ r = A % D
      BY Zenon DEF A, D
    <2>2. A \in Nat /\ A \in Int /\ D \in Nat \ {0}
      BY <1>1, WordSize DEF Word
    <2>3. A = D * q + r /\ r \in 0 .. D - 1 /\ q \in Int
      BY <2>1, <2>2, DivRange, ZenonT(30)
    <2>4. q >= 0
      BY <2>2, <2>3, SMTT(30)
    <2> QED BY <2>3, <2>4
  <1>6. q <= A
    BY <1>1, <1>5, SMTT(30) DEF Word
  <1>7. q \in Word /\ r \in Word
    BY <1>1, <1>5, <1>6, WordSize DEF Word
  <1>8. Wrap(q) = q /\ Wrap(r) = r
    BY <1>7, WrapWord, Zenon
  <1>9. DivResult("div", a, b) = IF Bit(a, W - 1) # Bit(b, W - 1) THEN Wrap(-q) ELSE q
    <2>1. CASE (sa < 0) # (sb < 0)
      <3>1. Sign(sa) * Sign(sb) * q = -q
        BY <1>2, <1>5, <2>1
      <3> QED BY <1>1, <1>3, <2>1, <3>1, SMTT(30)
    <2>2. CASE (sa < 0) = (sb < 0)
      <3>1. Sign(sa) * Sign(sb) = 1
        BY <1>2, <2>2
      <3>2. Sign(sa) * Sign(sb) * q = q
        BY <1>5, <3>1
      <3>3. Bit(a, W - 1) = Bit(b, W - 1)
        BY <1>1, <2>2, ZenonT(30) DEF Bit
      <3> QED BY <1>3, <1>8, <3>2, <3>3, ZenonT(30)
    <2> QED BY <2>1, <2>2, ZenonT(30)
  <1>10. sa - sb * (Sign(sa) * Sign(sb) * q) = IF sa < 0 THEN -r ELSE r
    <2>1. D * q \in Int /\ D \in Int
      BY <1>1, <1>5 DEF Word
    <2>2. sb * (Sign(sa) * Sign(sb) * q) = Sign(sa) * (D * q)
      <3>1. CASE sa < 0 /\ sb < 0
        BY <1>1, <1>2, <1>5, <2>1, <3>1, SMTT(30)
      <3>2. CASE sa < 0 /\ ~(sb < 0)
        BY <1>1, <1>2, <1>5, <2>1, <3>2, SMTT(30)
      <3>3. CASE ~(sa < 0) /\ sb < 0
        BY <1>1, <1>2, <1>5, <2>1, <3>3, SMTT(30)
      <3>4. CASE ~(sa < 0) /\ ~(sb < 0)
        BY <1>1, <1>2, <1>5, <2>1, <3>4, SMTT(30)
      <3> QED BY <3>1, <3>2, <3>3, <3>4, ZenonT(30)
    <2> QED BY <1>1, <1>2, <1>5, <2>1, <2>2, SMTT(30)
  <1>11. DivResult("rem", a, b) = IF Bit(a, W - 1) THEN Wrap(-r) ELSE r
    BY <1>1, <1>4, <1>8, <1>10, ZenonT(30)
  <1> QED BY <1>7, <1>9, <1>11, ZenonT(30)

\* A clock edge that is frozen.
Freeze ==
  /\ UNCHANGED <<prog, stages, mem, csr, lock_valid, reserved_addr>>
  /\ x' = XAfter /\ div' = DivNext /\ div_result_ready' = DivReadyNext(TRUE)

\* A clock edge that is not.
Advance(timer, external, guess) ==
  LET flush == pc_trap_override(timer, external, FALSE)
      trap == trap_taken(timer, external, FALSE) IN
  /\ ~div_stall
  /\ pc' = PcNext(guess, timer, external, FALSE) /\ csr' = CsrNext(timer, external, FALSE)
  /\ if_id' = IfIdNext(guess, flush) /\ id_ex' = IdExNext(flush)
  /\ ex_mem' = ExMemNext(flush) /\ mem_wb' = MemWbNext
  /\ x' = XAfter /\ mem' = MemAfter
  /\ lock_valid' = LockAfter(trap) /\ reserved_addr' = ReservedAfter(trap)
  /\ div' = DivNext /\ div_result_ready' = DivReadyNext(FALSE)
  /\ prog' = prog

\* Every edge is one or the other: nothing traps, returns or redirects while the
\* pipeline is frozen (Tick).
LEMMA TickCases ==
  ASSUME NEW memStall \in BOOLEAN, NEW timer \in BOOLEAN, NEW external \in BOOLEAN, NEW guess,
         Tick(memStall, timer, external, guess)
  PROVE  Freeze \/ Advance(timer, external, guess)
  <1> DEFINE gstall == memStall \/ div_stall
  <1>1. CASE gstall
    <2>1. /\ ~trap_taken(timer, external, gstall) /\ ~mret_fires(gstall) /\ ~ex_csr_wen(gstall)
      BY <1>1, Zenon DEF trap_taken, hw_irq, Fires, fault_illegal, fault_ld_align,
         fault_st_align, ecall_fires, mret_fires, ex_csr_wen
    <2>2. csr' = csr /\ pc' = pc
      BY <1>1, <2>1, Zenon DEF Tick, CsrNext, PcNext
    <2>3. div_result_ready' = DivReadyNext(TRUE)
      BY <1>1, ZenonT(30) DEF Tick, DivReadyNext
    <2> QED BY <1>1, <2>2, <2>3, Zenon DEF Tick, Freeze, stages
  <1>2. CASE ~gstall
    <2>1. gstall = FALSE
      BY <1>2, Zenon
    <2> QED BY <2>1, ZenonT(30) DEF Tick, Advance, div_stall
  <1> QED BY <1>1, <1>2, Zenon

\* The same for a step of the specification.
LEMMA NextCases ==
  ASSUME Next
  PROVE  \/ Freeze
         \/ \E timer, external \in BOOLEAN, guess \in Guesses : Advance(timer, external, guess)
  BY TickCases, ZenonT(30) DEF Next, Frozen, Moving

\* A cleared register holds an instruction (addi x0, x0, 0).
LEMMA NopTypes == Nop \in Inst /\ 0 \in Word
  <1>1. 0 \in Word
    BY WordSize DEF Word
  <1> QED BY <1>1 DEF Nop, Inst, Ops, Regs, Csrs, CsrOps

\* Every address holds an instruction (Fetch).
LEMMA FetchTypes ==
  ASSUME prog \in Programs, NEW a
  PROVE  /\ Fetch(prog, a) \in Inst
         /\ Fetch(prog, a).op = "fence" => Fetch(prog, a).rd = 0
  <1>1. "illegal" \in Ops /\ "op" \in DOMAIN Nop
    BY Zenon DEF Ops, Nop
  <1>2. Zero \in Inst /\ Zero.op = "illegal"
    BY <1>1, NopTypes, Zenon DEF Zero, Inst
  <1> QED BY <1>2, PipelineAssumption, Zenon DEF Fetch

\* The control word of an instruction (control_logic).
LEMMA ControlTypes ==
  ASSUME NEW i \in Inst
  PROVE  /\ wb_sel(i) \in {"alu", "mem", "link"} /\ atomic(i) \in {"lr", "sc", "amo", "none"}
         /\ reg_wen(i) \in BOOLEAN /\ mem_rw(i) \in BOOLEAN /\ Imm(i) \in Word
         /\ i.rd \in Regs /\ i.rs1 \in Regs /\ i.rs2 \in Regs /\ i.imm \in Word
         /\ i.size \in {1, 2} /\ i.size \in Int /\ i.csr \in Csrs /\ i.op \in Ops
  <1>1. /\ i.rd \in Regs /\ i.rs1 \in Regs /\ i.rs2 \in Regs /\ i.imm \in Word
        /\ i.size \in {1, 2} /\ i.csr \in Csrs /\ i.op \in Ops
    BY Zenon DEF Inst
  <1>2. i.size \in Int /\ 0 \in Word
    BY <1>1, WordSize DEF Word
  <1>3. wb_sel(i) \in {"alu", "mem", "link"}
    BY Zenon DEF wb_sel
  <1>5. atomic(i) \in {"lr", "sc", "amo", "none"}
    BY Zenon DEF atomic
  <1>4. Imm(i) \in Word
    BY <1>1, <1>2, Zenon DEF Imm
  <1>6. reg_wen(i) \in BOOLEAN /\ mem_rw(i) \in BOOLEAN
    BY DEF reg_wen, mem_rw
  <1> QED BY <1>1, <1>2, <1>3, <1>4, <1>5, <1>6, ZenonT(30)

\* Sums of words, and the address behind an instruction.
LEMMA Sums ==
  /\ \A a, b \in Word : Wrap(a + b) \in Word
  /\ \A a \in Word, n \in {1, 2} : Wrap(a + n) \in Word
  <1>1. \A a, b \in Word : a + b \in Int
    BY WordSize DEF Word
  <1>2. \A a \in Word, n \in {1, 2} : a + n \in Int
    BY WordSize DEF Word
  <1> QED BY <1>1, <1>2, WrapRange, Zenon

(***************************************************************************)
(* The values in the stages.                                               *)
(***************************************************************************)

\* What WB writes, and the registers after it (regfile.v).
LEMMA WriteBackTypes ==
  ASSUME Inv
  PROVE  /\ wb_data \in Word /\ XAfter \in [Regs -> Word] /\ XAfter[0] = 0
         /\ \A r \in Regs : ReadReg(r) = XAfter[r]
         /\ \A r \in Regs : ReadReg(r) \in Word
  <1>1. /\ mem_wb.alu \in Word /\ mem_wb.data \in Word /\ mem_wb.pc \in Word
        /\ mem_wb.rd \in Regs /\ mem_wb.wb_sel \in {"alu", "mem", "link"}
        /\ mem_wb.size \in {1, 2}
    BY Zenon DEF Inv, StageTypes, Finished
  <1>2. Wrap(mem_wb.pc + mem_wb.size) \in Word
    BY <1>1, Sums, Zenon
  <1>3. wb_data \in Word
    BY <1>1, <1>2, Zenon DEF wb_data
  <1>4. x \in [Regs -> Word] /\ x[0] = 0 /\ 0 \in Regs
    BY DEF Inv, StateTypes, Regs
  <1> HIDE DEF wb_data
  <1>5. XAfter \in [Regs -> Word] /\ XAfter[0] = 0
    BY <1>1, <1>3, <1>4, Zenon DEF XAfter
  <1>6. ASSUME NEW r \in Regs PROVE ReadReg(r) = XAfter[r]
    BY <1>1, <1>3, <1>4, <1>5, ZenonT(30) DEF ReadReg, XAfter
  <1> QED BY <1>3, <1>5, <1>6, Zenon

\* What the instruction in MEM will write, and the registers after it.
LEMMA MemoryTypes ==
  ASSUME Inv
  PROVE  /\ final_alu_to_wb \in Word /\ ex_mem_forward_data \in Word
         /\ ex_mem.reg_wen => MemResult \in Word
         /\ ArchX \in [Regs -> Word] /\ ArchX[0] = 0
         /\ MemAfter \in [Aligned -> Word]
         /\ (is_load \/ ex_mem.atomic = "amo") => mem[ex_mem.alu] \in Word
  <1>1. /\ ex_mem.alu \in Word /\ ex_mem.rs2 \in Word /\ ex_mem.pc \in Word
        /\ ex_mem.rd \in Regs /\ ex_mem.wb_sel \in {"alu", "mem", "link"}
        /\ ex_mem.size \in {1, 2}
    BY Zenon DEF Inv, StageTypes, Executed
  <1>2. Wrap(ex_mem.pc + ex_mem.size) \in Word
    BY <1>1, Sums, Zenon
  <1>3. 0 \in Word /\ 1 \in Word
    BY WordSize DEF Word
  <1>4. final_alu_to_wb \in Word
    BY <1>1, <1>3, Zenon DEF final_alu_to_wb
  <1>5. ex_mem_forward_data \in Word
    BY <1>1, <1>2, <1>4, Zenon DEF ex_mem_forward_data
  <1>6. (is_load \/ ex_mem.atomic = "amo") => mem[ex_mem.alu] \in Word
    BY Zenon DEF Inv, StateTypes, ExecuteInv, is_load
  <1>7. ex_mem.reg_wen => MemResult \in Word
    BY <1>1, <1>2, <1>4, <1>6, Zenon DEF MemResult, is_load
  <1>8. ArchX \in [Regs -> Word] /\ ArchX[0] = 0
    <2>1. XAfter \in [Regs -> Word] /\ XAfter[0] = 0
      BY WriteBackTypes, Zenon
    <2>2. 0 \in Regs
      BY DEF Regs
    <2> QED BY <1>1, <1>7, <2>1, <2>2, ZenonT(30) DEF ArchX
  <1>9. MemAfter \in [Aligned -> Word]
    <2>1. mem \in [Aligned -> Word]
      BY Zenon DEF Inv, StateTypes
    <2>2. store_commits \/ ex_mem.atomic = "amo" => ex_mem.alu \in Aligned
      BY Zenon DEF Inv, ExecuteInv, store_commits
    <2> QED BY <1>1, <2>1, <2>2, Zenon DEF MemAfter
  <1> QED BY <1>4, <1>5, <1>6, <1>7, <1>8, <1>9, ZenonT(30)

\* Forwarding gives the register as it will be when everything older is done
\* (hazard_unit, forwarding muxes of cpu.v).
LEMMA ForwardRight ==
  ASSUME Inv, NEW r \in Regs, NEW v, Latched(r, v), ~Awaited(r)
  PROVE  Forward(r, v) = ArchX[r]
  <1>1. XAfter \in [Regs -> Word] /\ XAfter[r] = ReadReg(r) /\ ArchX \in [Regs -> Word]
    BY WriteBackTypes, MemoryTypes, ZenonT(30)
  <1>2. x[0] = 0 /\ ex_mem.wb_sel \in {"alu", "mem", "link"}
    BY Zenon DEF Inv, StateTypes, StageTypes, Executed
  <1>3. CASE ex_mem.reg_wen /\ ex_mem.rd = r /\ r # 0
    <2>1. ex_mem.wb_sel # "mem"
      BY <1>3, Zenon DEF Awaited
    <2>2. Forward(r, v) = ex_mem_forward_data
      BY <1>3, <2>1, Zenon DEF Forward, ex_mem_fwdable
    <2>3. ArchX[r] = MemResult
      BY <1>1, <1>3, Zenon DEF ArchX
    <2>4. ex_mem.atomic = "sc" => ex_mem.wb_sel = "alu"
      BY Zenon DEF Inv, ExecuteInv
    <2>5. ex_mem_forward_data = MemResult
      BY <1>2, <2>1, <2>4, Zenon DEF ex_mem_forward_data, MemResult, final_alu_to_wb
    <2> QED BY <2>2, <2>3, <2>5, ZenonT(30)
  <1>4. CASE ~(ex_mem.reg_wen /\ ex_mem.rd = r /\ r # 0)
    <2>1. ArchX[r] = XAfter[r]
      BY <1>1, <1>4, Zenon DEF ArchX
    <2>2. Forward(r, v) = IF mem_wb.reg_wen /\ mem_wb.rd = r /\ mem_wb.rd # 0 THEN wb_data ELSE v
      BY <1>4, Zenon DEF Forward, ex_mem_fwdable
    <2>3. Forward(r, v) = ReadReg(r)
      BY <1>2, <2>2, Zenon DEF ReadReg, Latched
    <2> QED BY <1>1, <2>1, <2>3, Zenon
  <1> QED BY <1>3, <1>4, Zenon

\* The operands an instruction in EX really reads.
LEMMA Operands ==
  ASSUME Inv
  PROVE  /\ rs1_used(id_ex.inst) => fwd_rs1 = ArchX[id_ex.inst.rs1]
         /\ rs2_used(id_ex.inst) => fwd_rs2 = ArchX[id_ex.inst.rs2]
  <1>1. id_ex.inst.rs1 \in Regs /\ id_ex.inst.rs2 \in Regs
    BY Zenon DEF Inv, StageTypes, Decoded, Inst
  <1> QED BY <1>1, ForwardRight, Zenon DEF Inv, OperandInv, fwd_rs1, fwd_rs2

\* Everything EX computes is a word.
LEMMA ExecuteTypes ==
  ASSUME Inv
  PROVE  /\ fwd_rs1 \in Word /\ fwd_rs2 \in Word /\ alu_a \in Word /\ alu_b \in Word
         /\ redirect_target_adder \in Word /\ actual_ex_result \in Word
         /\ Wrap(id_ex.pc + id_ex.inst.size) \in Word
  <1>1. id_ex.inst \in Inst /\ id_ex.rs1 \in Word /\ id_ex.rs2 \in Word /\ id_ex.pc \in Word
    BY Zenon DEF Inv, StageTypes, Decoded
  <1>2. fwd_rs1 \in Word /\ fwd_rs2 \in Word
    BY <1>1, WriteBackTypes, MemoryTypes, Zenon DEF fwd_rs1, fwd_rs2, Forward
  <1>3. alu_a \in Word /\ alu_b \in Word
    BY <1>1, <1>2, ControlTypes, Zenon DEF alu_a, alu_b
  <1>4. redirect_target_adder \in Word
    BY <1>3, Sums, Zenon DEF redirect_target_adder
  <1>5. Wrap(id_ex.pc + id_ex.inst.size) \in Word
    BY <1>1, ControlTypes, Sums, Zenon
  <1>6. csr[id_ex.inst.csr] \in Word
    BY <1>1, ControlTypes, Zenon DEF Inv, StateTypes
  <1>7. div.quotient \in Word /\ div.remainder \in Word
    BY Zenon DEF Inv, DivTypes, Divider
  <1> QED BY <1>2, <1>3, <1>4, <1>5, <1>6, <1>7, ZenonT(30) DEF actual_ex_result, ex_result

\* The absolute value of an operand (a_abs, b_abs).
Magnitude(op, v) == IF op \in {"div", "rem"} /\ Bit(v, W - 1) THEN Wrap(-v) ELSE v

\* The magnitudes are words, and the divisor's is not zero.
LEMMA Magnitudes ==
  ASSUME NEW op, NEW v \in Word
  PROVE  Magnitude(op, v) \in Word /\ (v # 0 => Magnitude(op, v) # 0)
  BY SignBit, Zenon DEF Magnitude

\* The signs are put back in the final iteration.
Quotient(op, a, b, q) ==
  IF op \in {"div", "rem"} /\ Bit(a, W - 1) # Bit(b, W - 1) THEN Wrap(-q) ELSE q
Remainder(op, a, r) == IF op \in {"div", "rem"} /\ Bit(a, W - 1) THEN Wrap(-r) ELSE r

\* The result the four instructions take from quotient and remainder of the
\* magnitudes (the final iteration of div_unit).
LEMMA DivideResult ==
  ASSUME NEW op \in {"div", "divu", "rem", "remu"}, NEW a \in Word, NEW b \in Word \ {0},
         NEW q, q = Magnitude(op, a) \div Magnitude(op, b),
         NEW r, r = Magnitude(op, a) % Magnitude(op, b)
  PROVE  /\ DivResult(op, a, b) =
              IF op \in {"rem", "remu"} THEN Remainder(op, a, r) ELSE Quotient(op, a, b, q)
         /\ Quotient(op, a, b, q) \in Word /\ Remainder(op, a, r) \in Word
  <1> DEFINE A == Magnitude(op, a)  D == Magnitude(op, b)
  <1>1. A \in Word /\ D \in Word /\ D # 0
    BY Magnitudes, ZenonT(30)
  <1> HIDE DEF A, D
  <1>2. q \in Word /\ r \in Word
    <2>1. A \in Nat /\ A \in Int /\ D \in Nat \ {0}
      BY <1>1, WordSize DEF Word
    <2>2. q = A \div D /\ r = A % D
      BY Zenon DEF A, D
    <2>3. A = D * q + r /\ r \in 0 .. D - 1 /\ q \in Int
      BY <2>1, <2>2, DivRange, ZenonT(30)
    <2>4. q >= 0
      BY <2>1, <2>3, SMTT(30)
    <2>5. q <= A
      BY <2>1, <2>3, <2>4
    <2> QED BY <1>1, <2>1, <2>3, <2>4, <2>5, WordSize, SMTT(30) DEF Word
  <1>3. Wrap(-q) \in Word /\ Wrap(-r) \in Word
    <2>1. -q \in Int /\ -r \in Int
      BY <1>2, WordSize DEF Word
    <2> QED BY <2>1, WrapRange, ZenonT(30)
  <1>4. CASE op \in {"div", "rem"}
    <2>1. A = Abs(Signed(a)) /\ D = Abs(Signed(b))
      BY <1>4, SignBit, Zenon DEF A, D, Magnitude
    <2>2. q = Abs(Signed(a)) \div Abs(Signed(b)) /\ r = Abs(Signed(a)) % Abs(Signed(b))
      BY <2>1, Zenon DEF A, D
    <2>3. /\ DivResult("div", a, b) = IF Bit(a, W - 1) # Bit(b, W - 1) THEN Wrap(-q) ELSE q
          /\ DivResult("rem", a, b) = IF Bit(a, W - 1) THEN Wrap(-r) ELSE r
      BY <2>2, SignedDivide, ZenonT(30)
    <2>4. "div" # "rem" /\ "div" # "remu"
      BY Zenon
    <2>5. op = "div" => op \notin {"rem", "remu"}
      BY <2>4, Zenon
    <2> QED BY <1>2, <1>3, <1>4, <2>3, <2>5, ZenonT(30) DEF Quotient, Remainder
  <1>5. CASE op \in {"divu", "remu"}
    <2>1. op \notin {"div", "rem"}
      BY <1>5, Zenon
    <2>2. A = a /\ D = b
      BY <2>1, ZenonT(30) DEF A, D, Magnitude
    <2>3. q = a \div b /\ r = a % b
      BY <2>2, ZenonT(30) DEF A, D
    <2>4. op = "divu" => op \notin {"rem", "remu"} /\ DivResult(op, a, b) = q
      BY <2>3, ZenonT(30) DEF DivResult
    <2>5. op = "remu" => DivResult(op, a, b) = r
      BY <2>3, Zenon DEF DivResult
    <2> QED BY <1>2, <1>3, <1>5, <2>1, <2>4, <2>5, ZenonT(30) DEF Quotient, Remainder
  <1> QED BY <1>4, <1>5, Zenon

\* The two special cases of div_unit.
LEMMA DivideByZero ==
  ASSUME NEW op \in {"div", "divu", "rem", "remu"}, NEW a
  PROVE  DivResult(op, a, 0) = IF op \in {"rem", "remu"} THEN a ELSE Wrap(-1)
  BY Zenon DEF DivResult

\* The other one: the most negative number divided by -1 (div_unit).
LEMMA DivideOverflow ==
  ASSUME NEW op \in {"div", "rem"}
  PROVE  /\ DivResult(op, 2 ^ (W - 1), Wrap(-1)) = IF op \in {"rem", "remu"} THEN 0 ELSE 2 ^ (W - 1)
         /\ 2 ^ (W - 1) \in Word
  <1> DEFINE H == 2 ^ (W - 1)  b == Wrap(-1)
  <1>1. H \in Nat \ {0} /\ 2 ^ W = 2 * H /\ H >= 16
    BY WordSize
  <1> HIDE DEF H
  <1>2. b = 2 * H - 1
    <2>1. (-1) % (2 * H) = 2 * H - 1
      BY <1>1
    <2> QED BY <1>1, <2>1, Zenon DEF Wrap
  <1>3. H \in Word /\ b \in Word \ {0}
    BY <1>1, <1>2 DEF Word
  <1>4. Signed(H) = -H /\ Signed(b) = -1
    BY <1>1, <1>2 DEF Signed, H
  <1> HIDE DEF b
  <1>5. Abs(Signed(H)) = H /\ Abs(Signed(b)) = 1
    <2>1. \A n \in Nat \ {0} : Abs(-n) = n
      BY DEF Abs
    <2>2. 1 \in Nat \ {0}
      OBVIOUS
    <2> QED BY <1>1, <1>4, <2>1, <2>2, ZenonT(30)
  <1>6. H \div 1 = H /\ H % 1 = 0
    BY <1>1
  <1>7. Signed(H) < 0 /\ Signed(b) < 0
    BY <1>1, <1>4
  <1>8. Bit(H, W - 1) = Bit(b, W - 1) /\ Bit(H, W - 1)
    BY <1>3, <1>7, SignBit, ZenonT(30) DEF Bit
  <1> DEFINE q == Abs(Signed(H)) \div Abs(Signed(b))  r == Abs(Signed(H)) % Abs(Signed(b))
  <1>9. q = H /\ r = 0
    BY <1>5, <1>6, Zenon
  <1>10. /\ DivResult("div", H, b) = IF Bit(H, W - 1) # Bit(b, W - 1) THEN Wrap(-q) ELSE q
         /\ DivResult("rem", H, b) = IF Bit(H, W - 1) THEN Wrap(-r) ELSE r
    BY <1>3, SignedDivide, ZenonT(30)
  <1> HIDE DEF q, r
  <1>12. Wrap(-r) = 0
    BY <1>9, WordSize DEF Wrap
  <1>11. op = "div" => op \notin {"rem", "remu"}
    BY Zenon
  <1>13. DivResult("div", H, b) = H /\ DivResult("rem", H, b) = 0
    BY <1>8, <1>9, <1>10, <1>12, ZenonT(30)
  <1> QED BY <1>3, <1>11, <1>13, ZenonT(30) DEF b, H

\* A frozen edge writes the same register again and changes no operand.
LEMMA FreezeSame ==
  ASSUME Inv, Freeze
  PROVE  /\ XAfter' = XAfter /\ fwd_rs1' = fwd_rs1 /\ fwd_rs2' = fwd_rs2
         /\ alu_a' = alu_a /\ alu_b' = alu_b
         /\ ArchX' = ArchX /\ ArchPc' = ArchPc /\ MemAfter' = MemAfter /\ ArchResv' = ArchResv
         /\ csr' = csr /\ prog' = prog
  <1>1. /\ pc' = pc /\ if_id' = if_id /\ id_ex' = id_ex /\ ex_mem' = ex_mem /\ mem_wb' = mem_wb
        /\ mem' = mem /\ csr' = csr /\ prog' = prog /\ lock_valid' = lock_valid
        /\ reserved_addr' = reserved_addr /\ x' = XAfter
    BY Zenon DEF Freeze, stages
  <1>2. wb_data' = wb_data
    BY <1>1, Zenon DEF wb_data
  <1>3. XAfter' = XAfter
    <2>1. XAfter \in [Regs -> Word] /\ mem_wb.rd \in Regs /\ x \in [Regs -> Word]
      BY WriteBackTypes, Zenon DEF Inv, StageTypes, StateTypes, Finished
    <2>2. CASE mem_wb.reg_wen /\ mem_wb.rd # 0
      <3>1. XAfter' = [XAfter EXCEPT ![mem_wb.rd] = wb_data]
        BY <1>1, <1>2, <2>2, ZenonT(30) DEF XAfter
      <3>2. XAfter[mem_wb.rd] = wb_data
        BY <2>1, <2>2, Zenon DEF XAfter
      <3> HIDE DEF XAfter
      <3> QED BY <2>1, <3>1, <3>2, ZenonT(30)
    <2>3. CASE ~(mem_wb.reg_wen /\ mem_wb.rd # 0)
      BY <1>1, <2>3, Zenon DEF XAfter
    <2> QED BY <2>2, <2>3, Zenon
  <1>4. sc_successful' = sc_successful /\ final_alu_to_wb' = final_alu_to_wb
    BY <1>1, Zenon DEF sc_successful, final_alu_to_wb
  <1>5. ex_mem_forward_data' = ex_mem_forward_data /\ ex_mem_fwdable' = ex_mem_fwdable
    BY <1>1, <1>4, Zenon DEF ex_mem_forward_data, ex_mem_fwdable
  <1>6. fwd_rs1' = fwd_rs1 /\ fwd_rs2' = fwd_rs2
    BY <1>1, <1>2, <1>5, ZenonT(30) DEF fwd_rs1, fwd_rs2, Forward
  <1>7. alu_a' = alu_a /\ alu_b' = alu_b
    BY <1>1, <1>6, Zenon DEF alu_a, alu_b
  <1>8. MemResult' = MemResult
    BY <1>1, <1>4, Zenon DEF MemResult
  <1>9. ArchX' = ArchX
    BY <1>1, <1>3, <1>8, ZenonT(30) DEF ArchX
  <1>10. MemAfter' = MemAfter
    BY <1>1, <1>4, Zenon DEF MemAfter, store_commits
  <1>11. ArchResv' = ArchResv /\ ArchPc' = ArchPc
    BY <1>1, Zenon DEF ArchResv, ArchPc, LockAfter, ReservedAfter, is_load
  <1> QED BY <1>1, <1>3, <1>6, <1>7, <1>9, <1>10, <1>11, ZenonT(30)

\* The divider at a frozen edge: started on the operands of the instruction in EX,
\* iterating on them, or finished with its result (div_unit, div_result_ready).
LEMMA DivideStep ==
  ASSUME Inv, Freeze
  PROVE  DivTypes' /\ DivPhase' /\ DivBusy' /\ DivDone'
  <1> DEFINE op == id_ex.inst.op  a == alu_a  b == alu_b
             A == Magnitude(op, a)  D == Magnitude(op, b)
             rem == op \in {"rem", "remu"}
  <1>1. /\ id_ex' = id_ex /\ alu_a' = alu_a /\ alu_b' = alu_b
        /\ div' = DivNext /\ div_result_ready' = (div.done \/ div_result_ready)
    BY FreezeSame, Zenon DEF Freeze, stages, DivReadyNext, Inv, DivTypes
  <1>2. a \in Word /\ b \in Word /\ A \in Word /\ D \in Word /\ (b # 0 => D # 0)
    BY ExecuteTypes, Magnitudes, Zenon
  <1>3. a_abs = A /\ b_abs = D /\ a_abs' = A /\ b_abs' = D
    BY <1>1, Zenon DEF a_abs, b_abs, is_signed, Magnitude
  <1>4. is_div_op(id_ex.inst) <=> op \in {"div", "divu", "rem", "remu"}
    BY Zenon DEF is_div_op
  <1>5. is_div_op(id_ex.inst) => ex_result' = IF rem THEN div'.remainder ELSE div'.quotient
    BY <1>1, Zenon DEF ex_result
  <1>6. /\ DivPhase /\ DivBusy /\ DivDone /\ div \in Divider /\ div_result_ready \in BOOLEAN
        /\ div.busy \in BOOLEAN /\ div.done \in BOOLEAN
    BY Zenon DEF Inv, DivTypes, Divider
  <1>7. ASSUME div_start, b = 0
        PROVE  DivTypes' /\ DivPhase' /\ DivBusy' /\ DivDone'
    <2>1. div' = [div EXCEPT !.quotient = Wrap(-1), !.remainder = a, !.done = TRUE]
      BY <1>1, <1>7, ZenonT(30) DEF DivNext
    <2>2. Wrap(-1) \in Word
      BY WrapRange
    <2>3. div' \in Divider /\ div'.quotient = Wrap(-1) /\ div'.remainder = a /\ div'.done
          /\ div'.busy = div.busy
      BY <1>2, <1>6, <2>1, <2>2, ZenonT(30) DEF Divider
    <2>4. is_div_op(id_ex.inst) /\ ~div.busy /\ ~div.done /\ ~div_result_ready
      BY <1>7, Zenon DEF div_start
    <2>5. ~div_result_ready'
      BY <1>1, <2>4, Zenon
    <2>6. ex_result' = DivResult(op, a, b)
      BY <1>4, <1>5, <1>7, <2>3, <2>4, DivideByZero, ZenonT(30)
    <2>7. DivDone'
      BY <1>1, <2>6, Zenon DEF DivDone
    <2>8. DivBusy'
      BY <2>3, <2>4, Zenon DEF DivBusy
    <2>9. DivPhase'
      BY <1>1, <2>3, <2>4, <2>5, ZenonT(30) DEF DivPhase
    <2> QED BY <1>1, <1>6, <2>3, <2>5, <2>7, <2>8, <2>9, ZenonT(30) DEF DivTypes
  <1>8. ASSUME div_start, b # 0, is_signed /\ a = 2 ^ (W - 1) /\ b = Wrap(-1)
        PROVE  DivTypes' /\ DivPhase' /\ DivBusy' /\ DivDone'
    <2>1. div' = [div EXCEPT !.quotient = 2 ^ (W - 1), !.remainder = 0, !.done = TRUE]
      BY <1>1, <1>8, Zenon DEF DivNext
    <2>2. 2 ^ (W - 1) \in Word /\ 0 \in Word
      BY <1>2, <1>8, NopTypes, ZenonT(30)
    <2>3. div' \in Divider /\ div'.quotient = 2 ^ (W - 1) /\ div'.remainder = 0 /\ div'.done
          /\ div'.busy = div.busy
      BY <1>6, <2>1, <2>2, ZenonT(30) DEF Divider
    <2>4. is_div_op(id_ex.inst) /\ ~div.busy /\ ~div.done /\ ~div_result_ready
      BY <1>8, ZenonT(30) DEF div_start
    <2>5. ~div_result_ready'
      BY <1>1, <2>4, Zenon
    <2>6. ex_result' = DivResult(op, a, b)
      BY <1>5, <1>8, <2>3, <2>4, DivideOverflow, ZenonT(30) DEF is_signed
    <2>7. DivDone'
      BY <1>1, <2>6, Zenon DEF DivDone
    <2>8. DivBusy'
      BY <2>3, <2>4, ZenonT(30) DEF DivBusy
    <2>9. DivPhase'
      BY <1>1, <2>3, <2>4, <2>5, ZenonT(30) DEF DivPhase
    <2> QED BY <1>1, <1>6, <2>3, <2>5, <2>7, <2>8, <2>9, ZenonT(30) DEF DivTypes
  <1>9. ASSUME div_start, b # 0, ~(is_signed /\ a = 2 ^ (W - 1) /\ b = Wrap(-1))
        PROVE  DivTypes' /\ DivPhase' /\ DivBusy' /\ DivDone'
    <2>1. div' = [div EXCEPT !.hi = 0, !.lo = A, !.divisor = D, !.count = 0,
                    !.neg_q = is_signed /\ Bit(a, W - 1) # Bit(b, W - 1),
                    !.neg_r = is_signed /\ Bit(a, W - 1), !.busy = TRUE, !.done = FALSE]
      BY <1>1, <1>3, <1>9, ZenonT(30) DEF DivNext
    <2>2. 0 \in 0 .. W - 1 /\ A \in Int /\ D \in Int /\ 0 \in 0 .. D - 1
      BY <1>2, <1>9, WordSize DEF Word
    <2>3. /\ (is_signed /\ Bit(a, W - 1) # Bit(b, W - 1)) \in BOOLEAN
          /\ (is_signed /\ Bit(a, W - 1)) \in BOOLEAN
      BY Zenon
    <2> HIDE DEF a, b, A, D, op
    <2> DEFINE nq == is_signed /\ Bit(a, W - 1) # Bit(b, W - 1)
               nr == is_signed /\ Bit(a, W - 1)
    <2> HIDE DEF nq, nr
    <2>a. div' = [div EXCEPT !.hi = 0, !.lo = A, !.divisor = D, !.count = 0,
                    !.neg_q = nq, !.neg_r = nr, !.busy = TRUE, !.done = FALSE]
      BY <2>1, Zenon DEF nq, nr
    <2>b. nq \in BOOLEAN /\ nr \in BOOLEAN
      BY <2>3, Zenon DEF nq, nr
    <2>c. div' \in Divider
      <3>1. 0 \in Int
        OBVIOUS
      <3>2. [div EXCEPT !.hi = 0, !.lo = A, !.divisor = D, !.count = 0] \in Divider
        BY <1>6, <2>2, <3>1, Zenon DEF Divider
      <3> DEFINE e == [div EXCEPT !.hi = 0, !.lo = A, !.divisor = D, !.count = 0]
      <3>3. div' = [e EXCEPT !.neg_q = nq, !.neg_r = nr, !.busy = TRUE, !.done = FALSE]
        BY <2>a, Zenon
      <3> HIDE DEF e
      <3> QED BY <2>b, <3>2, <3>3, ZenonT(30) DEF Divider, e
    <2>d. /\ div'.hi = 0 /\ div'.lo = A /\ div'.divisor = D /\ div'.count = 0
          /\ div'.neg_q = nq /\ div'.neg_r = nr /\ div'.busy /\ ~div'.done
      BY <1>6, <2>a, Zenon DEF Divider
    <2>4. /\ div' \in Divider /\ div'.hi = 0 /\ div'.lo = A /\ div'.divisor = D /\ div'.count = 0
          /\ div'.neg_q = (is_signed /\ Bit(a, W - 1) # Bit(b, W - 1))
          /\ div'.neg_r = (is_signed /\ Bit(a, W - 1)) /\ div'.busy /\ ~div'.done
      BY <2>c, <2>d, Zenon DEF nq, nr
    <2>5. is_div_op(id_ex.inst) /\ ~div.busy /\ ~div.done /\ ~div_result_ready
      BY <1>9, ZenonT(30) DEF div_start
    <2>6. ~div_result_ready'
      BY <1>1, <2>5, Zenon
    <2>7. DivLoop(A, D, 0, 0, A) /\ 2 ^ 0 * 2 ^ (W - 0) = 2 ^ W
      BY <1>2, LoopStart, ZenonT(30)
    <2>8. DivBusy'
      BY <1>1, <1>3, <1>9, <2>2, <2>4, <2>7, ZenonT(30) DEF DivBusy, is_signed, a, b
    <2>9. DivPhase' /\ DivDone'
      BY <1>1, <2>4, <2>5, <2>6, ZenonT(30) DEF DivPhase, DivDone
    <2> QED BY <1>1, <1>6, <2>4, <2>6, <2>8, <2>9, ZenonT(30) DEF DivTypes
  <1>10. ASSUME ~div_start, div.busy
         PROVE  DivTypes' /\ DivPhase' /\ DivBusy' /\ DivDone'
    <2> DEFINE top == Wrap(2 * div.hi) + (IF Bit(div.lo, W - 1) THEN 1 ELSE 0)
               h == IF top < div.divisor THEN top ELSE top - div.divisor
               l == Wrap(2 * div.lo) + (IF top < div.divisor THEN 0 ELSE 1)
               nq == is_signed /\ Bit(a, W - 1) # Bit(b, W - 1)
               nr == is_signed /\ Bit(a, W - 1)
               c == div.count
               fq == IF div.neg_q THEN Wrap(-l) ELSE l
               fr == IF div.neg_r THEN Wrap(-h) ELSE h
    <2>1. /\ is_div_op(id_ex.inst) /\ ~div.done /\ ~div_result_ready /\ b # 0
          /\ div.divisor = D /\ div.hi \in 0 .. D - 1 /\ DivLoop(A, D, c, div.hi, div.lo)
          /\ 2 ^ c * 2 ^ (W - c) = 2 ^ W /\ div.neg_q = nq /\ div.neg_r = nr
      BY <1>3, <1>6, <1>10, ZenonT(30) DEF DivPhase, DivBusy
    <2>2. c \in 0 .. W - 1 /\ div.lo \in Int /\ D \in Word \ {0} /\ A \in Word
      BY <1>2, <1>6, <2>1, ZenonT(30) DEF Divider
    <2>a. div' = IF c = W - 1
                 THEN [[div EXCEPT !.hi = h, !.lo = l] EXCEPT !.busy = FALSE, !.done = TRUE,
                         !.quotient = fq, !.remainder = fr]
                 ELSE [[div EXCEPT !.hi = h, !.lo = l] EXCEPT !.count = @ + 1]
      BY <1>1, <1>10, ZenonT(30) DEF DivNext
    <2>b. /\ top = Wrap(2 * div.hi) + (IF Bit(div.lo, W - 1) THEN 1 ELSE 0)
          /\ h = IF top < D THEN top ELSE top - D
          /\ l = Wrap(2 * div.lo) + (IF top < D THEN 0 ELSE 1)
      BY <2>1, ZenonT(30)
    <2> HIDE DEF h, l, A, D, a, b, op, nq, nr, fq, fr, c, rem, top
    <2>3. /\ h \in 0 .. D - 1 /\ l \in Int
          /\ DivLoop(A, D, c + 1, h, l) /\ 2 ^ (c + 1) * 2 ^ (W - (c + 1)) = 2 ^ W
      BY <2>1, <2>2, <2>b, LoopStep, SMTT(30)
    <2>4. div' = IF c = W - 1
                 THEN [div EXCEPT !.hi = h, !.lo = l, !.busy = FALSE, !.done = TRUE,
                         !.quotient = fq, !.remainder = fr]
                 ELSE [div EXCEPT !.hi = h, !.lo = l, !.count = c + 1]
      BY <1>6, <2>a, ZenonT(30) DEF Divider, c
    <2>5. ~div_result_ready'
      BY <1>1, <2>1, ZenonT(30)
    <2>6. h \in Int
      BY <2>2, <2>3 DEF Word
    <2>7. ASSUME c = W - 1
          PROVE  DivTypes' /\ DivPhase' /\ DivBusy' /\ DivDone'
      <3>1. c + 1 = W
        BY <2>2, <2>7, WordSize, SMTT(30)
      <3>2. DivLoop(A, D, W, h, l)
        BY <2>3, <3>1, Zenon
      <3>3. l = A \div D /\ h = A % D
        BY <2>2, <2>3, <3>2, LoopEnd, ZenonT(30)
      <3>4. op \in {"div", "divu", "rem", "remu"} /\ a \in Word /\ b \in Word \ {0}
        BY <1>2, <1>4, <2>1, ZenonT(30) DEF op, a, b
      <3>5. /\ DivResult(op, a, b) = IF rem THEN fr ELSE fq
            /\ fq \in Word /\ fr \in Word
        <4>1. l = Magnitude(op, a) \div Magnitude(op, b) /\ h = Magnitude(op, a) % Magnitude(op, b)
          BY <3>3, Zenon DEF A, D
        <4>2. /\ DivResult(op, a, b) =
                   IF op \in {"rem", "remu"} THEN Remainder(op, a, h) ELSE Quotient(op, a, b, l)
              /\ Quotient(op, a, b, l) \in Word /\ Remainder(op, a, h) \in Word
          <5>1. \A q, r : q = Magnitude(op, a) \div Magnitude(op, b)
                            /\ r = Magnitude(op, a) % Magnitude(op, b) =>
                  /\ DivResult(op, a, b) =
                       IF op \in {"rem", "remu"} THEN Remainder(op, a, r) ELSE Quotient(op, a, b, q)
                  /\ Quotient(op, a, b, q) \in Word /\ Remainder(op, a, r) \in Word
            BY <3>4, DivideResult
          <5> QED BY <4>1, <5>1, ZenonT(30)
        <4>3. fq = Quotient(op, a, b, l) /\ fr = Remainder(op, a, h)
          BY <2>1, ZenonT(30) DEF fq, fr, nq, nr, is_signed, Quotient, Remainder, op
        <4> QED BY <4>2, <4>3, Zenon DEF rem
      <3>6. div' = [div EXCEPT !.hi = h, !.lo = l, !.busy = FALSE, !.done = TRUE,
                         !.quotient = fq, !.remainder = fr]
        BY <2>4, <2>7, ZenonT(30)
      <3>7. div' \in Divider
        BY <1>6, <2>3, <2>6, <3>5, <3>6, ZenonT(30) DEF Divider
      <3>8. ~div'.busy /\ div'.done /\ div'.quotient = fq /\ div'.remainder = fr
        BY <1>6, <3>6, ZenonT(30) DEF Divider
      <3>9. ex_result' = DivResult(op, a, b)
        <4>1. CASE rem
          BY <1>5, <2>1, <3>5, <3>8, <4>1, ZenonT(30)
        <4>2. CASE ~rem
          BY <1>5, <2>1, <3>5, <3>8, <4>2, ZenonT(30)
        <4> QED BY <4>1, <4>2, ZenonT(30)
      <3>10. DivDone'
        BY <1>1, <3>9, Zenon DEF DivDone, op, a, b
      <3>11. DivBusy' /\ DivPhase'
        BY <1>1, <2>1, <2>5, <3>8, ZenonT(30) DEF DivBusy, DivPhase
      <3> QED BY <1>1, <1>6, <2>5, <3>7, <3>10, <3>11, ZenonT(30) DEF DivTypes
    <2>8. ASSUME c # W - 1
          PROVE  DivTypes' /\ DivPhase' /\ DivBusy' /\ DivDone'
      <3>1. c + 1 \in 0 .. W - 1
        BY <2>2, <2>8, WordSize
      <3>2. div' = [div EXCEPT !.hi = h, !.lo = l, !.count = c + 1]
        BY <2>4, <2>8, ZenonT(30)
      <3>3. div' \in Divider
        BY <1>6, <2>3, <2>6, <3>1, <3>2, ZenonT(30) DEF Divider
      <3>4. /\ div'.hi = h /\ div'.lo = l /\ div'.count = c + 1 /\ div'.divisor = div.divisor
            /\ div'.neg_q = div.neg_q /\ div'.neg_r = div.neg_r
            /\ div'.busy = div.busy /\ div'.done = div.done
        BY <1>6, <3>2, ZenonT(30) DEF Divider
      <3>5. DivBusy'
        BY <1>1, <1>3, <2>1, <2>3, <3>4, ZenonT(30) DEF DivBusy, is_signed, a, b, nq, nr
      <3>6. DivPhase' /\ DivDone'
        BY <1>1, <1>10, <2>1, <2>5, <3>4, ZenonT(30) DEF DivPhase, DivDone
      <3> QED BY <1>1, <1>6, <2>5, <3>3, <3>5, <3>6, ZenonT(30) DEF DivTypes
    <2> QED BY <2>7, <2>8, ZenonT(30)
  <1>11. ASSUME ~div_start, ~div.busy
         PROVE  DivTypes' /\ DivPhase' /\ DivBusy' /\ DivDone'
    <2>1. div' = [div EXCEPT !.done = FALSE]
      BY <1>1, <1>11, ZenonT(30) DEF DivNext
    <2>2. /\ div' \in Divider /\ ~div'.busy /\ ~div'.done
          /\ div'.quotient = div.quotient /\ div'.remainder = div.remainder
      BY <1>6, <1>11, <2>1, ZenonT(30) DEF Divider
    <2>3. div_result_ready' \in BOOLEAN
      BY <1>1, <1>6, Zenon
    <2>4. ex_result' = ex_result \/ ~is_div_op(id_ex.inst)
      BY <1>5, <2>2, Zenon DEF ex_result
    <2>5. DivPhase' /\ DivBusy' /\ DivDone'
      BY <1>1, <1>6, <2>2, <2>4, ZenonT(30) DEF DivPhase, DivBusy, DivDone
    <2> QED BY <2>2, <2>3, <2>5, ZenonT(30) DEF DivTypes
  <1> QED BY <1>7, <1>8, <1>9, <1>10, <1>11, ZenonT(30)

(***************************************************************************)
(* A frozen edge keeps the invariant.                                      *)
(***************************************************************************)

\* A divide stall holds every stage and lets the divider go on (div_stall).
LEMMA FreezeInv ==
  ASSUME Inv, Freeze
  PROVE  Inv'
  <1>1. /\ pc' = pc /\ if_id' = if_id /\ id_ex' = id_ex /\ ex_mem' = ex_mem /\ mem_wb' = mem_wb
        /\ mem' = mem /\ csr' = csr /\ prog' = prog /\ lock_valid' = lock_valid
        /\ reserved_addr' = reserved_addr /\ x' = XAfter
    BY Zenon DEF Freeze, stages
  <1>2. XAfter \in [Regs -> Word] /\ XAfter[0] = 0 /\ \A r \in Regs : ReadReg(r) = XAfter[r]
    BY WriteBackTypes, Zenon
  <1>3. StageTypes' /\ StateTypes'
    BY <1>1, <1>2, Zenon DEF Inv, StageTypes, StateTypes
  <1>4. FetchInv' /\ DecodeInv' /\ ExecuteInv'
    BY <1>1, Zenon DEF Inv, FetchInv, DecodeInv, ExecuteInv
  <1>5. ASSUME NEW r \in Regs, NEW v, Latched(r, v)
        PROVE  v = x'[r] \/ (mem_wb.reg_wen /\ mem_wb.rd = r /\ r # 0)
    BY <1>1, <1>2, <1>5, ZenonT(30) DEF Latched, ReadReg, Inv, StateTypes
  <1>6. id_ex.inst.rs1 \in Regs /\ id_ex.inst.rs2 \in Regs
    BY Zenon DEF Inv, StageTypes, Decoded, Inst
  <1>7. OperandInv'
    BY <1>1, <1>5, <1>6, ZenonT(30) DEF Inv, OperandInv, Latched, Awaited
  <1> QED BY <1>3, <1>4, <1>7, DivideStep, ZenonT(30) DEF Inv

(***************************************************************************)
(* An edge that is not frozen keeps it.                                    *)
(***************************************************************************)

\* Which bits a word can have.
LEMMA BitSets ==
  /\ \A v : Bits(v) \in SUBSET (0 .. W - 1)
  /\ MIE \in 0 .. W - 1 /\ MPIE \in 0 .. W - 1
  <1>1. \A v : Bits(v) \in SUBSET (0 .. W - 1)
    BY Zenon DEF Bits
  <1>2. MIE \in 0 .. W - 1 /\ MPIE \in 0 .. W - 1
    BY WAssumption DEF MIE, MPIE
  <1> QED BY <1>1, <1>2, Zenon

\* The registers of csr_file stay words: through a trap, mret and a write.
LEMMA CsrTypes ==
  ASSUME Inv, NEW timer \in BOOLEAN, NEW external \in BOOLEAN
  PROVE  /\ CsrNext(timer, external, FALSE) \in [Csrs -> Word]
         /\ trap_target_pc(timer, external, FALSE) \in Word
  <1>1. /\ csr \in [Csrs -> Word] /\ id_ex.inst \in Inst /\ id_ex.pc \in Word
        /\ fwd_rs1 \in Word /\ redirect_target_adder \in Word
    BY ExecuteTypes, Zenon DEF Inv, StateTypes, StageTypes, Decoded
  <1>2. /\ id_ex.inst.imm \in Word /\ id_ex.inst.csr \in Csrs /\ id_ex.inst.csr_op \in CsrOps
    BY <1>1, Zenon DEF Inst
  <1>3. {"mstatus", "mepc", "mcause", "mtval", "mtvec"} \subseteq Csrs /\ 0 \in Word
    BY NopTypes, Zenon DEF Csrs
  <1>4. \A S \in SUBSET (0 .. W - 1) : OfBits(S) \in Word
    BY BinaryAssumption, Zenon
  <1>5. trap_cause(timer, external, FALSE) \in Word
    <2>1. /\ CauseExternal \in Word /\ CauseTimer \in Word /\ CauseIllegal \in Word
          /\ CauseLoadAlign \in Word /\ CauseStoreAlign \in Word /\ CauseEcall \in Word
      BY WordSize DEF CauseExternal, CauseTimer, CauseIllegal, CauseLoadAlign, CauseStoreAlign,
         CauseEcall, Interrupt, Word
    <2> QED BY <2>1, Zenon DEF trap_cause
  <1>6. trap_val(timer, external, FALSE) \in Word
    BY <1>1, <1>2, <1>3, Zenon DEF trap_val
  <1>7. ASSUME NEW v \in Word
        PROVE  /\ OfBits((Bits(v) \ {MIE, MPIE}) \cup (IF Bit(v, MIE) THEN {MPIE} ELSE {})) \in Word
               /\ OfBits((Bits(v) \ {MIE}) \cup (IF Bit(v, MPIE) THEN {MIE} ELSE {})) \in Word
    <2>1. (Bits(v) \ {MIE, MPIE}) \cup (IF Bit(v, MIE) THEN {MPIE} ELSE {}) \in SUBSET (0 .. W - 1)
      BY BitSets, Zenon
    <2>2. (Bits(v) \ {MIE}) \cup (IF Bit(v, MPIE) THEN {MIE} ELSE {}) \in SUBSET (0 .. W - 1)
      BY BitSets, Zenon
    <2> QED BY <1>4, <2>1, <2>2, Zenon
  <1>8. ASSUME NEW op \in CsrOps, NEW old \in Word, NEW v \in Word
        PROVE  CsrWrite(op, old, v) \in Word
    <2>1. /\ Bits(old) \cup Bits(v) \in SUBSET (0 .. W - 1)
          /\ Bits(old) \ Bits(v) \in SUBSET (0 .. W - 1)
      BY BitSets, Zenon
    <2>2. OfBits(Bits(old) \cup Bits(v)) \in Word /\ OfBits(Bits(old) \ Bits(v)) \in Word
      BY <1>4, <2>1, Zenon
    <2> QED BY <2>2, Zenon DEF CsrWrite, CsrOps
  <1>9. ASSUME NEW cause \in Word, NEW val \in Word, NEW epc \in Word
        PROVE  CsrAfterTrap(csr, cause, val, epc) \in [Csrs -> Word]
    <2> DEFINE s == OfBits((Bits(csr.mstatus) \ {MIE, MPIE})
                             \cup (IF Bit(csr.mstatus, MIE) THEN {MPIE} ELSE {}))
    <2>1. s \in Word
      BY <1>1, <1>3, <1>7, Zenon
    <2>2. CsrAfterTrap(csr, cause, val, epc) =
            [csr EXCEPT !.mepc = epc, !.mcause = cause, !.mtval = val, !.mstatus = s]
      BY <1>1, <1>3, Zenon DEF CsrAfterTrap, Csrs
    <2> HIDE DEF s
    <2> QED BY <1>1, <1>3, <2>1, <2>2, ZenonT(30)
  <1>10. CsrAfterMret(csr) \in [Csrs -> Word]
    <2> DEFINE s == OfBits((Bits(csr.mstatus) \ {MIE})
                             \cup (IF Bit(csr.mstatus, MPIE) THEN {MIE} ELSE {}))
    <2>1. s \in Word
      BY <1>1, <1>3, <1>7, ZenonT(30)
    <2>2. CsrAfterMret(csr) = [csr EXCEPT !.mstatus = s]
      BY <1>1, <1>3, Zenon DEF CsrAfterMret
    <2> HIDE DEF s
    <2> QED BY <1>1, <1>3, <2>1, <2>2, ZenonT(30)
  <1>11. [csr EXCEPT ![id_ex.inst.csr] =
            CsrWrite(id_ex.inst.csr_op, csr[id_ex.inst.csr],
                     IF id_ex.inst.use_imm THEN id_ex.inst.imm ELSE fwd_rs1)] \in [Csrs -> Word]
    <2>1. (IF id_ex.inst.use_imm THEN id_ex.inst.imm ELSE fwd_rs1) \in Word
      BY <1>1, <1>2, Zenon
    <2>2. CsrWrite(id_ex.inst.csr_op, csr[id_ex.inst.csr],
                     IF id_ex.inst.use_imm THEN id_ex.inst.imm ELSE fwd_rs1) \in Word
      BY <1>1, <1>2, <1>8, <2>1, ZenonT(30)
    <2> QED BY <1>1, <1>2, <2>2, Zenon
  <1>12. CsrNext(timer, external, FALSE) \in [Csrs -> Word]
    BY <1>1, <1>5, <1>6, <1>9, <1>10, <1>11, ZenonT(30) DEF CsrNext
  <1>13. trap_target_pc(timer, external, FALSE) \in Word
    BY <1>1, <1>3, Zenon DEF trap_target_pc
  <1> QED BY <1>12, <1>13, Zenon

\* What the predictors guess is a word.
LEMMA GuessTypes ==
  ASSUME Inv, NEW guess \in Guesses
  PROVE  inst.op = "jalr" => guess.target \in Word
  <1> SUFFICES ASSUME inst.op = "jalr" PROVE guess.target \in Word
    BY Zenon
  <1> HIDE DEF inst
  <1>1. "jalr" # "beq"
    BY Zenon
  <1>2. guess \in {[taken |-> FALSE, target |-> 0]} \cup [taken : {TRUE}, target : RasTargets]
    BY <1>1, Zenon DEF Guesses
  <1>3. CASE guess = [taken |-> FALSE, target |-> 0]
    BY <1>3, NopTypes, Zenon
  <1>4. CASE guess \in [taken : {TRUE}, target : RasTargets]
    BY <1>4, PipelineAssumption, Zenon
  <1> QED BY <1>2, <1>3, <1>4, ZenonT(30)

\* The fetch side (program counter, IF/ID, ID/EX): the instruction in ID is the one
\* the fetch guessed to follow that in EX, and pc the one guessed to follow it.
LEMMA FetchStep ==
  ASSUME Inv, NEW timer \in BOOLEAN, NEW external \in BOOLEAN, NEW guess \in Guesses,
         Advance(timer, external, guess)
  PROVE  prog' \in Programs /\ pc' \in Word /\ if_id' \in Fetched /\ id_ex' \in Decoded
         /\ FetchInv' /\ DecodeInv'
  <1> DEFINE flush == pc_trap_override(timer, external, FALSE)
             taken == if_predicted_taken(guess, FALSE, flush)
             target == if_predicted_target(guess)
             fetched == [valid |-> TRUE, pc |-> pc, inst |-> inst, predicted_taken |-> taken,
                         predicted_target |-> target]
             decoded == [valid |-> if_id.valid, pc |-> if_id.pc, inst |-> if_id.inst,
                         predicted_taken |-> if_id.predicted_taken,
                         predicted_target |-> if_id.predicted_target,
                         rs1 |-> ReadReg(if_id.inst.rs1), rs2 |-> ReadReg(if_id.inst.rs2)]
  <1>1. /\ prog' = prog /\ prog \in Programs /\ pc \in Word /\ if_id \in Fetched
        /\ inst = Fetch(prog, pc)
    BY Zenon DEF Advance, Inv, StageTypes, inst
  <1>2. inst \in Inst /\ inst.imm \in Word /\ inst.size \in {1, 2}
    BY <1>1, FetchTypes, ControlTypes, ZenonT(30)
  <1>3. target \in Word
    BY <1>1, <1>2, GuessTypes, Sums, ZenonT(30) DEF if_predicted_target
  <1>4. taken \in BOOLEAN
    BY Zenon DEF if_predicted_taken
  <1>5. taken => \/ inst.op \in {"beq", "jal"} /\ target = Wrap(pc + inst.imm)
                 \/ inst.op = "jalr"
    BY Zenon DEF if_predicted_taken, if_predicted_target
  <1>6. /\ if_id' = IF pc_sel \/ flush THEN IfIdClear ELSE IF stall THEN if_id ELSE fetched
        /\ id_ex' = IF pc_sel \/ stall \/ flush THEN IdExClear ELSE decoded
    BY Zenon DEF Advance, IfIdNext, IdExNext
  <1>7. pc' = IF stall /\ ~flush THEN pc
              ELSE IF flush THEN trap_target_pc(timer, external, FALSE)
              ELSE IF pc_sel THEN ex_redirect_target
              ELSE IF taken THEN target ELSE Wrap(pc + inst.size)
    BY Zenon DEF Advance, PcNext
  <1> HIDE DEF flush, taken, target, inst
  <1>8. fetched \in Fetched
    BY <1>1, <1>2, <1>3, <1>4, ZenonT(30) DEF Fetched
  <1>9. /\ if_id.valid \in BOOLEAN /\ if_id.pc \in Word /\ if_id.inst \in Inst
        /\ if_id.predicted_taken \in BOOLEAN /\ if_id.predicted_target \in Word
    BY <1>1, Zenon DEF Fetched
  <1>10. ReadReg(if_id.inst.rs1) \in Word /\ ReadReg(if_id.inst.rs2) \in Word
    BY <1>9, WriteBackTypes, ControlTypes, ZenonT(30)
  <1>11. decoded \in Decoded
    BY <1>9, <1>10, Zenon DEF Decoded
  <1>12. IfIdClear \in Fetched /\ IdExClear \in Decoded /\ ~IfIdClear.valid /\ ~IdExClear.valid
    BY NopTypes, Zenon DEF IfIdClear, IdExClear, Fetched, Decoded
  <1>13. if_id' \in Fetched /\ id_ex' \in Decoded
    BY <1>1, <1>6, <1>8, <1>11, <1>12, ZenonT(30)
  <1>14. pc' \in Word
    <2>1. ex_redirect_target \in Word
      BY ExecuteTypes, Zenon DEF ex_redirect_target
    <2> QED BY <1>1, <1>2, <1>3, <1>7, <2>1, CsrTypes, Sums, ZenonT(30)
  <1>15. FetchInv'
    <2>1. CASE pc_sel \/ flush
      BY <1>6, <1>12, <2>1, ZenonT(30) DEF FetchInv
    <2>2. ASSUME ~(pc_sel \/ flush), stall PROVE FetchInv'
      BY <1>1, <1>6, <1>7, <2>2, ZenonT(30) DEF FetchInv, Inv
    <2>3. ASSUME ~(pc_sel \/ flush), ~stall PROVE FetchInv'
      <3>1. if_id' = fetched /\ pc' = IF taken THEN target ELSE Wrap(pc + inst.size)
        BY <1>6, <1>7, <2>3, Zenon
      <3>2. /\ if_id'.valid /\ if_id'.pc = pc /\ if_id'.inst = inst
            /\ if_id'.predicted_taken = taken /\ if_id'.predicted_target = target
        BY <3>1, Zenon
      <3> QED BY <1>1, <1>5, <3>1, <3>2, ZenonT(30) DEF FetchInv, Guessed, Follow
    <2> QED BY <2>1, <2>2, <2>3, ZenonT(30)
  <1>16. DecodeInv'
    <2>1. CASE pc_sel \/ stall \/ flush
      BY <1>6, <1>12, <2>1, Zenon DEF DecodeInv
    <2>2. ASSUME ~(pc_sel \/ stall \/ flush), if_id.valid PROVE DecodeInv'
      <3>1. id_ex' = decoded /\ if_id' = fetched
        BY <1>6, <2>2, Zenon
      <3>2. /\ id_ex'.valid /\ id_ex'.pc = if_id.pc /\ id_ex'.inst = if_id.inst
            /\ id_ex'.predicted_taken = if_id.predicted_taken
            /\ id_ex'.predicted_target = if_id.predicted_target
            /\ if_id'.valid /\ if_id'.pc = pc
        BY <2>2, <3>1, Zenon
      <3>3. if_id.inst = Fetch(prog, if_id.pc) /\ Guessed(if_id) /\ pc = Follow(if_id)
        BY <2>2, Zenon DEF Inv, FetchInv
      <3> QED BY <1>1, <3>2, <3>3, Zenon DEF DecodeInv, Guessed, Follow
    <2>3. ASSUME ~(pc_sel \/ stall \/ flush), ~if_id.valid PROVE DecodeInv'
      <3>1. if_id = IfIdClear
        BY <2>3, Zenon DEF Inv, FetchInv
      <3>2. decoded = IdExClear
        BY <3>1, Zenon DEF IfIdClear, IdExClear, Nop, ReadReg
      <3> QED BY <1>6, <1>12, <2>3, <3>2, ZenonT(30) DEF DecodeInv
    <2> QED BY <2>1, <2>2, <2>3, Zenon
  <1> QED BY <1>1, <1>13, <1>14, <1>15, <1>16, ZenonT(30)

\* MEM and WB, the registers, memory, CSRs and reservation: what a step puts into
\* MEM has control bits that belong together and, if it accesses memory, an aligned
\* address, because a misaligned one traps in EX.
LEMMA ExecuteStep ==
  ASSUME Inv, NEW timer \in BOOLEAN, NEW external \in BOOLEAN, NEW guess \in Guesses,
         Advance(timer, external, guess)
  PROVE  ex_mem' \in Executed /\ mem_wb' \in Finished /\ StateTypes' /\ ExecuteInv'
  <1> DEFINE flush == pc_trap_override(timer, external, FALSE)
             trap == trap_taken(timer, external, FALSE)
             i == id_ex.inst
             new == [valid |-> id_ex.valid, inst |-> id_ex.inst, pc |-> id_ex.pc,
                     alu |-> actual_ex_result, rs2 |-> fwd_rs2, rd |-> id_ex.inst.rd,
                     reg_wen |-> id_ex.valid /\ reg_wen(id_ex.inst),
                     mem_rw |-> mem_rw(id_ex.inst), wb_sel |-> wb_sel(id_ex.inst),
                     atomic |-> atomic(id_ex.inst), size |-> id_ex.inst.size]
             empty == [ex_mem EXCEPT !.reg_wen = FALSE, !.mem_rw = FALSE, !.atomic = "none",
                         !.inst = Nop, !.valid = FALSE]
  <1>1. /\ ex_mem' = IF flush THEN empty ELSE new
        /\ mem_wb' = MemWbNext /\ x' = XAfter /\ mem' = MemAfter
        /\ csr' = CsrNext(timer, external, FALSE)
        /\ lock_valid' = LockAfter(trap) /\ reserved_addr' = ReservedAfter(trap)
    BY Zenon DEF Advance, ExMemNext
  <1>2. /\ i \in Inst /\ id_ex.pc \in Word /\ id_ex.valid \in BOOLEAN
        /\ actual_ex_result \in Word /\ fwd_rs2 \in Word /\ redirect_target_adder \in Word
    BY ExecuteTypes, Zenon DEF Inv, StageTypes, Decoded
  <1>3. /\ wb_sel(i) \in {"alu", "mem", "link"} /\ atomic(i) \in {"lr", "sc", "amo", "none"}
        /\ (id_ex.valid /\ reg_wen(i)) \in BOOLEAN /\ mem_rw(i) \in BOOLEAN
        /\ i.rd \in Regs /\ i.size \in {1, 2}
    BY <1>2, ControlTypes, Zenon
  <1>4. ex_mem \in Executed
    BY Zenon DEF Inv, StageTypes
  <1>5. /\ empty \in Executed /\ ~empty.reg_wen /\ ~empty.mem_rw /\ empty.atomic = "none"
    BY <1>4, NopTypes, Zenon DEF Executed
  <1>6. /\ new.alu = actual_ex_result /\ new.reg_wen = (id_ex.valid /\ reg_wen(i))
        /\ new.mem_rw = mem_rw(i) /\ new.wb_sel = wb_sel(i) /\ new.atomic = atomic(i)
    BY Zenon
  <1>7. new \in Executed
    <2> DEFINE w == id_ex.valid /\ reg_wen(id_ex.inst)  m == mem_rw(id_ex.inst)
               s == wb_sel(id_ex.inst)  t == atomic(id_ex.inst)
               e == actual_ex_result  f == fwd_rs2
    <2>1. /\ w \in BOOLEAN /\ m \in BOOLEAN /\ s \in {"alu", "mem", "link"} /\ e \in Word
          /\ t \in {"lr", "sc", "amo", "none"} /\ f \in Word
      BY <1>2, <1>3, Zenon
    <2>2. new = [valid |-> id_ex.valid, inst |-> id_ex.inst, pc |-> id_ex.pc,
                 alu |-> e, rs2 |-> f, rd |-> id_ex.inst.rd, reg_wen |-> w, mem_rw |-> m,
                 wb_sel |-> s, atomic |-> t, size |-> id_ex.inst.size]
      BY Zenon
    <2> HIDE DEF w, m, s, t, e, f, new
    <2> QED BY <1>2, <1>3, <2>1, <2>2, ZenonT(30) DEF Executed
  <1> HIDE DEF new, empty
  <1>8. ex_mem' \in Executed
    BY <1>1, <1>5, <1>7, ZenonT(30)
  <1>9. mem_wb' \in Finished
    <2> DEFINE d == IF is_load \/ ex_mem.atomic = "amo" THEN mem[ex_mem.alu] ELSE 0
    <2>1. d \in Word /\ final_alu_to_wb \in Word
      BY MemoryTypes, NopTypes, Zenon
    <2>2. mem_wb' = [valid |-> ex_mem.valid, alu |-> final_alu_to_wb, data |-> d,
                     pc |-> ex_mem.pc, rd |-> ex_mem.rd, reg_wen |-> ex_mem.reg_wen,
                     wb_sel |-> ex_mem.wb_sel, size |-> ex_mem.size]
      BY <1>1, Zenon DEF MemWbNext
    <2> HIDE DEF d, final_alu_to_wb
    <2> QED BY <1>4, <2>1, <2>2, ZenonT(30) DEF Executed, Finished
  <1>10. StateTypes'
    <2>1. x' \in [Regs -> Word] /\ x'[0] = 0 /\ mem' \in [Aligned -> Word] /\ csr' \in [Csrs -> Word]
      BY <1>1, WriteBackTypes, MemoryTypes, CsrTypes, ZenonT(30)
    <2>2. lock_valid' \in BOOLEAN
      BY <1>1, Zenon DEF LockAfter, Inv, StateTypes
    <2>3. reserved_addr' \in Word
      BY <1>1, <1>4, Zenon DEF ReservedAfter, Inv, StateTypes, Executed
    <2> QED BY <2>1, <2>2, <2>3, ZenonT(30) DEF StateTypes
  <1>11. ExecuteInv'
    <2>1. CASE flush
      <3>1. ~ex_mem'.reg_wen /\ ~ex_mem'.mem_rw /\ ex_mem'.atomic = "none"
        BY <1>1, <1>5, <2>1, ZenonT(30)
      <3> QED BY <3>1, Zenon DEF ExecuteInv
    <2>2. CASE ~flush
      <3>1. ex_mem' = new
        BY <1>1, <2>2, Zenon
      <3>2. ~id_ex.valid => i = Nop
        <4>1. IdExClear.inst = Nop
          BY Zenon DEF IdExClear
        <4> QED BY <4>1, Zenon DEF Inv, DecodeInv
      <3>3. Nop.op = "imm"
        BY Zenon DEF Nop
      <3>4. id_ex.valid => ~misalign_load(i, redirect_target_adder)
                           /\ ~misalign_store(i, redirect_target_adder)
        BY <2>2, Zenon DEF pc_trap_override, trap_taken, fault_ld_align, fault_st_align
      <3>5. ASSUME i.op \in {"load", "lr", "amo", "store", "sc"}
            PROVE  actual_ex_result \in Aligned /\ id_ex.valid
        <4>1. id_ex.valid
          BY <3>2, <3>3, <3>5, ZenonT(30)
        <4>2. actual_ex_result = redirect_target_adder
          BY <3>5, Zenon DEF actual_ex_result, ex_result, is_div_op
        <4>3. redirect_target_adder % 2 = 0
          BY <3>4, <3>5, <4>1, ZenonT(30) DEF misalign_load, misalign_store
        <4> QED BY <1>2, <4>1, <4>2, <4>3, ZenonT(30) DEF Aligned
      <3>6. /\ atomic(i) = "sc" => wb_sel(i) = "alu"
            /\ atomic(i) \in {"lr", "amo"} =>
                 reg_wen(i) /\ wb_sel(i) = "mem" /\ i.op \in {"load", "lr", "amo", "store", "sc"}
            /\ reg_wen(i) /\ wb_sel(i) = "mem" => i.op \in {"load", "lr", "amo", "store", "sc"}
            /\ mem_rw(i) => i.op \in {"load", "lr", "amo", "store", "sc"}
        BY Zenon DEF atomic, wb_sel, reg_wen, mem_rw
      <3> QED BY <1>6, <3>1, <3>5, <3>6, ZenonT(30) DEF ExecuteInv
    <2> QED BY <2>1, <2>2, Zenon
  <1> QED BY <1>8, <1>9, <1>10, <1>11, Zenon

\* ID reads a register through the bypass, and the interlock keeps an instruction
\* out of EX whose operand a load in EX has still to fetch (hazard_unit).
LEMMA OperandStep ==
  ASSUME Inv, NEW timer \in BOOLEAN, NEW external \in BOOLEAN, NEW guess \in Guesses,
         Advance(timer, external, guess)
  PROVE  OperandInv'
  <1> DEFINE flush == pc_trap_override(timer, external, FALSE)
  <1>1. /\ id_ex' = IdExNext(flush) /\ ex_mem' = ExMemNext(flush) /\ x' = XAfter
    BY Zenon DEF Advance
  <1>2. XAfter[0] = 0 /\ \A r \in Regs : ReadReg(r) = XAfter[r]
    BY WriteBackTypes, Zenon
  <1> HIDE DEF flush, XAfter
  <1>3. CASE pc_sel \/ stall \/ flush
    <2>1. id_ex' = IdExClear
      BY <1>1, <1>3, Zenon DEF IdExNext
    <2>2. id_ex'.rs1 = 0 /\ id_ex'.rs2 = 0 /\ id_ex'.inst.rs1 = 0 /\ id_ex'.inst.rs2 = 0
      BY <2>1, Zenon DEF IdExClear, Nop
    <2>3. x'[0] = 0
      BY <1>1, <1>2, Zenon
    <2> QED BY <2>2, <2>3, Zenon DEF OperandInv, Latched, Awaited
  <1>4. CASE ~(pc_sel \/ stall \/ flush)
    <2>1. /\ id_ex'.inst = if_id.inst /\ id_ex'.rs1 = ReadReg(if_id.inst.rs1)
          /\ id_ex'.rs2 = ReadReg(if_id.inst.rs2)
      BY <1>1, <1>4, Zenon DEF IdExNext
    <2>2. /\ ex_mem'.reg_wen = (id_ex.valid /\ reg_wen(id_ex.inst))
          /\ ex_mem'.wb_sel = wb_sel(id_ex.inst) /\ ex_mem'.rd = id_ex.inst.rd
      BY <1>1, <1>4, Zenon DEF ExMemNext
    <2>3. if_id.inst.rs1 \in Regs /\ if_id.inst.rs2 \in Regs
      BY Zenon DEF Inv, StageTypes, Fetched, Inst
    <2>4. id_ex'.rs1 = x'[id_ex'.inst.rs1] /\ id_ex'.rs2 = x'[id_ex'.inst.rs2]
      BY <1>1, <1>2, <2>1, <2>3, ZenonT(30)
    <2>5. ~stall
      BY <1>4, Zenon
    <2>6. ASSUME NEW r, ex_mem'.reg_wen, ex_mem'.wb_sel = "mem", ex_mem'.rd = r, r # 0
          PROVE  /\ ~(rs1_used(if_id.inst) /\ r = if_id.inst.rs1)
                 /\ ~(rs2_used(if_id.inst) /\ r = if_id.inst.rs2)
      BY <2>2, <2>5, <2>6, ZenonT(30) DEF stall, id_ex_mem_read
    <2> QED BY <2>1, <2>4, <2>6, ZenonT(30) DEF OperandInv, Latched, Awaited
  <1> QED BY <1>3, <1>4, Zenon

\* The divider is at rest whenever the pipeline moves: the result leaves with the
\* instruction that asked for it (div_result_ready).
LEMMA DivideRests ==
  ASSUME Inv, NEW timer \in BOOLEAN, NEW external \in BOOLEAN, NEW guess \in Guesses,
         Advance(timer, external, guess)
  PROVE  DivTypes' /\ DivPhase' /\ DivBusy' /\ DivDone'
  <1>1. ~div_stall /\ div' = DivNext /\ div_result_ready' = DivReadyNext(FALSE)
    BY Zenon DEF Advance
  <1>2. ~div.busy /\ ~div.done /\ ~div_start
    BY <1>1, Zenon DEF Inv, DivPhase, div_stall, div_start
  <1>3. div' = [div EXCEPT !.done = FALSE] /\ div \in Divider
    BY <1>1, <1>2, ZenonT(30) DEF DivNext, Inv, DivTypes
  <1>4. div' \in Divider /\ ~div'.busy /\ ~div'.done
    BY <1>2, <1>3, ZenonT(30) DEF Divider
  <1>5. div_result_ready' = FALSE
    BY <1>1, <1>2, ZenonT(30) DEF DivReadyNext, Inv, DivTypes
  <1> QED BY <1>4, <1>5, Zenon DEF DivTypes, DivPhase, DivBusy, DivDone

\* An edge that moves the pipeline keeps the invariant.
LEMMA AdvanceInv ==
  ASSUME Inv, NEW timer \in BOOLEAN, NEW external \in BOOLEAN, NEW guess \in Guesses,
         Advance(timer, external, guess)
  PROVE  Inv'
  BY FetchStep, ExecuteStep, OperandStep, DivideRests, ZenonT(30) DEF Inv, StageTypes

\* Reset establishes the invariant.
LEMMA InitInv == Init => Inv
  <1> SUFFICES ASSUME Init PROVE Inv
    BY Zenon
  <1>1. IfIdClear \in Fetched /\ IdExClear \in Decoded /\ ~IfIdClear.valid /\ ~IdExClear.valid
    BY NopTypes, ZenonT(30) DEF IfIdClear, IdExClear, Fetched, Decoded
  <1>2. ExMemClear \in Executed /\ MemWbClear \in Finished
    BY NopTypes DEF ExMemClear, MemWbClear, Executed, Finished, Regs
  <1>3. StageTypes
    BY <1>1, <1>2, NopTypes, ZenonT(30) DEF Init, StageTypes
  <1>4. StateTypes
    <2>1. x \in [Regs -> Word] /\ x[0] = 0
      BY NopTypes, PipelineAssumption, ZenonT(30) DEF Init
    <2>2. CsrInit \in [Csrs -> Word]
      BY NopTypes, Zenon DEF CsrInit
    <2> QED BY <2>1, <2>2, NopTypes, PipelineAssumption, ZenonT(30) DEF Init, StateTypes
  <1>5. DivIdle \in Divider /\ ~DivIdle.busy /\ ~DivIdle.done
    BY NopTypes, WordSize, SMTT(30) DEF DivIdle, Divider
  <1>6. DivTypes /\ DivPhase /\ DivBusy /\ DivDone
    BY <1>5, ZenonT(30) DEF Init, DivTypes, DivPhase, DivBusy, DivDone
  <1>7. FetchInv /\ DecodeInv
    BY <1>1, Zenon DEF Init, FetchInv, DecodeInv
  <1>8. OperandInv /\ ExecuteInv
    <2>1. id_ex.inst.rs1 = 0 /\ id_ex.inst.rs2 = 0 /\ id_ex.rs1 = 0 /\ id_ex.rs2 = 0 /\ x[0] = 0
      BY ZenonT(30) DEF Init, IdExClear, Nop
    <2>2. ~ex_mem.reg_wen /\ ~ex_mem.mem_rw /\ ex_mem.atomic = "none"
      BY ZenonT(30) DEF Init, ExMemClear
    <2>3. ExecuteInv
      BY <2>2, Zenon DEF ExecuteInv
    <2> QED BY <2>1, <2>2, <2>3, ZenonT(30) DEF OperandInv, Latched, Awaited
  <1> QED BY <1>3, <1>4, <1>6, <1>7, <1>8, ZenonT(30) DEF Inv

\* In every reachable state the stages hold consecutive instructions of the guessed
\* path, operands read early are forwarded or still right, and the divider is part
\* of the way to the quotient of the instruction in EX (cpu.v, hazard_unit,
\* div_unit).
THEOREM PipelineInvariant == Spec => []Inv
  <1>1. ASSUME Inv, Next PROVE Inv'
    BY <1>1, NextCases, FreezeInv, AdvanceInv, ZenonT(30)
  <1>2. ASSUME Inv, UNCHANGED vars PROVE Inv'
    <2>1. /\ prog' = prog /\ pc' = pc /\ if_id' = if_id /\ id_ex' = id_ex /\ ex_mem' = ex_mem
          /\ mem_wb' = mem_wb /\ x' = x /\ mem' = mem /\ csr' = csr /\ lock_valid' = lock_valid
          /\ reserved_addr' = reserved_addr /\ div' = div /\ div_result_ready' = div_result_ready
      BY <1>2, ZenonT(30) DEF vars, stages
    <2>2. StageTypes' /\ StateTypes' /\ DivTypes' /\ FetchInv' /\ DecodeInv' /\ ExecuteInv'
      BY <1>2, <2>1, ZenonT(30)
         DEF Inv, StageTypes, StateTypes, DivTypes, FetchInv, DecodeInv, ExecuteInv
    <2>3. OperandInv' /\ DivPhase'
      BY <1>2, <2>1, ZenonT(30) DEF Inv, OperandInv, DivPhase, Latched, Awaited
    <2>4. alu_a' = alu_a /\ alu_b' = alu_b
      <3>1. sc_successful' = sc_successful /\ final_alu_to_wb' = final_alu_to_wb
            /\ wb_data' = wb_data
        BY <2>1, Zenon DEF sc_successful, final_alu_to_wb, wb_data
      <3>2. ex_mem_forward_data' = ex_mem_forward_data /\ ex_mem_fwdable' = ex_mem_fwdable
        BY <2>1, <3>1, ZenonT(30) DEF ex_mem_forward_data, ex_mem_fwdable
      <3>3. fwd_rs1' = fwd_rs1 /\ fwd_rs2' = fwd_rs2
        BY <2>1, <3>1, <3>2, ZenonT(30) DEF fwd_rs1, fwd_rs2, Forward
      <3> QED BY <2>1, <3>3, ZenonT(30) DEF alu_a, alu_b
    <2>5. ex_result' = ex_result /\ is_signed' = is_signed /\ a_abs' = a_abs /\ b_abs' = b_abs
      BY <2>1, <2>4, ZenonT(30) DEF ex_result, redirect_target_adder, is_signed, a_abs, b_abs
    <2>6. DivBusy' /\ DivDone'
      BY <1>2, <2>1, <2>4, <2>5, ZenonT(30) DEF Inv, DivBusy, DivDone
    <2> QED BY <2>2, <2>3, <2>6, ZenonT(30) DEF Inv
  <1> QED BY <1>1, <1>2, InitInv, PTL DEF Spec

(***************************************************************************)
(* The machine that executes one instruction at a time.                    *)
(***************************************************************************)

\* Isa and Pipeline mean the same by an instruction and by its operations.
LEMMA SameOperators ==
  /\ \A p, a : Machine!Fetch(p, a) = Fetch(p, a)
  /\ \A n : Machine!Wrap(n) = Wrap(n)
  /\ \A j : Machine!Imm(j) = Imm(j)
  /\ \A j, a : Machine!misalign_load(j, a) <=> misalign_load(j, a)
  /\ \A j, a : Machine!misalign_store(j, a) <=> misalign_store(j, a)
  /\ \A v, b : Machine!Bit(v, b) <=> Bit(v, b)
  /\ Machine!MIE = MIE /\ Machine!MTIE = MTIE /\ Machine!MEIE = MEIE
  /\ Machine!NoAddr = NoAddr /\ Machine!CsrInit = CsrInit
  <1>1. \A p, a : Machine!Fetch(p, a) = Fetch(p, a)
    BY Zenon DEF Machine!Fetch, Fetch, Machine!Zero, Zero, Machine!Nop, Nop
  <1>2. \A n : Machine!Wrap(n) = Wrap(n)
    BY Zenon DEF Machine!Wrap, Wrap
  <1>3. \A j : Machine!Imm(j) = Imm(j)
    BY Zenon DEF Machine!Imm, Imm, Machine!atomic, atomic
  <1>4. /\ \A j, a : Machine!misalign_load(j, a) <=> misalign_load(j, a)
        /\ \A j, a : Machine!misalign_store(j, a) <=> misalign_store(j, a)
    BY Zenon DEF Machine!misalign_load, misalign_load, Machine!misalign_store, misalign_store
  <1>5. \A v, b : Machine!Bit(v, b) <=> Bit(v, b)
    BY Zenon DEF Machine!Bit, Bit
  <1>6. /\ Machine!MIE = MIE /\ Machine!MTIE = MTIE /\ Machine!MEIE = MEIE
        /\ Machine!NoAddr = NoAddr /\ Machine!CsrInit = CsrInit
    BY ZenonT(30) DEF Machine!MIE, MIE, Machine!MTIE, MTIE, Machine!MEIE, MEIE, Machine!NoAddr, NoAddr,
       Machine!CsrInit, CsrInit, Machine!Csrs, Csrs
  <1> QED BY <1>1, <1>2, <1>3, <1>4, <1>5, <1>6, ZenonT(30)

\* The same for divisions, traps and CSR accesses.
LEMMA SameEffects ==
  /\ \A op, a, b : Machine!DivResult(op, a, b) = DivResult(op, a, b)
  /\ \A c, cause, val, epc :
       Machine!CsrAfterTrap(c, cause, val, epc) = CsrAfterTrap(c, cause, val, epc)
  /\ \A c : Machine!CsrAfterMret(c) = CsrAfterMret(c)
  /\ \A op, old, v : Machine!CsrWrite(op, old, v) = CsrWrite(op, old, v)
  /\ Machine!CauseExternal = CauseExternal /\ Machine!CauseTimer = CauseTimer
  /\ Machine!CauseIllegal = CauseIllegal /\ Machine!CauseLoadAlign = CauseLoadAlign
  /\ Machine!CauseStoreAlign = CauseStoreAlign /\ Machine!CauseEcall = CauseEcall
  <1>1. \A S : Machine!OfBits(S) = OfBits(S)
    BY Zenon DEF Machine!OfBits, OfBits, Machine!MapThenSumSet, MapThenSumSet,
       Machine!MapThenFoldSet, MapThenFoldSet
  <1>2. \A v : Machine!Bits(v) = Bits(v)
    BY ZenonT(30) DEF Machine!Bits, Bits, Machine!Bit, Bit
  <1>3. ASSUME NEW op, NEW a, NEW b
        PROVE  Machine!DivResult(op, a, b) = DivResult(op, a, b)
    BY ZenonT(30) DEF Machine!DivResult, DivResult, Machine!Signed, Signed, Machine!Sign, Sign,
       Machine!Abs, Abs, Machine!Wrap, Wrap
  <1>4. \A c, cause, val, epc :
          Machine!CsrAfterTrap(c, cause, val, epc) = CsrAfterTrap(c, cause, val, epc)
    BY <1>1, <1>2, ZenonT(30) DEF Machine!CsrAfterTrap, CsrAfterTrap, Machine!Bit, Bit, Machine!MIE,
       MIE, Machine!MPIE, MPIE
  <1>5. \A c : Machine!CsrAfterMret(c) = CsrAfterMret(c)
    BY <1>1, <1>2, Zenon DEF Machine!CsrAfterMret, CsrAfterMret, Machine!Bit, Bit, Machine!MIE,
       MIE, Machine!MPIE, MPIE
  <1>6. \A op, old, v : Machine!CsrWrite(op, old, v) = CsrWrite(op, old, v)
    BY <1>1, <1>2, Zenon DEF Machine!CsrWrite, CsrWrite
  <1>7. /\ Machine!CauseExternal = CauseExternal /\ Machine!CauseTimer = CauseTimer
        /\ Machine!CauseIllegal = CauseIllegal /\ Machine!CauseLoadAlign = CauseLoadAlign
        /\ Machine!CauseStoreAlign = CauseStoreAlign /\ Machine!CauseEcall = CauseEcall
    BY ZenonT(30) DEF Machine!CauseExternal, CauseExternal, Machine!CauseTimer, CauseTimer,
       Machine!CauseIllegal, CauseIllegal, Machine!CauseLoadAlign, CauseLoadAlign,
       Machine!CauseStoreAlign, CauseStoreAlign, Machine!CauseEcall, CauseEcall,
       Machine!Interrupt, Interrupt
  <1> QED BY <1>3, <1>4, <1>5, <1>6, <1>7, ZenonT(30)

(***************************************************************************)
(* What a step of the pipeline does to the state software sees.            *)
(***************************************************************************)

\* What was in MEM is in WB, so what software saw through both is what it sees
\* through WB.
LEMMA WriteBackMoves ==
  ASSUME Inv, NEW timer \in BOOLEAN, NEW external \in BOOLEAN, NEW guess \in Guesses,
         Advance(timer, external, guess)
  PROVE  XAfter' = ArchX
  <1>1. /\ mem_wb' = MemWbNext /\ x' = XAfter
    BY Zenon DEF Advance
  <1> DEFINE d == IF is_load \/ ex_mem.atomic = "amo" THEN mem[ex_mem.alu] ELSE 0
  <1>2. /\ mem_wb'.reg_wen = ex_mem.reg_wen /\ mem_wb'.rd = ex_mem.rd
        /\ mem_wb'.wb_sel = ex_mem.wb_sel /\ mem_wb'.alu = final_alu_to_wb
        /\ mem_wb'.data = d /\ mem_wb'.pc = ex_mem.pc /\ mem_wb'.size = ex_mem.size
    BY <1>1, ZenonT(30) DEF MemWbNext
  <1>3. ex_mem.wb_sel \in {"alu", "mem", "link"}
    BY ZenonT(30) DEF Inv, StageTypes, Executed
  <1>4. ex_mem.reg_wen => wb_data' = MemResult
    <2> SUFFICES ASSUME ex_mem.reg_wen PROVE wb_data' = MemResult
      BY Zenon
    <2>1. CASE ex_mem.wb_sel = "alu"
      BY <1>2, <2>1, ZenonT(30) DEF wb_data, MemResult
    <2>2. CASE ex_mem.wb_sel = "mem"
      <3>1. d = mem[ex_mem.alu]
        BY <2>2, Zenon DEF is_load
      <3> HIDE DEF d
      <3> QED BY <1>2, <2>2, <3>1, ZenonT(30) DEF wb_data, MemResult
    <2>3. CASE ex_mem.wb_sel = "link"
      BY <1>2, <2>3, ZenonT(30) DEF wb_data, MemResult
    <2> QED BY <1>3, <2>1, <2>2, <2>3, ZenonT(30)
  <1>5. XAfter' = IF mem_wb'.reg_wen /\ mem_wb'.rd # 0
                  THEN [x' EXCEPT ![mem_wb'.rd] = wb_data'] ELSE x'
    BY Zenon DEF XAfter
  <1> QED BY <1>1, <1>2, <1>4, <1>5, ZenonT(30) DEF ArchX

\* A trap or mret in EX: what is in MEM completes, nothing younger does.
LEMMA Flushed ==
  ASSUME Inv, NEW timer \in BOOLEAN, NEW external \in BOOLEAN, NEW guess \in Guesses,
         Advance(timer, external, guess), pc_trap_override(timer, external, FALSE)
  PROVE  /\ ArchX' = ArchX /\ MemAfter' = MemAfter
         /\ ArchPc' = trap_target_pc(timer, external, FALSE)
         /\ ArchResv' = IF trap_taken(timer, external, FALSE) THEN NoAddr ELSE ArchResv
  <1> DEFINE trap == trap_taken(timer, external, FALSE)
  <1>1. /\ if_id' = IfIdClear /\ id_ex' = IdExClear /\ mem' = MemAfter
        /\ ex_mem' = [ex_mem EXCEPT !.reg_wen = FALSE, !.mem_rw = FALSE, !.atomic = "none",
                        !.inst = Nop, !.valid = FALSE]
        /\ pc' = trap_target_pc(timer, external, FALSE)
        /\ lock_valid' = LockAfter(trap) /\ reserved_addr' = ReservedAfter(trap)
    BY Zenon DEF Advance, IfIdNext, IdExNext, ExMemNext, PcNext
  <1>2. ex_mem \in Executed /\ ~IfIdClear.valid /\ ~IdExClear.valid
    BY Zenon DEF Inv, StageTypes, IfIdClear, IdExClear
  <1>3. ~ex_mem'.reg_wen /\ ~ex_mem'.mem_rw /\ ex_mem'.atomic = "none"
    BY <1>1, <1>2, ZenonT(30) DEF Executed
  <1>4. ArchX' = ArchX
    BY <1>3, WriteBackMoves, Zenon DEF ArchX
  <1>5. MemAfter' = MemAfter
    <2>1. MemAfter' = IF store_commits' \/ ex_mem'.atomic = "amo"
                      THEN [mem' EXCEPT ![ex_mem'.alu] = ex_mem'.rs2] ELSE mem'
      BY Zenon DEF MemAfter
    <2>2. "none" # "amo" /\ ~store_commits'
      BY <1>3, Zenon DEF store_commits
    <2> QED BY <1>1, <1>3, <2>1, <2>2, ZenonT(30)
  <1>6. ArchPc' = pc'
    BY <1>1, <1>2, ZenonT(30) DEF ArchPc
  <1>7. LockAfter(FALSE)' = lock_valid' /\ ReservedAfter(FALSE)' = reserved_addr'
    BY <1>3, Zenon DEF LockAfter, ReservedAfter
  <1>8. ArchResv' = IF LockAfter(trap) THEN ReservedAfter(trap) ELSE NoAddr
    <2>1. ArchResv' = IF LockAfter(FALSE)' THEN ReservedAfter(FALSE)' ELSE NoAddr
      BY Zenon DEF ArchResv
    <2> QED BY <1>1, <1>7, <2>1, ZenonT(30)
  <1>9. ArchResv' = IF trap THEN NoAddr ELSE ArchResv
    <2>1. CASE trap
      BY <1>8, <2>1, ZenonT(30) DEF LockAfter
    <2>2. CASE ~trap
      <3>1. LockAfter(trap) = LockAfter(FALSE) /\ ReservedAfter(trap) = ReservedAfter(FALSE)
        BY <2>2, Zenon DEF LockAfter, ReservedAfter
      <3> QED BY <1>8, <2>2, <3>1, ZenonT(30) DEF ArchResv
    <2> QED BY <2>1, <2>2, ZenonT(30)
  <1> QED BY <1>1, <1>4, <1>5, <1>6, <1>9, ZenonT(30)

\* The instruction EX holds, as it enters MEM.
Entering ==
  [valid |-> id_ex.valid, inst |-> id_ex.inst, pc |-> id_ex.pc, alu |-> actual_ex_result,
   rs2 |-> fwd_rs2, rd |-> id_ex.inst.rd, reg_wen |-> id_ex.valid /\ reg_wen(id_ex.inst),
   mem_rw |-> mem_rw(id_ex.inst), wb_sel |-> wb_sel(id_ex.inst),
   atomic |-> atomic(id_ex.inst), size |-> id_ex.inst.size]

\* An edge that moves EX on without a trap or mret: the parts all cases share.
LEMMA Moves ==
  ASSUME Inv, NEW timer \in BOOLEAN, NEW external \in BOOLEAN, NEW guess \in Guesses,
         Advance(timer, external, guess), ~pc_trap_override(timer, external, FALSE)
  PROVE  /\ ex_mem' = Entering
         /\ ex_mem'.reg_wen = (id_ex.valid /\ reg_wen(id_ex.inst))
         /\ ex_mem'.mem_rw = mem_rw(id_ex.inst) /\ ex_mem'.wb_sel = wb_sel(id_ex.inst)
         /\ ex_mem'.atomic = atomic(id_ex.inst) /\ ex_mem'.alu = actual_ex_result
         /\ ex_mem'.rs2 = fwd_rs2 /\ ex_mem'.rd = id_ex.inst.rd
         /\ ex_mem'.pc = id_ex.pc /\ ex_mem'.size = id_ex.inst.size
         /\ mem' = MemAfter
         /\ lock_valid' = LockAfter(FALSE) /\ reserved_addr' = ReservedAfter(FALSE)
         /\ csr' = IF id_ex.inst.op = "csr" /\ ~stall
                   THEN [csr EXCEPT ![id_ex.inst.csr] =
                           CsrWrite(id_ex.inst.csr_op, @,
                                    IF id_ex.inst.use_imm THEN id_ex.inst.imm ELSE fwd_rs1)]
                   ELSE csr
  <1>1. trap_taken(timer, external, FALSE) = FALSE /\ mret_fires(FALSE) = FALSE
    BY Zenon DEF pc_trap_override, trap_taken, mret_fires
  <1>2. ex_mem' = Entering
    BY Zenon DEF Advance, ExMemNext, Entering
  <1>3. /\ Entering.reg_wen = (id_ex.valid /\ reg_wen(id_ex.inst))
        /\ Entering.mem_rw = mem_rw(id_ex.inst) /\ Entering.wb_sel = wb_sel(id_ex.inst)
        /\ Entering.atomic = atomic(id_ex.inst) /\ Entering.alu = actual_ex_result
        /\ Entering.rs2 = fwd_rs2 /\ Entering.rd = id_ex.inst.rd
        /\ Entering.pc = id_ex.pc /\ Entering.size = id_ex.inst.size
    BY Zenon DEF Entering
  <1>4. /\ mem' = MemAfter /\ lock_valid' = LockAfter(FALSE)
        /\ reserved_addr' = ReservedAfter(FALSE)
    BY <1>1, Zenon DEF Advance
  <1>5. csr' = CsrNext(timer, external, FALSE)
    BY Zenon DEF Advance
  <1> QED BY <1>1, <1>2, <1>3, <1>4, <1>5, ZenonT(30) DEF CsrNext, ex_csr_wen

\* A bubble in EX changes nothing software sees.
LEMMA Bubble ==
  ASSUME Inv, NEW timer \in BOOLEAN, NEW external \in BOOLEAN, NEW guess \in Guesses,
         Advance(timer, external, guess), ~id_ex.valid
  PROVE  /\ ArchX' = ArchX /\ MemAfter' = MemAfter /\ ArchResv' = ArchResv
         /\ ArchPc' = ArchPc /\ csr' = csr
  <1> DEFINE flush == pc_trap_override(timer, external, FALSE)
  <1>1. id_ex.inst = Nop
    <2>1. IdExClear.inst = Nop
      BY Zenon DEF IdExClear
    <2> QED BY <2>1, ZenonT(30) DEF Inv, DecodeInv
  <1>2. Nop.op = "imm" /\ Nop.rd = 0
    BY Zenon DEF Nop
  <1>3. ~flush /\ ~pc_sel /\ ~stall
    <2>1. ~is_mret /\ ~is_ecall /\ ~is_jal /\ ~is_jalr /\ ~is_branch
      BY <1>1, <1>2, ZenonT(30) DEF is_mret, is_ecall, is_jal, is_jalr, is_branch
    <2>2. ~flush
      BY <2>1, Zenon DEF pc_trap_override, trap_taken, hw_irq, Fires, fault_illegal,
         fault_ld_align, fault_st_align, ecall_fires, mret_fires
    <2>3. ~pc_sel
      BY <2>1, Zenon DEF pc_sel, branch_mispredicted
    <2> QED BY <1>1, <1>2, <2>2, <2>3, ZenonT(30) DEF stall
  <1>4. atomic(id_ex.inst) = "none" /\ ~mem_rw(id_ex.inst) /\ id_ex.inst.op # "csr"
    BY <1>1, <1>2, ZenonT(30) DEF atomic, mem_rw
  <1>5. /\ ~ex_mem'.reg_wen /\ ~ex_mem'.mem_rw /\ ex_mem'.atomic = "none"
        /\ csr' = csr /\ mem' = MemAfter
        /\ lock_valid' = LockAfter(FALSE) /\ reserved_addr' = ReservedAfter(FALSE)
    BY <1>3, <1>4, Moves, ZenonT(30)
  <1>6. ArchX' = ArchX
    BY <1>5, WriteBackMoves, ZenonT(30) DEF ArchX
  <1>7. MemAfter' = MemAfter
    <2>1. MemAfter' = IF store_commits' \/ ex_mem'.atomic = "amo"
                      THEN [mem' EXCEPT ![ex_mem'.alu] = ex_mem'.rs2] ELSE mem'
      BY Zenon DEF MemAfter
    <2>2. "none" # "amo" /\ ~store_commits'
      BY <1>5, Zenon DEF store_commits
    <2> QED BY <1>5, <2>1, <2>2, ZenonT(30)
  <1>8. ArchResv' = ArchResv
    <2>1. LockAfter(FALSE)' = lock_valid' /\ ReservedAfter(FALSE)' = reserved_addr'
      BY <1>5, Zenon DEF LockAfter, ReservedAfter
    <2>2. ArchResv' = IF LockAfter(FALSE)' THEN ReservedAfter(FALSE)' ELSE NoAddr
      BY Zenon DEF ArchResv
    <2> QED BY <1>5, <2>1, <2>2, ZenonT(30) DEF ArchResv
  <1>9. ArchPc' = ArchPc
    <2>1. /\ if_id' = [valid |-> TRUE, pc |-> pc, inst |-> inst,
                       predicted_taken |-> if_predicted_taken(guess, FALSE, flush),
                       predicted_target |-> if_predicted_target(guess)]
          /\ id_ex' = [valid |-> if_id.valid, pc |-> if_id.pc, inst |-> if_id.inst,
                       predicted_taken |-> if_id.predicted_taken,
                       predicted_target |-> if_id.predicted_target,
                       rs1 |-> ReadReg(if_id.inst.rs1), rs2 |-> ReadReg(if_id.inst.rs2)]
      BY <1>3, Zenon DEF Advance, IfIdNext, IdExNext
    <2>2. if_id'.valid /\ if_id'.pc = pc /\ id_ex'.valid = if_id.valid /\ id_ex'.pc = if_id.pc
      BY <2>1, Zenon
    <2> QED BY <2>2, Zenon DEF ArchPc
  <1> QED BY <1>5, <1>6, <1>7, <1>8, <1>9, ZenonT(30)

\* Where execution goes on after the instruction in EX, whatever was guessed: the
\* fetch already went there, or EX redirects it.
LEMMA NextPc ==
  ASSUME Inv, NEW timer \in BOOLEAN, NEW external \in BOOLEAN, NEW guess \in Guesses,
         Advance(timer, external, guess), ~pc_trap_override(timer, external, FALSE), id_ex.valid
  PROVE  ArchPc' = IF is_jal \/ is_jalr \/ branch_actual_taken THEN redirect_target_adder
                   ELSE Wrap(id_ex.pc + id_ex.inst.size)
  <1> DEFINE flush == pc_trap_override(timer, external, FALSE)
  <1>1. /\ if_id.valid /\ if_id.pc = Follow(id_ex) /\ Guessed(id_ex)
    BY Zenon DEF Inv, DecodeInv
  <1>2. id_ex.predicted_taken \in BOOLEAN
    BY Zenon DEF Inv, StageTypes, Decoded
  <1>3. pc_sel => ~stall
    <2>1. ASSUME pc_sel PROVE id_ex.inst.op \in {"jal", "jalr", "beq"}
      BY <2>1, Zenon DEF pc_sel, is_jal, is_jalr, is_branch, branch_mispredicted
    <2>2. ASSUME id_ex.inst.op \in {"jal", "jalr", "beq"} PROVE ~id_ex_mem_read
      BY <2>2, Zenon DEF id_ex_mem_read, wb_sel, reg_wen
    <2> QED BY <2>1, <2>2, Zenon DEF stall
  <1>4. ArchPc' = IF pc_sel THEN ex_redirect_target ELSE Follow(id_ex)
    <2>1. ASSUME pc_sel PROVE ArchPc' = ex_redirect_target
      <3>1. if_id' = IfIdClear /\ id_ex' = IdExClear /\ pc' = ex_redirect_target
        BY <1>3, <2>1, ZenonT(30) DEF Advance, IfIdNext, IdExNext, PcNext
      <3>2. ~IfIdClear.valid /\ ~IdExClear.valid
        BY Zenon DEF IfIdClear, IdExClear
      <3> QED BY <3>1, <3>2, ZenonT(30) DEF ArchPc
    <2>2. ASSUME ~pc_sel, stall PROVE ArchPc' = Follow(id_ex)
      <3>1. if_id' = if_id /\ id_ex' = IdExClear
        BY <2>2, Zenon DEF Advance, IfIdNext, IdExNext
      <3>2. ~IdExClear.valid
        BY Zenon DEF IdExClear
      <3> QED BY <1>1, <3>1, <3>2, ZenonT(30) DEF ArchPc
    <2>3. ASSUME ~pc_sel, ~stall PROVE ArchPc' = Follow(id_ex)
      <3>1. id_ex' = [valid |-> if_id.valid, pc |-> if_id.pc, inst |-> if_id.inst,
                      predicted_taken |-> if_id.predicted_taken,
                      predicted_target |-> if_id.predicted_target,
                      rs1 |-> ReadReg(if_id.inst.rs1), rs2 |-> ReadReg(if_id.inst.rs2)]
        BY <2>3, Zenon DEF Advance, IdExNext
      <3>2. id_ex'.valid = if_id.valid /\ id_ex'.pc = if_id.pc
        BY <3>1, ZenonT(30)
      <3> QED BY <1>1, <3>2, ZenonT(30) DEF ArchPc
    <2> QED BY <2>1, <2>2, <2>3, ZenonT(30)
  <1>5. is_jal \/ is_branch => redirect_target_adder = Wrap(id_ex.pc + id_ex.inst.imm)
    <2> SUFFICES ASSUME id_ex.inst.op \in {"jal", "beq"}
                 PROVE  redirect_target_adder = Wrap(id_ex.pc + id_ex.inst.imm)
      BY Zenon DEF is_jal, is_branch
    <2>1. alu_a = id_ex.pc /\ alu_b = id_ex.inst.imm
      BY Zenon DEF alu_a, alu_b, a_sel, b_sel, Imm, atomic
    <2> QED BY <2>1, Zenon DEF redirect_target_adder
  <1>6. /\ ~(is_jal /\ is_jalr) /\ ~(is_jal /\ is_branch) /\ ~(is_jalr /\ is_branch)
        /\ Guessed(id_ex) =>
             (id_ex.predicted_taken =>
                \/ (is_branch \/ is_jal) /\ id_ex.predicted_target = Wrap(id_ex.pc + id_ex.inst.imm)
                \/ is_jalr)
    BY Zenon DEF is_jal, is_jalr, is_branch, Guessed
  <1> DEFINE target == Wrap(id_ex.pc + id_ex.inst.imm)  after == Wrap(id_ex.pc + id_ex.inst.size)
  <1>7. CASE is_jal
    BY <1>1, <1>2, <1>4, <1>5, <1>6, <1>7, ZenonT(30) DEF Follow, pc_sel, ex_redirect_target
  <1>8. CASE is_jalr
    <2>1. ~is_jal /\ ~branch_mispredicted
      BY <1>6, <1>8, Zenon DEF branch_mispredicted
    <2> QED BY <1>2, <1>4, <1>8, <2>1, ZenonT(30) DEF Follow, pc_sel, ex_redirect_target,
               jalr_ras_mispredicted
  <1>9. CASE is_branch
    <2>1. ~is_jal /\ ~is_jalr
      BY <1>6, <1>9, Zenon
    <2>2. pc_sel <=> branch_actual_taken # id_ex.predicted_taken
      BY <1>9, <2>1, Zenon DEF pc_sel, branch_mispredicted
    <2>3. branch_actual_taken \in BOOLEAN
      BY Zenon DEF branch_actual_taken
    <2>4. CASE branch_actual_taken
      BY <1>1, <1>2, <1>4, <1>5, <1>6, <1>9, <2>1, <2>2, <2>4, ZenonT(30) DEF Follow, ex_redirect_target
    <2>5. CASE ~branch_actual_taken
      BY <1>2, <1>4, <2>1, <2>2, <2>3, <2>5, ZenonT(30) DEF Follow, ex_redirect_target
    <2> QED BY <2>4, <2>5, Zenon
  <1>10. CASE ~(is_jal \/ is_jalr \/ is_branch)
    <2>1. ~id_ex.predicted_taken /\ ~pc_sel /\ ~branch_actual_taken
      BY <1>1, <1>6, <1>10, ZenonT(30) DEF pc_sel, branch_mispredicted, branch_actual_taken
    <2> QED BY <1>4, <1>10, <2>1, ZenonT(30) DEF Follow
  <1> QED BY <1>7, <1>8, <1>9, <1>10, ZenonT(30)

\* What an instruction that leaves EX does to registers, memory and reservation,
\* given the result r of the ALU or the divider.
Result(r) ==
  CASE wb_sel(id_ex.inst) = "alu" ->
         IF atomic(id_ex.inst) = "sc" THEN (IF ArchResv = r THEN 0 ELSE 1) ELSE r
    [] wb_sel(id_ex.inst) = "mem" -> MemAfter[r]
    [] wb_sel(id_ex.inst) = "link" -> Wrap(id_ex.pc + id_ex.inst.size)

Commits(r) ==
  id_ex.inst.op \in {"store", "amo"} \/ (id_ex.inst.op = "sc" /\ ArchResv = r)

\* What an instruction leaves behind when it moves from EX to MEM, as software sees
\* it through the stages (final_alu_to_wb, store_commits, the LR reservation).
LEMMA Retires ==
  ASSUME Inv, NEW timer \in BOOLEAN, NEW external \in BOOLEAN, NEW guess \in Guesses,
         Advance(timer, external, guess), ~pc_trap_override(timer, external, FALSE), id_ex.valid,
         NEW r, r = actual_ex_result
  PROVE  /\ ArchX' = IF reg_wen(id_ex.inst) /\ id_ex.inst.rd # 0
                     THEN [ArchX EXCEPT ![id_ex.inst.rd] = Result(r)] ELSE ArchX
         /\ MemAfter' = IF Commits(r) THEN [MemAfter EXCEPT ![r] = fwd_rs2] ELSE MemAfter
         /\ ArchResv' = IF id_ex.inst.op = "lr" THEN r
                        ELSE IF id_ex.inst.op \in {"store", "sc", "amo"} THEN NoAddr
                        ELSE ArchResv
  <1> DEFINE i == id_ex.inst
  <1>1. /\ ex_mem'.reg_wen = reg_wen(i) /\ ex_mem'.mem_rw = mem_rw(i)
        /\ ex_mem'.wb_sel = wb_sel(i) /\ ex_mem'.atomic = atomic(i) /\ ex_mem'.alu = r
        /\ ex_mem'.rs2 = fwd_rs2 /\ ex_mem'.rd = i.rd /\ ex_mem'.pc = id_ex.pc
        /\ ex_mem'.size = i.size /\ mem' = MemAfter
        /\ lock_valid' = LockAfter(FALSE) /\ reserved_addr' = ReservedAfter(FALSE)
    <2>1. (id_ex.valid /\ reg_wen(i)) = reg_wen(i)
      BY Zenon DEF reg_wen
    <2> QED BY <2>1, Moves, ZenonT(30)
  <1>2. i \in Inst /\ r \in Word /\ wb_sel(i) \in {"alu", "mem", "link"}
    BY ExecuteTypes, ControlTypes, ZenonT(30) DEF Inv, StageTypes, Decoded
  <1>3. r # NoAddr
    <2>1. r >= 0
      BY <1>2, WordSize DEF Word
    <2> QED BY <2>1 DEF NoAddr
  <1>4. sc_successful' <=> ArchResv = r
    <2>1. sc_successful' <=> LockAfter(FALSE) /\ r = ReservedAfter(FALSE)
      BY <1>1, Zenon DEF sc_successful
    <2> QED BY <1>3, <2>1, ZenonT(30) DEF ArchResv
  <1>5. MemResult' = Result(r)
    <2>1. final_alu_to_wb' = IF atomic(i) = "sc" THEN (IF ArchResv = r THEN 0 ELSE 1) ELSE r
      BY <1>1, <1>4, Zenon DEF final_alu_to_wb
    <2>2. MemResult' = CASE ex_mem'.wb_sel = "alu" -> final_alu_to_wb'
                         [] ex_mem'.wb_sel = "mem" -> mem'[ex_mem'.alu]
                         [] ex_mem'.wb_sel = "link" -> Wrap(ex_mem'.pc + ex_mem'.size)
      BY Zenon DEF MemResult
    <2> HIDE DEF final_alu_to_wb
    <2>3. CASE wb_sel(i) = "alu"
      BY <1>1, <2>1, <2>2, <2>3, ZenonT(30) DEF Result
    <2>4. CASE wb_sel(i) = "mem"
      BY <1>1, <2>2, <2>4, ZenonT(30) DEF Result
    <2>5. CASE wb_sel(i) = "link"
      BY <1>1, <2>2, <2>5, ZenonT(30) DEF Result
    <2> QED BY <1>2, <2>3, <2>4, <2>5, ZenonT(30)
  <1>6. ArchX' = IF reg_wen(i) /\ i.rd # 0 THEN [ArchX EXCEPT ![i.rd] = Result(r)] ELSE ArchX
    <2>1. ArchX' = IF ex_mem'.reg_wen /\ ex_mem'.rd # 0
                   THEN [XAfter' EXCEPT ![ex_mem'.rd] = MemResult'] ELSE XAfter'
      BY Zenon DEF ArchX
    <2> QED BY <1>1, <1>5, <2>1, WriteBackMoves, ZenonT(30)
  <1>7. /\ store_commits' \/ ex_mem'.atomic = "amo" <=> Commits(r)
    <2>1. store_commits' <=> mem_rw(i) /\ (atomic(i) # "sc" \/ ArchResv = r)
      BY <1>1, <1>4, ZenonT(30) DEF store_commits
    <2>2. /\ mem_rw(i) <=> i.op \in {"store", "sc"}
          /\ atomic(i) = "sc" <=> i.op = "sc"
          /\ atomic(i) = "amo" <=> i.op = "amo"
          /\ ~(i.op = "sc" /\ i.op \in {"store", "amo"})
      BY Zenon DEF mem_rw, atomic
    <2> QED BY <1>1, <2>1, <2>2, ZenonT(30) DEF Commits
  <1>8. MemAfter' = IF Commits(r) THEN [MemAfter EXCEPT ![r] = fwd_rs2] ELSE MemAfter
    <2>1. MemAfter' = IF store_commits' \/ ex_mem'.atomic = "amo"
                      THEN [mem' EXCEPT ![ex_mem'.alu] = ex_mem'.rs2] ELSE mem'
      BY Zenon DEF MemAfter
    <2> QED BY <1>1, <1>7, <2>1, ZenonT(30)
  <1>9. ArchResv' = IF i.op = "lr" THEN r
                    ELSE IF i.op \in {"store", "sc", "amo"} THEN NoAddr ELSE ArchResv
    <2>1. ArchResv' = IF LockAfter(FALSE)' THEN ReservedAfter(FALSE)' ELSE NoAddr
      BY Zenon DEF ArchResv
    <2>2. /\ LockAfter(FALSE)' = IF ex_mem'.atomic = "lr" /\ is_load' THEN TRUE
                                 ELSE IF ex_mem'.atomic = "sc" \/ ex_mem'.mem_rw \/ ex_mem'.atomic = "amo"
                                 THEN FALSE ELSE lock_valid'
          /\ ReservedAfter(FALSE)' = IF ex_mem'.atomic = "lr" /\ is_load' THEN ex_mem'.alu
                                     ELSE reserved_addr'
      BY Zenon DEF LockAfter, ReservedAfter
    <2>3. /\ atomic(i) = "lr" <=> i.op = "lr"
          /\ atomic(i) = "sc" \/ mem_rw(i) \/ atomic(i) = "amo" <=> i.op \in {"store", "sc", "amo"}
          /\ i.op = "lr" => wb_sel(i) = "mem" /\ reg_wen(i) /\ atomic(i) # "amo"
      BY Zenon DEF atomic, mem_rw, wb_sel, reg_wen
    <2>4. ex_mem'.atomic = "lr" /\ is_load' <=> i.op = "lr"
      BY <1>1, <2>3, Zenon DEF is_load
    <2>5. ex_mem'.atomic = "sc" \/ ex_mem'.mem_rw \/ ex_mem'.atomic = "amo"
            <=> i.op \in {"store", "sc", "amo"}
      BY <1>1, <2>3, ZenonT(30)
    <2>6. CASE i.op = "lr"
      BY <1>1, <2>1, <2>2, <2>4, <2>6, ZenonT(30)
    <2>7. ASSUME i.op # "lr", i.op \in {"store", "sc", "amo"} PROVE ArchResv' = NoAddr
      BY <2>1, <2>2, <2>4, <2>5, <2>7, ZenonT(30)
    <2>8. ASSUME i.op # "lr", i.op \notin {"store", "sc", "amo"} PROVE ArchResv' = ArchResv
      <3>1. LockAfter(FALSE)' = lock_valid' /\ ReservedAfter(FALSE)' = reserved_addr'
        BY <2>2, <2>4, <2>5, <2>8, ZenonT(30)
      <3> QED BY <1>1, <2>1, <3>1, ZenonT(30) DEF ArchResv
    <2> QED BY <2>6, <2>7, <2>8, ZenonT(30)
  <1> QED BY <1>6, <1>8, <1>9, ZenonT(30)

\* The operands of the instruction in EX are those the sequential machine reads.
LEMMA SameOperands ==
  ASSUME Inv, id_ex.valid
  PROVE  /\ ArchPc = id_ex.pc /\ Machine!i = id_ex.inst
         /\ Machine!Next_pc = Wrap(id_ex.pc + id_ex.inst.size)
         /\ id_ex.inst.op \in {"load", "store", "lr", "sc", "amo", "jalr"} =>
              redirect_target_adder = Machine!Addr
  <1>1. ArchPc = id_ex.pc
    BY Zenon DEF ArchPc
  <1>2. Machine!i = id_ex.inst
    <2>1. id_ex.inst = Fetch(prog, id_ex.pc)
      BY Zenon DEF Inv, DecodeInv
    <2> QED BY <1>1, <2>1, SameOperators, ZenonT(30) DEF Machine!i
  <1>3. Machine!Next_pc = Wrap(id_ex.pc + id_ex.inst.size)
    BY <1>1, <1>2, SameOperators, ZenonT(30) DEF Machine!Next_pc
  <1>4. Machine!Addr = Wrap(ArchX[id_ex.inst.rs1] + Imm(id_ex.inst))
    BY <1>2, SameOperators, ZenonT(30) DEF Machine!Addr
  <1>5. ASSUME id_ex.inst.op \in {"load", "store", "lr", "sc", "amo", "jalr"}
        PROVE  redirect_target_adder = Machine!Addr
    <2>1. ~a_sel(id_ex.inst) /\ b_sel(id_ex.inst) /\ rs1_used(id_ex.inst)
      BY <1>5, Zenon DEF a_sel, b_sel, rs1_used
    <2>2. alu_a = ArchX[id_ex.inst.rs1] /\ alu_b = Imm(id_ex.inst)
      BY <2>1, Operands, Zenon DEF alu_a, alu_b
    <2> QED BY <1>4, <2>2, Zenon DEF redirect_target_adder
  <1> QED BY <1>1, <1>2, <1>3, <1>5, ZenonT(30)

\* A trap or mret in EX is an interrupt, an exception or an mret of the sequential
\* machine (trap_controller, csr_file).
LEMMA TrapRefines ==
  ASSUME Inv, NEW timer \in BOOLEAN, NEW external \in BOOLEAN, NEW guess \in Guesses,
         Advance(timer, external, guess), pc_trap_override(timer, external, FALSE), id_ex.valid
  PROVE  Machine!TakeInterrupt \/ Machine!Exception \/ Machine!Mret
  <1> DEFINE trap == trap_taken(timer, external, FALSE)
             cause == trap_cause(timer, external, FALSE)
             val == trap_val(timer, external, FALSE)
             i == id_ex.inst
  <1>1. /\ ArchX' = ArchX /\ MemAfter' = MemAfter
        /\ ArchPc' = trap_target_pc(timer, external, FALSE)
        /\ ArchResv' = IF trap THEN NoAddr ELSE ArchResv
        /\ csr' = CsrNext(timer, external, FALSE)
    BY Flushed, Zenon DEF Advance
  <1>2. /\ ArchPc = id_ex.pc /\ Machine!i = i
        /\ i.op \in {"load", "store", "lr", "sc", "amo", "jalr"} =>
             redirect_target_adder = Machine!Addr
    BY SameOperands, Zenon
  <1>3. ASSUME trap, NEW c, c = cause, NEW v, v = val
        PROVE  Machine!Trap(c, v)
    <2>1. csr' = CsrAfterTrap(csr, c, v, id_ex.pc) /\ ArchPc' = csr.mtvec /\ ArchResv' = NoAddr
      BY <1>1, <1>3, ZenonT(30) DEF CsrNext, trap_target_pc
    <2> QED BY <1>1, <1>2, <2>1, SameOperators, SameEffects, ZenonT(30) DEF Machine!Trap
  <1>4. ASSUME hw_irq(timer, external, FALSE) PROVE Machine!TakeInterrupt
    <2>1. trap /\ val = 0
      BY <1>4, Zenon DEF trap_taken, trap_val
    <2>2. CASE Fires(external, MEIE, FALSE)
      <3>1. cause = CauseExternal /\ Bit(csr.mstatus, MIE) /\ Bit(csr.mie, MEIE)
        BY <1>4, <2>2, ZenonT(30) DEF trap_cause, Fires
      <3>2. Machine!Trap(CauseExternal, 0)
        BY <1>3, <2>1, <3>1, ZenonT(30)
      <3> QED BY <3>1, <3>2, SameOperators, SameEffects, ZenonT(30) DEF Machine!TakeInterrupt
    <2>3. CASE ~Fires(external, MEIE, FALSE)
      <3>1. Fires(timer, MTIE, FALSE)
        BY <1>4, <2>3, ZenonT(30) DEF hw_irq
      <3>2. cause = CauseTimer /\ Bit(csr.mstatus, MIE) /\ Bit(csr.mie, MTIE)
        BY <1>4, <2>3, <3>1, ZenonT(30) DEF trap_cause, Fires
      <3>3. Machine!Trap(CauseTimer, 0)
        BY <1>3, <2>1, <3>2, Zenon
      <3> QED BY <3>2, <3>3, SameOperators, SameEffects, ZenonT(30) DEF Machine!TakeInterrupt
    <2> QED BY <2>2, <2>3, ZenonT(30)
  <1>5. ASSUME ~hw_irq(timer, external, FALSE), trap PROVE Machine!Exception
    <2>1. CASE fault_illegal(FALSE)
      <3>1. cause = CauseIllegal /\ val = i.imm /\ i.op = "illegal"
        BY <1>5, <2>1, Zenon DEF trap_cause, trap_val, fault_illegal
      <3>2. Machine!Trap(CauseIllegal, i.imm)
        BY <1>3, <1>5, <3>1, ZenonT(30)
      <3> QED BY <1>2, <3>1, <3>2, SameEffects, ZenonT(30) DEF Machine!Exception
    <2>2. ASSUME ~fault_illegal(FALSE), fault_ld_align(FALSE) PROVE Machine!Exception
      <3>1. /\ cause = CauseLoadAlign /\ val = redirect_target_adder
            /\ misalign_load(i, redirect_target_adder)
        BY <1>5, <2>2, Zenon DEF trap_cause, trap_val, fault_ld_align
      <3>2. redirect_target_adder = Machine!Addr
        BY <1>2, <3>1, Zenon DEF misalign_load
      <3>3. Machine!Trap(CauseLoadAlign, redirect_target_adder)
        BY <1>3, <1>5, <3>1, ZenonT(30)
      <3> QED BY <1>2, <3>1, <3>2, <3>3, SameOperators, SameEffects, ZenonT(30) DEF Machine!Exception
    <2>3. ASSUME ~fault_illegal(FALSE), ~fault_ld_align(FALSE), fault_st_align(FALSE)
          PROVE  Machine!Exception
      <3>1. /\ cause = CauseStoreAlign /\ val = redirect_target_adder
            /\ misalign_store(i, redirect_target_adder)
        BY <1>5, <2>3, Zenon DEF trap_cause, trap_val, fault_st_align
      <3>2. redirect_target_adder = Machine!Addr
        BY <1>2, <3>1, ZenonT(30) DEF misalign_store
      <3>3. Machine!Trap(CauseStoreAlign, redirect_target_adder)
        BY <1>3, <1>5, <3>1, Zenon
      <3> QED BY <1>2, <3>1, <3>2, <3>3, SameOperators, SameEffects, ZenonT(30) DEF Machine!Exception
    <2>4. ASSUME ~fault_illegal(FALSE), ~fault_ld_align(FALSE), ~fault_st_align(FALSE)
          PROVE  Machine!Exception
      <3>1. cause = CauseEcall /\ val = 0 /\ i.op = "ecall"
        BY <1>5, <2>4, Zenon DEF trap_cause, trap_val, trap_taken, ecall_fires, is_ecall
      <3>2. Machine!Trap(CauseEcall, 0)
        BY <1>3, <1>5, <3>1, ZenonT(30)
      <3> QED BY <1>2, <3>1, <3>2, SameEffects, ZenonT(30) DEF Machine!Exception
    <2> QED BY <2>1, <2>2, <2>3, <2>4, ZenonT(30)
  <1>6. ASSUME ~trap PROVE Machine!Mret
    <2>1. mret_fires(FALSE)
      BY <1>6, Zenon DEF pc_trap_override
    <2>2. i.op = "mret" /\ csr' = CsrAfterMret(csr) /\ ArchPc' = csr.mepc /\ ArchResv' = ArchResv
      BY <1>1, <1>6, <2>1, ZenonT(30) DEF mret_fires, is_mret, CsrNext, trap_target_pc
    <2> QED BY <1>1, <1>2, <2>2, SameEffects, ZenonT(30) DEF Machine!Mret
  <1> QED BY <1>4, <1>5, <1>6, ZenonT(30)

\* The destination register of an instruction.
LEMMA SetsRegister ==
  ASSUME Inv, id_ex.valid, NEW v,
         ArchX' = IF id_ex.inst.rd # 0 THEN [ArchX EXCEPT ![id_ex.inst.rd] = v] ELSE ArchX
  PROVE  Machine!SetReg(v)
  BY SameOperands, Zenon DEF Machine!SetReg

\* Any other instruction that leaves EX is the sequential machine's step for it.
LEMMA InstructionRefines ==
  ASSUME Inv, NEW timer \in BOOLEAN, NEW external \in BOOLEAN, NEW guess \in Guesses,
         Advance(timer, external, guess), ~pc_trap_override(timer, external, FALSE), id_ex.valid
  PROVE  Machine!Compute \/ Machine!Jump \/ Machine!Access \/ Machine!Csr
  <1> DEFINE i == id_ex.inst
             r == actual_ex_result
             after == Wrap(id_ex.pc + i.size)
  <1>1. /\ ArchPc' = IF is_jal \/ is_jalr \/ branch_actual_taken THEN redirect_target_adder
                     ELSE after
        /\ ArchX' = IF reg_wen(i) /\ i.rd # 0 THEN [ArchX EXCEPT ![i.rd] = Result(r)] ELSE ArchX
        /\ MemAfter' = IF Commits(r) THEN [MemAfter EXCEPT ![r] = fwd_rs2] ELSE MemAfter
        /\ ArchResv' = IF i.op = "lr" THEN r
                       ELSE IF i.op \in {"store", "sc", "amo"} THEN NoAddr ELSE ArchResv
    BY NextPc, Retires, Zenon
  <1>2. /\ ArchPc = id_ex.pc /\ Machine!i = i /\ Machine!Next_pc = after
        /\ i.op \in {"load", "store", "lr", "sc", "amo", "jalr"} =>
             redirect_target_adder = Machine!Addr
    BY SameOperands, ZenonT(30)
  <1>3. i \in Inst /\ i = Fetch(prog, id_ex.pc) /\ prog \in Programs
    BY Zenon DEF Inv, StageTypes, Decoded, DecodeInv
  <1>4. /\ rs1_used(i) => fwd_rs1 = ArchX[i.rs1]
        /\ rs2_used(i) => fwd_rs2 = ArchX[i.rs2]
    BY Operands, Zenon
  <1>5. i.op \notin {"illegal", "ecall", "mret"}
    BY Zenon DEF pc_trap_override, trap_taken, fault_illegal, ecall_fires, is_ecall, mret_fires,
       is_mret
  <1>6. i.op \in Ops
    BY <1>3, ControlTypes, ZenonT(30)
  <1>7. stall => i.op \in {"load", "lr", "amo"}
    BY Zenon DEF stall, id_ex_mem_read, wb_sel, reg_wen
  <1>8. csr' = IF i.op = "csr"
               THEN [csr EXCEPT ![i.csr] =
                       CsrWrite(i.csr_op, csr[i.csr], IF i.use_imm THEN i.imm ELSE fwd_rs1)]
               ELSE csr
    <2>1. ~(i.op = "csr" /\ stall)
      BY <1>7, Zenon
    <2>2. csr' = IF i.op = "csr" /\ ~stall
                 THEN [csr EXCEPT ![i.csr] =
                         CsrWrite(i.csr_op, @, IF i.use_imm THEN i.imm ELSE fwd_rs1)]
                 ELSE csr
      BY Moves, Zenon
    <2> QED BY <2>1, <2>2, Zenon
  <1>9. /\ is_jal <=> i.op = "jal"
        /\ is_jalr <=> i.op = "jalr"
        /\ branch_actual_taken <=> i.op = "beq" /\ fwd_rs1 = fwd_rs2
    BY Zenon DEF is_jal, is_jalr, branch_actual_taken, is_branch
  <1> HIDE DEF i, r, after
  <1>10. ASSUME i.op \in {"op", "imm", "auipc", "div", "divu", "rem", "remu", "fence"}
         PROVE  Machine!Compute
    <2>1. /\ ArchPc' = after /\ csr' = csr /\ MemAfter' = MemAfter /\ ArchResv' = ArchResv
      BY <1>1, <1>8, <1>9, <1>10, ZenonT(30) DEF Commits, i
    <2>2. reg_wen(i) /\ wb_sel(i) = "alu" /\ atomic(i) = "none" /\ Imm(i) = i.imm
      BY <1>10, ZenonT(30) DEF reg_wen, wb_sel, atomic, Imm
    <2>3. Result(r) = r
      BY <2>2, ZenonT(30) DEF Result, i
    <2>4. ArchX' = IF i.rd # 0 THEN [ArchX EXCEPT ![i.rd] = r] ELSE ArchX
      BY <1>1, <2>2, <2>3, ZenonT(30)
    <2>5. Machine!SetReg(r)
      BY <2>4, SetsRegister, ZenonT(30) DEF i
    <2>6. i.op \notin {"div", "divu", "rem", "remu"} => r = Wrap(alu_a + alu_b)
      BY <1>10, ZenonT(30) DEF r, i, actual_ex_result, ex_result, is_div_op, redirect_target_adder
    <2>7. CASE i.op = "op"
      <3>1. alu_a = ArchX[i.rs1] /\ alu_b = ArchX[i.rs2]
        BY <1>4, <2>7, ZenonT(30) DEF alu_a, alu_b, a_sel, b_sel, rs1_used, rs2_used, i
      <3>2. r = Machine!Wrap(ArchX[i.rs1] + ArchX[i.rs2])
        BY <2>6, <2>7, <3>1, SameOperators, ZenonT(30) DEF i
      <3> QED BY <1>2, <2>1, <2>5, <2>7, <3>2, ZenonT(30) DEF Machine!Compute
    <2>8. CASE i.op = "imm"
      <3>1. alu_a = ArchX[i.rs1] /\ alu_b = i.imm
        BY <1>4, <2>2, <2>8, ZenonT(30) DEF alu_a, alu_b, a_sel, b_sel, rs1_used, i
      <3>2. r = Machine!Wrap(ArchX[i.rs1] + i.imm)
        BY <2>6, <2>8, <3>1, SameOperators, ZenonT(30) DEF i
      <3> QED BY <1>2, <2>1, <2>5, <2>8, <3>2, SMTT(30) DEF Machine!Compute
    <2>9. CASE i.op = "auipc"
      <3>1. alu_a = ArchPc /\ alu_b = i.imm
        BY <1>2, <2>2, <2>9, ZenonT(30) DEF alu_a, alu_b, a_sel, b_sel, i
      <3>2. r = Machine!Wrap(ArchPc + i.imm)
        BY <2>6, <2>9, <3>1, SameOperators, SMTT(30) DEF i
      <3> QED BY <1>2, <2>1, <2>5, <2>9, <3>2, ZenonT(30) DEF Machine!Compute
    <2>10. CASE i.op = "fence"
      <3>1. i.rd = 0
        BY <1>3, <2>10, FetchTypes, ZenonT(30) DEF i
      <3>2. ArchX' = ArchX
        BY <2>4, <3>1, Zenon
      <3> QED BY <1>2, <2>1, <2>10, <3>2, ZenonT(30) DEF Machine!Compute
    <2>11. ASSUME i.op \in {"div", "divu", "rem", "remu"} PROVE Machine!Compute
      <3>1. is_div_op(id_ex.inst)
        BY <2>11, Zenon DEF is_div_op, i
      <3>2. div_result_ready
        BY <3>1, Zenon DEF Advance, div_stall
      <3>3. ex_result = DivResult(i.op, alu_a, alu_b)
        BY <3>2, Zenon DEF Inv, DivDone, i
      <3>4. r = ex_result
        BY <2>11, Zenon DEF r, i, actual_ex_result
      <3>5. alu_a = ArchX[i.rs1] /\ alu_b = ArchX[i.rs2]
        BY <1>4, <2>11, ZenonT(30) DEF alu_a, alu_b, a_sel, b_sel, rs1_used, rs2_used, i
      <3>6. Machine!SetReg(Machine!DivResult(i.op, ArchX[i.rs1], ArchX[i.rs2]))
        BY <2>5, <3>3, <3>4, <3>5, SameEffects, ZenonT(30)
      <3> QED BY <1>2, <2>1, <2>11, <3>6, ZenonT(30) DEF Machine!Compute
    <2> QED BY <1>10, <2>7, <2>8, <2>9, <2>10, <2>11, ZenonT(30)
  <1>11. ASSUME i.op \in {"beq", "jal", "jalr"} PROVE Machine!Jump
    <2>1. /\ csr' = csr /\ MemAfter' = MemAfter /\ ArchResv' = ArchResv
      BY <1>1, <1>8, <1>11, ZenonT(30) DEF Commits, i
    <2>2. Imm(i) = i.imm
      BY <1>11, ZenonT(30) DEF Imm, atomic
    <2>3. ASSUME i.op = "beq" PROVE Machine!Jump
      <3>1. redirect_target_adder = Machine!Wrap(ArchPc + i.imm)
        <4>1. alu_a = ArchPc /\ alu_b = i.imm
          BY <1>2, <2>2, <2>3, SMTT(30) DEF alu_a, alu_b, a_sel, b_sel, i
        <4> QED BY <4>1, SameOperators, ZenonT(30) DEF redirect_target_adder
      <3>2. ~reg_wen(i) /\ rs1_used(i) /\ rs2_used(i)
        BY <2>3, Zenon DEF reg_wen, rs1_used, rs2_used
      <3>3. ArchX' = ArchX
        BY <1>1, <3>2, ZenonT(30)
      <3>4. ArchPc' = IF ArchX[i.rs1] = ArchX[i.rs2] THEN Machine!Wrap(ArchPc + i.imm)
                      ELSE Machine!Next_pc
        BY <1>1, <1>2, <1>4, <1>9, <2>3, <3>1, <3>2, SMTT(30)
      <3> QED BY <1>2, <2>1, <2>3, <3>3, <3>4, ZenonT(30) DEF Machine!Jump
    <2>4. ASSUME i.op \in {"jal", "jalr"} PROVE Machine!Jump
      <3>1. reg_wen(i) /\ wb_sel(i) = "link"
        BY <2>4, ZenonT(30) DEF reg_wen, wb_sel
      <3>2. Result(r) = Machine!Next_pc
        BY <1>2, <3>1, ZenonT(30) DEF Result, i, after
      <3>3. Machine!SetReg(Machine!Next_pc)
        BY <1>1, <3>1, <3>2, SetsRegister, ZenonT(30) DEF i
      <3>4. ArchPc' = redirect_target_adder
        BY <1>1, <1>9, <2>4, ZenonT(30)
      <3>5. CASE i.op = "jal"
        <4>1. alu_a = ArchPc /\ alu_b = i.imm
          BY <1>2, <2>2, <3>5, SMTT(30) DEF alu_a, alu_b, a_sel, b_sel, i
        <4>2. redirect_target_adder = Machine!Wrap(ArchPc + i.imm)
          BY <4>1, SameOperators, Zenon DEF redirect_target_adder
        <4> QED BY <1>2, <2>1, <3>3, <3>4, <3>5, <4>2, ZenonT(30) DEF Machine!Jump
      <3>6. CASE i.op = "jalr"
        <4>1. alu_a = ArchX[i.rs1] /\ alu_b = i.imm
          BY <1>4, <2>2, <3>6, ZenonT(30) DEF alu_a, alu_b, a_sel, b_sel, rs1_used, i
        <4>2. redirect_target_adder = Machine!Wrap(ArchX[i.rs1] + i.imm)
          BY <4>1, SameOperators, ZenonT(30) DEF redirect_target_adder
        <4> QED BY <1>2, <2>1, <3>3, <3>4, <3>6, <4>2, ZenonT(30) DEF Machine!Jump
      <3> QED BY <2>4, <3>5, <3>6, ZenonT(30)
    <2> QED BY <1>11, <2>3, <2>4, ZenonT(30)
  <1>12. ASSUME i.op \in {"load", "store", "lr", "sc", "amo"} PROVE Machine!Access
    <2> DEFINE a == Machine!Addr
               stores == i.op \in {"store", "amo"} \/ (i.op = "sc" /\ ArchResv = a)
    <2>1. ArchPc' = Machine!Next_pc /\ csr' = csr
      BY <1>1, <1>2, <1>8, <1>9, <1>12, ZenonT(30)
    <2>2. r = a
      <3>1. r = redirect_target_adder
        BY <1>12, Zenon DEF r, i, actual_ex_result, ex_result, is_div_op
      <3> QED BY <1>2, <1>12, <3>1, ZenonT(30)
    <2>3. a % 2 = 0
      <3>1. /\ ~misalign_load(i, redirect_target_adder)
            /\ ~misalign_store(i, redirect_target_adder)
        BY Zenon DEF pc_trap_override, trap_taken, fault_ld_align, fault_st_align, i
      <3> QED BY <1>2, <1>12, <3>1, ZenonT(30) DEF misalign_load, misalign_store
    <2>4. Commits(r) <=> stores
      BY <2>2, Zenon DEF Commits, i
    <2>5. stores => fwd_rs2 = ArchX[i.rs2]
      <3>1. i.op \in {"store", "amo", "sc"} => rs2_used(i)
        BY Zenon DEF rs2_used
      <3> QED BY <1>4, <3>1, ZenonT(30)
    <2>6. MemAfter' = IF stores THEN [MemAfter EXCEPT ![a] = ArchX[i.rs2]] ELSE MemAfter
      BY <1>1, <2>2, <2>4, <2>5, ZenonT(30)
    <2>7. ArchResv' = IF i.op = "lr" THEN a
                      ELSE IF i.op = "load" THEN ArchResv ELSE Machine!NoAddr
      BY <1>1, <1>12, <2>2, SameOperators, ZenonT(30)
    <2>8. i.op = "store" => ArchX' = ArchX
      <3>1. i.op = "store" => ~reg_wen(i)
        BY Zenon DEF reg_wen
      <3> QED BY <1>1, <3>1, ZenonT(30)
    <2>9. i.op = "sc" => Machine!SetReg(IF stores THEN 0 ELSE 1)
      <3> SUFFICES ASSUME i.op = "sc" PROVE Machine!SetReg(IF stores THEN 0 ELSE 1)
        BY Zenon
      <3>1. reg_wen(i) /\ wb_sel(i) = "alu" /\ atomic(i) = "sc"
        BY Zenon DEF reg_wen, wb_sel, atomic
      <3>2. Result(r) = IF ArchResv = r THEN 0 ELSE 1
        BY <3>1, Zenon DEF Result, i
      <3>3. stores <=> ArchResv = r
        BY <2>2, Zenon
      <3>4. Result(r) = IF stores THEN 0 ELSE 1
        BY <3>2, <3>3, ZenonT(30)
      <3> HIDE DEF stores
      <3> QED BY <1>1, <3>1, <3>4, SetsRegister, ZenonT(30) DEF i
    <2>10. i.op \in {"load", "lr", "amo"} => Machine!SetReg(MemAfter[a])
      <3> SUFFICES ASSUME i.op \in {"load", "lr", "amo"} PROVE Machine!SetReg(MemAfter[a])
        BY Zenon
      <3>1. reg_wen(i) /\ wb_sel(i) = "mem"
        BY Zenon DEF reg_wen, wb_sel
      <3>2. Result(r) = MemAfter[a]
        BY <2>2, <3>1, ZenonT(30) DEF Result, i
      <3> QED BY <1>1, <3>1, <3>2, SetsRegister, ZenonT(30) DEF i
    <2> HIDE DEF a
    <2>11. CASE i.op = "store"
      BY <1>2, <2>1, <2>3, <2>6, <2>7, <2>8, <2>11, SMTT(30) DEF Machine!Access, a
    <2>12. CASE i.op = "sc"
      BY <1>2, <2>1, <2>3, <2>6, <2>7, <2>9, <2>12, SMTT(30) DEF Machine!Access, a
    <2>13. CASE i.op \in {"load", "lr", "amo"}
      BY <1>2, <2>1, <2>3, <2>6, <2>7, <2>10, <2>13, SMTT(30) DEF Machine!Access, a
    <2> QED BY <1>12, <2>11, <2>12, <2>13, ZenonT(30)
  <1>13. ASSUME i.op = "csr" PROVE Machine!Csr
    <2>1. /\ ArchPc' = Machine!Next_pc /\ MemAfter' = MemAfter /\ ArchResv' = ArchResv
      BY <1>1, <1>2, <1>9, <1>13, ZenonT(30) DEF Commits, i
    <2>2. reg_wen(i) /\ wb_sel(i) = "alu" /\ atomic(i) = "none" /\ rs1_used(i)
      BY <1>13, Zenon DEF reg_wen, wb_sel, atomic, rs1_used
    <2>3. Result(r) = csr[i.csr]
      BY <1>13, <2>2, Zenon DEF Result, r, i, actual_ex_result
    <2>4. Machine!SetReg(csr[i.csr])
      BY <1>1, <2>2, <2>3, SetsRegister, ZenonT(30) DEF i
    <2>5. csr' = [csr EXCEPT ![i.csr] =
                    Machine!CsrWrite(i.csr_op, csr[i.csr],
                                     IF i.use_imm THEN i.imm ELSE ArchX[i.rs1])]
      BY <1>4, <1>8, <1>13, <2>2, SameEffects, ZenonT(30)
    <2> QED BY <1>2, <1>13, <2>1, <2>4, <2>5, ZenonT(30) DEF Machine!Csr
  <1> QED BY <1>5, <1>6, <1>10, <1>11, <1>12, <1>13, ZenonT(30) DEF Ops

\* Whatever is forwarded, interlocked, guessed, flushed, frozen, trapped or
\* interrupted, every clock edge is one step of the sequential machine or none
\* (cpu.v, hazard_unit, trap_controller, csr_file, div_unit).
THEOREM PipelineImplementsIsa == Spec => Sequential
  <1>1. Init => Machine!Init
    <2> SUFFICES ASSUME Init PROVE Machine!Init
      BY Zenon
    <2>1. ~IfIdClear.valid /\ ~IdExClear.valid
      BY Zenon DEF IfIdClear, IdExClear
    <2>2. ArchPc = 0
      BY <2>1, Zenon DEF Init, ArchPc
    <2>3. /\ ~ExMemClear.reg_wen /\ ~ExMemClear.mem_rw /\ ExMemClear.atomic = "none"
          /\ ~MemWbClear.reg_wen
      BY Zenon DEF ExMemClear, MemWbClear
    <2>4. ArchX = x
      BY <2>3, Zenon DEF Init, ArchX, XAfter
    <2>5. ~LockAfter(FALSE)
      BY <2>3, Zenon DEF Init, LockAfter
    <2> QED BY <2>2, <2>4, <2>5, SameOperators, ZenonT(30) DEF Init, Machine!Init, ArchResv
  <1>2. ASSUME Inv, Next PROVE Machine!Next \/ UNCHANGED Machine!isaVars
    <2>1. ASSUME Freeze PROVE UNCHANGED Machine!isaVars
      BY <1>2, <2>1, FreezeSame, Zenon DEF Machine!isaVars
    <2>2. ASSUME NEW timer \in BOOLEAN, NEW external \in BOOLEAN, NEW guess \in Guesses,
                 Advance(timer, external, guess)
          PROVE  Machine!Next \/ UNCHANGED Machine!isaVars
      <3>1. prog' = prog
        BY <2>2, Zenon DEF Advance
      <3>2. CASE ~id_ex.valid
        BY <1>2, <2>2, <3>1, <3>2, Bubble, ZenonT(30) DEF Machine!isaVars
      <3>3. ASSUME id_ex.valid, pc_trap_override(timer, external, FALSE) PROVE Machine!Next
        BY <1>2, <2>2, <3>1, <3>3, TrapRefines, ZenonT(30) DEF Machine!Next
      <3>4. ASSUME id_ex.valid, ~pc_trap_override(timer, external, FALSE) PROVE Machine!Next
        BY <1>2, <2>2, <3>1, <3>4, InstructionRefines, ZenonT(30) DEF Machine!Next
      <3> QED BY <3>2, <3>3, <3>4, ZenonT(30)
    <2> QED BY <1>2, <2>1, <2>2, NextCases, ZenonT(30)
  <1>3. ASSUME UNCHANGED vars PROVE UNCHANGED Machine!isaVars
    <2>1. /\ prog' = prog /\ pc' = pc /\ if_id' = if_id /\ id_ex' = id_ex /\ ex_mem' = ex_mem
          /\ mem_wb' = mem_wb /\ x' = x /\ mem' = mem /\ csr' = csr /\ lock_valid' = lock_valid
          /\ reserved_addr' = reserved_addr
      BY <1>3, Zenon DEF vars, stages
    <2>2. sc_successful' = sc_successful /\ wb_data' = wb_data /\ is_load' = is_load
      BY <2>1, Zenon DEF sc_successful, wb_data, is_load
    <2>3. final_alu_to_wb' = final_alu_to_wb /\ XAfter' = XAfter
      BY <2>1, <2>2, ZenonT(30) DEF final_alu_to_wb, XAfter
    <2>4. MemResult' = MemResult
      BY <2>1, <2>3, ZenonT(30) DEF MemResult
    <2>5. ArchX' = ArchX
      BY <2>1, <2>3, <2>4, ZenonT(30) DEF ArchX
    <2>6. MemAfter' = MemAfter
      BY <2>1, <2>2, ZenonT(30) DEF MemAfter, store_commits
    <2>7. ArchResv' = ArchResv /\ ArchPc' = ArchPc
      BY <2>1, <2>2, ZenonT(30) DEF ArchResv, LockAfter, ReservedAfter, ArchPc
    <2> QED BY <2>1, <2>5, <2>6, <2>7, ZenonT(30) DEF Machine!isaVars
  <1> QED BY <1>1, <1>2, <1>3, PipelineInvariant, PTL DEF Spec, Sequential, Machine!Spec
=============================================================================
