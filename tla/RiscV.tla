-------------------------------- MODULE RiscV --------------------------------
(***************************************************************************)
(* Instructions, their control words and the operations on words, shared   *)
(* by the five-stage pipeline (Pipeline) and the machine that executes one *)
(* instruction at a time (Isa).                                            *)
(*                                                                         *)
(* A word has W bits.  Code addresses count halfwords, so a compressed     *)
(* instruction has size 1 and a full one size 2; a data word occupies two  *)
(* units, so an odd address is misaligned.                                 *)
(***************************************************************************)
EXTENDS Integers, FiniteSets, FiniteSetsExt

CONSTANT W

\* Wide enough for the bits of mstatus and the causes below.
ASSUME WAssumption == W \in Nat /\ W >= 5

Word == 0 .. 2 ^ W - 1
Aligned == {a \in Word : a % 2 = 0}
Wrap(n) == n % 2 ^ W
Regs == 0 .. 2            \* x0, x1 (a link register) and x2

Ops == {"op", "imm", "auipc", "div", "divu", "rem", "remu", "load", "store", "lr", "sc",
        "amo", "beq", "jal", "jalr", "csr", "ecall", "mret", "fence", "illegal"}
Csrs == {"mstatus", "mie", "mtvec", "mepc", "mcause", "mtval"}
CsrOps == {"rw", "rs", "rc"}

\* rd, rs1 and rs2 are the raw fields of the encoding: where the format has no
\* such register they hold immediate payload.
Inst == [op : Ops, rd : Regs, rs1 : Regs, rs2 : Regs, imm : Word, size : {1, 2},
         csr : Csrs, csr_op : CsrOps, use_imm : BOOLEAN]

\* addi x0, x0, 0: what a cleared pipeline register holds.
Nop == [op |-> "imm", rd |-> 0, rs1 |-> 0, rs2 |-> 0, imm |-> 0, size |-> 2,
        csr |-> "mtvec", csr_op |-> "rw", use_imm |-> FALSE]

\* Memory that holds no program reads as zero, an illegal encoding.
Zero == [Nop EXCEPT !.op = "illegal"]
Fetch(prog, pc) == IF pc \in DOMAIN prog THEN prog[pc] ELSE Zero

\* The control word of an instruction.  SYSTEM, FENCE and unknown encodings
\* share the word of add.
reg_wen(i) == i.op \notin {"store", "beq"}
mem_rw(i) == i.op \in {"store", "sc"}
wb_sel(i) ==
  IF i.op \in {"load", "lr", "amo"} THEN "mem"
  ELSE IF i.op \in {"jal", "jalr"} THEN "link"
  ELSE IF i.op \in {"store", "beq"} THEN "mem"
  ELSE "alu"
a_sel(i) == i.op \in {"beq", "jal", "auipc"}
b_sel(i) == i.op \in {"imm", "auipc", "load", "store", "lr", "sc", "amo", "beq", "jal", "jalr"}
atomic(i) == IF i.op \in {"lr", "sc", "amo"} THEN i.op ELSE "none"
is_div_op(i) == i.op \in {"div", "divu", "rem", "remu"}

Imm(i) == IF atomic(i) # "none" THEN 0 ELSE i.imm

\* Whether the instruction really reads the registers its two fields name.
rs1_used(i) == i.op \notin {"jal", "auipc"}
rs2_used(i) == i.op \in {"op", "div", "divu", "rem", "remu", "store", "beq", "lr", "sc", "amo"}

\* A data access at an address that is not a multiple of the word size.
misalign_load(i, addr) == i.op = "load" /\ addr % 2 # 0
misalign_store(i, addr) == i.op \in {"store", "lr", "sc", "amo"} /\ addr % 2 # 0

\* Signed reading of a word, and the quotient that rounds towards zero.
Signed(v) == IF v >= 2 ^ (W - 1) THEN v - 2 ^ W ELSE v
Abs(n) == IF n < 0 THEN -n ELSE n
Sign(n) == IF n < 0 THEN -1 ELSE 1

\* What the M extension defines for the four divide instructions.
DivResult(op, a, b) ==
  LET sa == Signed(a)
      sb == Signed(b)
      sq == Sign(sa) * Sign(sb) * (Abs(sa) \div Abs(sb)) IN
  CASE op = "divu" -> IF b = 0 THEN Wrap(-1) ELSE a \div b
    [] op = "remu" -> IF b = 0 THEN a ELSE a % b
    [] op = "div"  -> IF b = 0 THEN Wrap(-1) ELSE Wrap(sq)
    [] op = "rem"  -> IF b = 0 THEN a ELSE Wrap(sa - sb * sq)

\* Bits.  mstatus.MIE is bit 3 as in the code; MPIE (7), MTIE (7) and MEIE
\* (11) are moved so that they fit a narrow word.
MIE == 3
MPIE == 4
MTIE == 1
MEIE == 2
Bit(v, b) == (v \div 2 ^ b) % 2 = 1
Bits(v) == {b \in 0 .. W - 1 : Bit(v, b)}
OfBits(S) == MapThenSumSet(LAMBDA b : 2 ^ b, S)

\* Binary numbers: what every width satisfies, by induction on W.
ASSUME BinaryAssumption ==
  /\ 2 ^ 0 = 1 /\ 2 ^ (W - 1) \in Nat /\ 2 ^ (W - 1) >= 16
  /\ \A n \in 0 .. W - 1 : 2 ^ n \in Nat \ {0} /\ 2 ^ n <= 2 ^ (W - 1) /\ 2 ^ (n + 1) = 2 * 2 ^ n
  /\ \A S \in SUBSET (0 .. W - 1) : OfBits(S) \in Word

CsrWrite(op, old, v) ==
  CASE op = "rw" -> v
    [] op = "rs" -> OfBits(Bits(old) \cup Bits(v))
    [] op = "rc" -> OfBits(Bits(old) \ Bits(v))

\* mcause; the top bit of the word marks an interrupt.
Interrupt == 2 ^ (W - 1)
CauseExternal == Interrupt + 11
CauseTimer == Interrupt + 7
CauseIllegal == 2
CauseLoadAlign == 4
CauseStoreAlign == 6
CauseEcall == 11

\* The register state after a trap and after mret.
CsrAfterTrap(csr, cause, val, epc) ==
  [csr EXCEPT !.mepc = epc, !.mcause = cause, !.mtval = val,
     !.mstatus = OfBits((Bits(@) \ {MIE, MPIE}) \cup (IF Bit(@, MIE) THEN {MPIE} ELSE {}))]

CsrAfterMret(csr) ==
  [csr EXCEPT !.mstatus = OfBits((Bits(@) \ {MIE}) \cup (IF Bit(@, MPIE) THEN {MIE} ELSE {}))]

CsrInit == [c \in Csrs |-> 0]

\* No reservation: LR has not run, or something took its reservation away.
NoAddr == -1
=============================================================================
