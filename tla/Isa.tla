--------------------------------- MODULE Isa ---------------------------------
(***************************************************************************)
(* What the processor promises software: one instruction at a time, each   *)
(* with its whole effect, and traps only between two instructions.         *)
(***************************************************************************)
EXTENDS RiscV

VARIABLES
  prog,   \* the program; never changes
  pc,
  x,      \* registers
  mem,    \* data memory: address -> word
  csr,
  resv    \* the address LR reserved, or NoAddr

isaVars == <<prog, pc, x, mem, csr, resv>>

i == Fetch(prog, pc)
Addr == Wrap(x[i.rs1] + Imm(i))
Next_pc == Wrap(pc + i.size)

SetReg(v) == x' = IF i.rd = 0 THEN x ELSE [x EXCEPT ![i.rd] = v]

Trap(cause, val) ==
  /\ csr' = CsrAfterTrap(csr, cause, val, pc)
  /\ pc' = csr.mtvec
  /\ resv' = NoAddr
  /\ UNCHANGED <<x, mem>>

\* An enabled interrupt may come before any instruction.
TakeInterrupt ==
  /\ Bit(csr.mstatus, MIE)
  /\ \/ Bit(csr.mie, MTIE) /\ Trap(CauseTimer, 0)
     \/ Bit(csr.mie, MEIE) /\ Trap(CauseExternal, 0)

Exception ==
  \/ i.op = "illegal" /\ Trap(CauseIllegal, i.imm)
  \/ misalign_load(i, Addr) /\ Trap(CauseLoadAlign, Addr)
  \/ misalign_store(i, Addr) /\ Trap(CauseStoreAlign, Addr)
  \/ i.op = "ecall" /\ Trap(CauseEcall, 0)

Mret ==
  /\ i.op = "mret"
  /\ csr' = CsrAfterMret(csr) /\ pc' = csr.mepc
  /\ UNCHANGED <<x, mem, resv>>

Compute ==
  /\ i.op \in {"op", "imm", "auipc", "div", "divu", "rem", "remu", "fence"}
  /\ CASE i.op = "op" -> SetReg(Wrap(x[i.rs1] + x[i.rs2]))
       [] i.op = "imm" -> SetReg(Wrap(x[i.rs1] + i.imm))
       [] i.op = "auipc" -> SetReg(Wrap(pc + i.imm))
       [] i.op = "fence" -> UNCHANGED x
       [] OTHER -> SetReg(DivResult(i.op, x[i.rs1], x[i.rs2]))
  /\ pc' = Next_pc /\ UNCHANGED <<mem, csr, resv>>

Jump ==
  /\ \/ i.op = "beq" /\ pc' = (IF x[i.rs1] = x[i.rs2] THEN Wrap(pc + i.imm) ELSE Next_pc)
                     /\ UNCHANGED x
     \/ i.op = "jal" /\ pc' = Wrap(pc + i.imm) /\ SetReg(Next_pc)
     \/ i.op = "jalr" /\ pc' = Wrap(x[i.rs1] + i.imm) /\ SetReg(Next_pc)
  /\ UNCHANGED <<mem, csr, resv>>

Access ==
  /\ i.op \in {"load", "store", "lr", "sc", "amo"} /\ Addr % 2 = 0
  /\ LET stores == i.op \in {"store", "amo"} \/ (i.op = "sc" /\ resv = Addr) IN
     /\ mem' = IF stores THEN [mem EXCEPT ![Addr] = x[i.rs2]] ELSE mem
     /\ CASE i.op = "store" -> UNCHANGED x
          [] i.op = "sc" -> SetReg(IF stores THEN 0 ELSE 1)
          [] OTHER -> SetReg(mem[Addr])
     /\ resv' = CASE i.op = "lr" -> Addr
                  [] i.op = "load" -> resv
                  [] OTHER -> NoAddr
  /\ pc' = Next_pc /\ UNCHANGED csr

Csr ==
  /\ i.op = "csr"
  /\ csr' = [csr EXCEPT ![i.csr] = CsrWrite(i.csr_op, @, IF i.use_imm THEN i.imm ELSE x[i.rs1])]
  /\ SetReg(csr[i.csr])
  /\ pc' = Next_pc /\ UNCHANGED <<mem, resv>>

Next ==
  /\ TakeInterrupt \/ Exception \/ Mret \/ Compute \/ Jump \/ Access \/ Csr
  /\ UNCHANGED prog

Init ==
  /\ pc = 0 /\ csr = CsrInit /\ resv = NoAddr /\ x[0] = 0

Spec == Init /\ [][Next]_isaVars
=============================================================================
