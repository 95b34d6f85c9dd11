----------------------------- MODULE MCPipeline -----------------------------
(***************************************************************************)
(* Small programs: a prologue that installs the handler and enables        *)
(* interrupts, a body of two instructions in a loop, and the handler.      *)
(***************************************************************************)
EXTENDS Pipeline, SequencesExt

I(op, rd, rs1, rs2, imm) ==
  [Nop EXCEPT !.op = op, !.rd = rd, !.rs1 = rs1, !.rs2 = rs2, !.imm = imm]
C(inst_) == [inst_ EXCEPT !.size = 1]
SetCsr(c, op, rd, v) == [I("csr", rd, 0, 0, v) EXCEPT !.csr = c, !.csr_op = op, !.use_imm = TRUE]
Illegal == I("illegal", 1, 0, 0, 5)

\* The instructions of a list laid out from address 0.
RECURSIVE Layout(_, _)
Layout(s, at) ==
  IF s = <<>> THEN <<>> ELSE (at :> Head(s)) @@ Layout(Tail(s), at + Head(s).size)
Size(s) == FoldSeq(LAMBDA e, n : e.size + n, 0, s)

Prologue(h) == <<SetCsr("mtvec", "rw", 0, h), SetCsr("mie", "rw", 0, 6), SetCsr("mstatus", "rs", 0, 8)>>
\* A handler that returns where it came from, and one that returns behind it.
Resume == <<SetCsr("mepc", "rs", 2, 0), I("mret", 0, 0, 0, 0)>>
Skip == <<SetCsr("mepc", "rs", 2, 0), C(I("imm", 2, 2, 0, 2)),
          [I("csr", 0, 2, 0, 0) EXCEPT !.csr = "mepc"], I("mret", 0, 0, 0, 0)>>

Program(body, handler) ==
  LET n == Size(Prologue(0) \o body) IN
  Layout(Prologue(n + 2) \o body \o <<I("jal", 0, 1, 2, Wrap(-Size(body)))>> \o handler, 0)

\* Producers of x1, each followed by each of its consumers, and sequences that
\* need more: two results for one register, divides and atomics back to back,
\* faults whose result the next instruction wants.
MCProducers == {
  C(I("imm", 1, 0, 0, 4)), I("load", 1, 2, 0, 0), I("rem", 1, 2, 2, 0), I("amo", 1, 2, 1, 0),
  [I("csr", 1, 2, 0, 0) EXCEPT !.csr = "mcause"], I("jal", 1, 1, 2, 2)}
MCConsumers == {
  I("op", 2, 1, 1, 0), I("store", 1, 1, 2, 0), I("beq", 2, 1, 2, 2), C(I("jalr", 0, 1, 0, 0))}
MCSequences == {
  <<I("imm", 1, 0, 0, 4), C(I("imm", 1, 1, 0, 2)), I("auipc", 2, 1, 1, 1)>>,
  <<I("imm", 2, 0, 0, 25), I("div", 1, 2, 1, 0), I("divu", 2, 2, 1, 0)>>,
  <<I("remu", 1, 2, 0, 0), I("div", 2, 1, 2, 0)>>,
  <<I("lr", 1, 2, 0, 0), I("sc", 1, 2, 1, 0), I("op", 2, 1, 2, 0)>>,
  <<I("amo", 1, 0, 2, 0), I("amo", 2, 0, 1, 0)>>}
MCFaults == {
  <<I("load", 1, 0, 0, 1), I("op", 2, 1, 1, 0)>>,
  <<I("fence", 0, 1, 2, 0), I("store", 0, 1, 1, 1), I("imm", 1, 1, 0, 2)>>,
  <<I("lr", 1, 0, 0, 0), I("ecall", 0, 0, 0, 0), I("sc", 1, 0, 1, 0)>>,
  <<Illegal, I("op", 2, 1, 1, 0)>>}
MCBodies == {<<i, j>> : i \in MCProducers, j \in MCConsumers} \cup MCSequences
MCPrograms == {Program(b, Resume) : b \in MCBodies} \cup {Program(b, Skip) : b \in MCFaults}
MCDataImage == [a \in Aligned |-> Wrap(a + 4)]
MCPowerUp == {2}
MCRasTargets == {6, 8}
=============================================================================
