------------------------------ MODULE Pipeline ------------------------------
(***************************************************************************)
(* The five-stage pipeline of cpu.v: program counter, IF/ID, ID/EX, EX/MEM *)
(* and MEM/WB registers, load-use interlock and forwarding (hazard_unit),  *)
(* traps (trap_controller, csr_file), the divider, and the reservation.    *)
(* One step is one clock edge.                                             *)
(*                                                                         *)
(* Inputs of an edge: whether a memory, peripheral or fetch access freezes *)
(* the pipeline (MemStage models those accesses; here one takes effect on  *)
(* the edge that releases it), the two interrupt lines, and what the       *)
(* branch predictors guess, which may be anything.                         *)
(***************************************************************************)
EXTENDS RiscV

CONSTANTS
  Programs,    \* programs: functions from addresses to Inst
  DataImage,   \* data memory at reset
  PowerUp,     \* values a register may hold after power-up
  RasTargets   \* return addresses the return address stack may guess

ASSUME PipelineAssumption ==
  /\ \A p \in Programs : DOMAIN p \subseteq Word /\ \A a \in DOMAIN p : p[a] \in Inst
  \* FENCE shares the control word of add; its rd field is always zero.
  /\ \A p \in Programs : \A a \in DOMAIN p : p[a].op = "fence" => p[a].rd = 0
  /\ DataImage \in [Aligned -> Word] /\ PowerUp \subseteq Word /\ RasTargets \subseteq Word

VARIABLES
  prog,                        \* instruction memory, as the I-cache delivers it
  pc, if_id, id_ex, ex_mem, mem_wb,
  x,                           \* register file
  mem,                         \* data memory, as the MEM stage sees it
  csr,
  lock_valid, reserved_addr,   \* reservation monitor
  div,                         \* divider
  div_result_ready

stages == <<pc, if_id, id_ex, ex_mem, mem_wb>>
vars == <<prog, stages, x, mem, csr, lock_valid, reserved_addr, div, div_result_ready>>

-----------------------------------------------------------------------------
\* The pipeline registers

IfIdClear == [valid |-> FALSE, pc |-> 0, inst |-> Nop, predicted_taken |-> FALSE,
              predicted_target |-> 0]

IdExClear == [valid |-> FALSE, pc |-> 0, inst |-> Nop, predicted_taken |-> FALSE,
              predicted_target |-> 0, rs1 |-> 0, rs2 |-> 0]

ExMemClear == [valid |-> FALSE, inst |-> Nop, pc |-> 0, alu |-> 0, rs2 |-> 0, rd |-> 0,
               reg_wen |-> FALSE, mem_rw |-> FALSE, wb_sel |-> "mem", atomic |-> "none",
               size |-> 2]

MemWbClear == [valid |-> FALSE, alu |-> 0, data |-> 0, pc |-> 0, rd |-> 0,
               reg_wen |-> FALSE, wb_sel |-> "mem", size |-> 2]

DivIdle == [busy |-> FALSE, done |-> FALSE, count |-> 0, hi |-> 0, lo |-> 0, divisor |-> 0,
            neg_q |-> FALSE, neg_r |-> FALSE, quotient |-> 0, remainder |-> 0]

Init ==
  /\ prog \in Programs
  /\ pc = 0 /\ if_id = IfIdClear /\ id_ex = IdExClear
  /\ ex_mem = ExMemClear /\ mem_wb = MemWbClear
  /\ x \in [Regs -> PowerUp \cup {0}] /\ x[0] = 0 /\ \A r \in Regs \ {0} : x[r] \in PowerUp
  /\ mem = DataImage
  /\ csr = CsrInit
  /\ lock_valid = FALSE /\ reserved_addr = 0
  /\ div = DivIdle /\ div_result_ready = FALSE

-----------------------------------------------------------------------------
\* WB and MEM

wb_data ==
  CASE mem_wb.wb_sel = "alu" -> mem_wb.alu
    [] mem_wb.wb_sel = "mem" -> mem_wb.data
    [] mem_wb.wb_sel = "link" -> Wrap(mem_wb.pc + mem_wb.size)

sc_successful == lock_valid /\ ex_mem.alu = reserved_addr

is_load == ex_mem.wb_sel = "mem" /\ ex_mem.reg_wen /\ ex_mem.atomic # "amo"
store_commits == ex_mem.mem_rw /\ (ex_mem.atomic # "sc" \/ sc_successful)

final_alu_to_wb ==
  IF ex_mem.atomic = "sc" THEN (IF sc_successful THEN 0 ELSE 1) ELSE ex_mem.alu

\* Data memory after the access in MEM (of the AMOs, the swap).
MemAfter ==
  IF store_commits \/ ex_mem.atomic = "amo" THEN [mem EXCEPT ![ex_mem.alu] = ex_mem.rs2] ELSE mem

\* The reservation after the access in MEM: a trap clears it before anything
\* else, then LR sets it, then SC, a store or an AMO clears it.
LockAfter(trap) ==
  IF trap THEN FALSE
  ELSE IF ex_mem.atomic = "lr" /\ is_load THEN TRUE
  ELSE IF ex_mem.atomic = "sc" \/ ex_mem.mem_rw \/ ex_mem.atomic = "amo" THEN FALSE
  ELSE lock_valid

ReservedAfter(trap) ==
  IF ~trap /\ ex_mem.atomic = "lr" /\ is_load THEN ex_mem.alu ELSE reserved_addr

-----------------------------------------------------------------------------
\* hazard_unit

id_ex_mem_read == wb_sel(id_ex.inst) = "mem" /\ reg_wen(id_ex.inst)

\* A stall that looks at rs1 only.
stall_rs1_only ==
  /\ id_ex_mem_read /\ id_ex.inst.rd # 0
  /\ rs1_used(if_id.inst) /\ id_ex.inst.rd = if_id.inst.rs1

stall ==
  /\ id_ex_mem_read /\ id_ex.inst.rd # 0
  /\ \/ rs1_used(if_id.inst) /\ id_ex.inst.rd = if_id.inst.rs1
     \/ rs2_used(if_id.inst) /\ id_ex.inst.rd = if_id.inst.rs2

ex_mem_fwdable == ex_mem.reg_wen /\ ex_mem.wb_sel # "mem"

ex_mem_forward_data ==
  IF ex_mem.atomic = "sc" THEN final_alu_to_wb
  ELSE IF ex_mem.wb_sel = "link" THEN Wrap(ex_mem.pc + ex_mem.size)
  ELSE ex_mem.alu

\* The older of two producers wins.
Forward_oldest(r, latched) ==
  IF mem_wb.reg_wen /\ mem_wb.rd = r /\ mem_wb.rd # 0 THEN wb_data
  ELSE IF ex_mem_fwdable /\ ex_mem.rd = r /\ ex_mem.rd # 0 THEN ex_mem_forward_data
  ELSE latched

Forward(r, latched) ==
  IF ex_mem_fwdable /\ ex_mem.rd = r /\ ex_mem.rd # 0 THEN ex_mem_forward_data
  ELSE IF mem_wb.reg_wen /\ mem_wb.rd = r /\ mem_wb.rd # 0 THEN wb_data
  ELSE latched

fwd_rs1 == Forward(id_ex.inst.rs1, id_ex.rs1)
fwd_rs2 == Forward(id_ex.inst.rs2, id_ex.rs2)

\* The register file writes in WB and reads in ID, with a bypass.
ReadReg(r) ==
  IF r = 0 THEN 0
  ELSE IF mem_wb.reg_wen /\ mem_wb.rd = r THEN wb_data
  ELSE x[r]

XAfter == IF mem_wb.reg_wen /\ mem_wb.rd # 0 THEN [x EXCEPT ![mem_wb.rd] = wb_data] ELSE x

-----------------------------------------------------------------------------
\* EX: operands, divider, branches

alu_a == IF a_sel(id_ex.inst) THEN id_ex.pc ELSE fwd_rs1
alu_b == IF b_sel(id_ex.inst) THEN Imm(id_ex.inst) ELSE fwd_rs2

\* The adder a bit too wide.
redirect_target_adder_wide == alu_a + alu_b

redirect_target_adder == Wrap(alu_a + alu_b)

div_start ==
  is_div_op(id_ex.inst) /\ ~div.busy /\ ~div.done /\ ~div_result_ready
div_stall == is_div_op(id_ex.inst) /\ ~div_result_ready

is_signed == id_ex.inst.op \in {"div", "rem"}
a_abs == IF is_signed /\ Bit(alu_a, W - 1) THEN Wrap(-alu_a) ELSE alu_a
b_abs == IF is_signed /\ Bit(alu_b, W - 1) THEN Wrap(-alu_b) ELSE alu_b

DivNext ==
  IF div_start
  THEN IF alu_b = 0
       THEN [div EXCEPT !.quotient = Wrap(-1), !.remainder = alu_a, !.done = TRUE]
       ELSE IF is_signed /\ alu_a = 2 ^ (W - 1) /\ alu_b = Wrap(-1)
       THEN [div EXCEPT !.quotient = 2 ^ (W - 1), !.remainder = 0, !.done = TRUE]
       ELSE [div EXCEPT !.hi = 0, !.lo = a_abs, !.divisor = b_abs, !.count = 0,
               !.neg_q = is_signed /\ Bit(alu_a, W - 1) # Bit(alu_b, W - 1),
               !.neg_r = is_signed /\ Bit(alu_a, W - 1), !.busy = TRUE, !.done = FALSE]
  ELSE IF div.busy
  THEN LET top == Wrap(2 * div.hi) + (IF Bit(div.lo, W - 1) THEN 1 ELSE 0)
           borrow == top < div.divisor
           hi == IF borrow THEN top ELSE top - div.divisor
           lo == Wrap(2 * div.lo) + (IF borrow THEN 0 ELSE 1)
           step == [div EXCEPT !.hi = hi, !.lo = lo] IN
       IF div.count = W - 1
       THEN [step EXCEPT !.busy = FALSE, !.done = TRUE,
               !.quotient = IF div.neg_q THEN Wrap(-lo) ELSE lo,
               !.remainder = IF div.neg_r THEN Wrap(-hi) ELSE hi]
       ELSE [step EXCEPT !.count = @ + 1]
  ELSE [div EXCEPT !.done = FALSE]

\* The result flag that only leaves with the kind of instruction in EX.
DivReadyNext_by_kind(gstall) ==
  IF div.done THEN TRUE ELSE IF ~is_div_op(id_ex.inst) THEN FALSE ELSE div_result_ready

\* The result flag as a pulse.
DivReadyNext_pulse(gstall) == div.done

DivReadyNext(gstall) ==
  IF div.done THEN TRUE ELSE IF div_result_ready /\ ~gstall THEN FALSE ELSE div_result_ready

ex_result ==
  IF is_div_op(id_ex.inst)
  THEN IF id_ex.inst.op \in {"rem", "remu"} THEN div.remainder ELSE div.quotient
  ELSE redirect_target_adder

actual_ex_result == IF id_ex.inst.op = "csr" THEN csr[id_ex.inst.csr] ELSE ex_result

is_branch == id_ex.inst.op = "beq"
is_jal == id_ex.inst.op = "jal"
is_jalr == id_ex.inst.op = "jalr"
branch_actual_taken == is_branch /\ fwd_rs1 = fwd_rs2
branch_mispredicted == is_branch /\ branch_actual_taken # id_ex.predicted_taken
jalr_ras_mispredicted ==
  is_jalr /\ id_ex.predicted_taken /\ redirect_target_adder # id_ex.predicted_target

pc_sel ==
  \/ is_jal /\ ~id_ex.predicted_taken
  \/ is_jalr /\ (~id_ex.predicted_taken \/ jalr_ras_mispredicted)
  \/ branch_mispredicted

ex_redirect_target ==
  IF is_jal \/ is_jalr \/ branch_actual_taken THEN redirect_target_adder
  ELSE Wrap(id_ex.pc + id_ex.inst.size)

-----------------------------------------------------------------------------
\* trap_controller.  Inputs: the frozen pipeline and the two interrupt wires.

is_mret == id_ex.inst.op = "mret"
is_ecall == id_ex.inst.op = "ecall"

Fires(line, enable, gstall) ==
  line /\ Bit(csr.mstatus, MIE) /\ Bit(csr.mie, enable) /\ id_ex.valid /\ ~gstall /\ ~stall

\* Interrupts also come while EX holds a bubble.
hw_irq_on_bubble(timer, external, gstall) ==
  /\ (timer /\ Bit(csr.mie, MTIE)) \/ (external /\ Bit(csr.mie, MEIE))
  /\ Bit(csr.mstatus, MIE) /\ ~gstall /\ ~stall /\ ~is_mret

hw_irq(timer, external, gstall) ==
  (Fires(timer, MTIE, gstall) \/ Fires(external, MEIE, gstall)) /\ ~is_mret

fault_illegal(gstall) == id_ex.valid /\ id_ex.inst.op = "illegal" /\ ~gstall
fault_ld_align(gstall) ==
  id_ex.valid /\ misalign_load(id_ex.inst, redirect_target_adder) /\ ~gstall
fault_st_align(gstall) ==
  id_ex.valid /\ misalign_store(id_ex.inst, redirect_target_adder) /\ ~gstall

\* mret acts in every cycle it spends in EX.
mret_fires_frozen(gstall) == is_mret

mret_fires(gstall) == is_mret /\ ~gstall
ecall_fires(gstall) == is_ecall /\ ~gstall

trap_taken(timer, external, gstall) ==
  \/ hw_irq(timer, external, gstall)
  \/ fault_illegal(gstall) \/ fault_ld_align(gstall) \/ fault_st_align(gstall)
  \/ ecall_fires(gstall)

trap_cause(timer, external, gstall) ==
  IF hw_irq(timer, external, gstall)
  THEN IF Fires(external, MEIE, gstall) THEN CauseExternal ELSE CauseTimer
  ELSE IF fault_illegal(gstall) THEN CauseIllegal
  ELSE IF fault_ld_align(gstall) THEN CauseLoadAlign
  ELSE IF fault_st_align(gstall) THEN CauseStoreAlign
  ELSE CauseEcall

\* mtval: the encoding (here its immediate field) or the address.
trap_val(timer, external, gstall) ==
  IF hw_irq(timer, external, gstall) THEN 0
  ELSE IF fault_illegal(gstall) THEN id_ex.inst.imm
  ELSE IF fault_ld_align(gstall) \/ fault_st_align(gstall) THEN redirect_target_adder
  ELSE 0

\* The three flushes and the override of the PC always come together.
pc_trap_override(timer, external, gstall) ==
  trap_taken(timer, external, gstall) \/ mret_fires(gstall)

trap_target_pc(timer, external, gstall) ==
  IF trap_taken(timer, external, gstall) THEN csr.mtvec ELSE csr.mepc

\* csr_file
ex_csr_wen(gstall) == id_ex.inst.op = "csr" /\ ~gstall /\ ~stall

CsrNext(timer, external, gstall) ==
  IF trap_taken(timer, external, gstall)
  THEN CsrAfterTrap(csr, trap_cause(timer, external, gstall),
                    trap_val(timer, external, gstall), id_ex.pc)
  ELSE IF mret_fires(gstall) THEN CsrAfterMret(csr)
  ELSE IF ex_csr_wen(gstall)
  THEN [csr EXCEPT ![id_ex.inst.csr] =
          CsrWrite(id_ex.inst.csr_op, @,
                   IF id_ex.inst.use_imm THEN id_ex.inst.imm ELSE fwd_rs1)]
  ELSE csr

-----------------------------------------------------------------------------
\* IF: prediction and the program counter

inst == Fetch(prog, pc)
IsLink(r) == r = 1

\* guess: taken, for a branch, or the target the return address stack gives a
\* return.  A jal is always taken at once.
if_predicted_taken(guess, gstall, flush) ==
  /\ ~stall /\ ~gstall
  /\ \/ inst.op = "beq" /\ guess.taken
     \/ inst.op = "jal"
     \/ /\ inst.op = "jalr" /\ IsLink(inst.rs1) /\ ~IsLink(inst.rd) /\ guess.taken
        /\ ~pc_sel /\ ~flush

if_predicted_target(guess) ==
  IF inst.op = "jalr" THEN guess.target ELSE Wrap(pc + inst.imm)

PcNext(guess, timer, external, gstall) ==
  LET trap == pc_trap_override(timer, external, gstall) IN
  IF (stall /\ ~trap) \/ gstall THEN pc
  ELSE IF trap THEN trap_target_pc(timer, external, gstall)
  ELSE IF pc_sel THEN ex_redirect_target
  ELSE IF if_predicted_taken(guess, gstall, trap) THEN if_predicted_target(guess)
  ELSE Wrap(pc + inst.size)

-----------------------------------------------------------------------------
\* The pipeline registers at a clock edge that is not frozen

IfIdNext(guess, flush) ==
  IF pc_sel \/ flush THEN IfIdClear
  ELSE IF stall THEN if_id
  ELSE [valid |-> TRUE, pc |-> pc, inst |-> inst,
        predicted_taken |-> if_predicted_taken(guess, FALSE, flush),
        predicted_target |-> if_predicted_target(guess)]

IdExNext(flush) ==
  IF pc_sel \/ stall \/ flush THEN IdExClear
  ELSE [valid |-> if_id.valid, pc |-> if_id.pc, inst |-> if_id.inst,
        predicted_taken |-> if_id.predicted_taken,
        predicted_target |-> if_id.predicted_target,
        rs1 |-> ReadReg(if_id.inst.rs1), rs2 |-> ReadReg(if_id.inst.rs2)]

\* A bubble carries Nop, whose rd is x0: whether its write enable is set shows
\* nowhere.
ExMemNext(flush) ==
  IF flush
  THEN [ex_mem EXCEPT !.reg_wen = FALSE, !.mem_rw = FALSE, !.atomic = "none",
          !.inst = Nop, !.valid = FALSE]
  ELSE [valid |-> id_ex.valid, inst |-> id_ex.inst, pc |-> id_ex.pc, alu |-> actual_ex_result,
        rs2 |-> fwd_rs2, rd |-> id_ex.inst.rd, reg_wen |-> id_ex.valid /\ reg_wen(id_ex.inst),
        mem_rw |-> mem_rw(id_ex.inst), wb_sel |-> wb_sel(id_ex.inst),
        atomic |-> atomic(id_ex.inst), size |-> id_ex.inst.size]

MemWbNext ==
  [valid |-> ex_mem.valid, alu |-> final_alu_to_wb,
   data |-> IF is_load \/ ex_mem.atomic = "amo" THEN mem[ex_mem.alu] ELSE 0,
   pc |-> ex_mem.pc, rd |-> ex_mem.rd, reg_wen |-> ex_mem.reg_wen, wb_sel |-> ex_mem.wb_sel,
   size |-> ex_mem.size]

Tick(memStall, timer, external, guess) ==
  LET gstall == memStall \/ div_stall
      flush == pc_trap_override(timer, external, gstall) IN
  /\ pc' = PcNext(guess, timer, external, gstall)
  /\ csr' = CsrNext(timer, external, gstall)
  /\ div' = DivNext
  /\ div_result_ready' = DivReadyNext(gstall)
  /\ x' = XAfter
  /\ IF gstall
     THEN UNCHANGED <<if_id, id_ex, ex_mem, mem_wb, mem, lock_valid, reserved_addr>>
     ELSE /\ if_id' = IfIdNext(guess, flush)
          /\ id_ex' = IdExNext(flush)
          /\ ex_mem' = ExMemNext(flush)
          /\ mem_wb' = MemWbNext
          /\ mem' = MemAfter
          /\ lock_valid' = LockAfter(trap_taken(timer, external, gstall))
          /\ reserved_addr' = ReservedAfter(trap_taken(timer, external, gstall))
  /\ UNCHANGED prog

\* What the predictors may say of the instruction being fetched.
Guesses ==
  CASE inst.op = "beq" -> [taken : BOOLEAN, target : {0}]
    [] inst.op = "jalr" -> {[taken |-> FALSE, target |-> 0]} \cup [taken : {TRUE}, target : RasTargets]
    [] OTHER -> {[taken |-> FALSE, target |-> 0]}

Frozen == \E timer, external \in BOOLEAN, guess \in Guesses : Tick(TRUE, timer, external, guess)
Moving == \E timer, external \in BOOLEAN, guess \in Guesses : Tick(FALSE, timer, external, guess)

Next == Frozen \/ Moving

Spec == Init /\ [][Next]_vars

\* Every access completes (MemStage), so the pipeline is not frozen for ever.
FairSpec == Spec /\ WF_vars(Moving)

-----------------------------------------------------------------------------
\* Properties

\* What software sees: an instruction counts as executed once it has left EX,
\* so the registers, memory and reservation are read through the results that
\* are still in MEM and WB.
ArchPc == IF id_ex.valid THEN id_ex.pc ELSE IF if_id.valid THEN if_id.pc ELSE pc

MemResult ==
  CASE ex_mem.wb_sel = "alu" -> final_alu_to_wb
    [] ex_mem.wb_sel = "mem" -> mem[ex_mem.alu]
    [] ex_mem.wb_sel = "link" -> Wrap(ex_mem.pc + ex_mem.size)

ArchX ==
  IF ex_mem.reg_wen /\ ex_mem.rd # 0 THEN [XAfter EXCEPT ![ex_mem.rd] = MemResult] ELSE XAfter

ArchResv == IF LockAfter(FALSE) THEN ReservedAfter(FALSE) ELSE NoAddr

Machine == INSTANCE Isa WITH pc <- ArchPc, x <- ArchX, mem <- MemAfter, resv <- ArchResv

\* The pipeline executes the program one instruction at a time: whatever is
\* forwarded, interlocked, guessed, flushed, frozen or interrupted, every clock
\* edge is one step of the sequential machine or none (cpu.v, hazard_unit,
\* trap_controller, csr_file, div_unit).
Sequential == Machine!Spec

\* The pipeline keeps executing: through every freeze, flush, trap and divide
\* an instruction reaches EX again and again, and leaves it.
KeepsExecuting == []<>id_ex.valid /\ []<><<id_ex' # id_ex>>_vars
=============================================================================
