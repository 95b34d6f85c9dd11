------------------------------ MODULE MemStage ------------------------------
(***************************************************************************)
(* The memory side of the core (cpu.v): the operation in MEM with its data *)
(* cache, tightly coupled memory, timer or device, the AMO sequencer and   *)
(* the reservation, beside the fetch, all joined by global_mem_stall.  A   *)
(* step is one clock edge.                                                 *)
(*                                                                         *)
(* The instructions are the environment: whenever the pipeline advances,   *)
(* the next operation and the next pc are any of the workload's.  At most  *)
(* one store to memory writes Mark in a behaviour and all others write 0,  *)
(* which tells that store from every other one.                            *)
(***************************************************************************)
EXTENDS DCache, ICache, AxiLite, Clint

CONSTANT Workloads   \* records: ops, fetches, and whether traps, divides and the timer occur

Mark == 1
Filled(v) == [l \in Lanes |-> v]

VARIABLES
  clk,                                          \* changes with every edge
  work,                                         \* the workload, never changes
  op, pc,
  pending, done, rdata_latched,                 \* the device handshakes: device -> register
  dev_busy, uart_ready, uart_rdata,             \* the UART
  amo_state, amo_old_value, amo_result_ready,
  lock_valid, reserved_addr,
  div_stall,
  lines,                                        \* lower memory: line address -> line
  marked, arch, resv, served,                   \* ghosts
  arm, deadline, target                         \* the timer driver: writes made, time set, time to set

memStageVars == <<clk, work, op, pc, pending, done, rdata_latched, dev_busy,
                  uart_ready, uart_rdata, amo_state, amo_old_value, amo_result_ready,
                  lock_valid, reserved_addr, div_stall, lines, marked, arch, resv, served, arm, deadline, target>>
vars == <<dcVars, tcmDVars, icVars, tcmIVars, bridgeVars, slaveVars, clintVars, memStageVars>>

\* Operations: kind, addr, wdata (a byte value), wmask, and the AMO's function.
\* The address of a device register also names it (reg).
Devs == {"uart", "accel"}
NoAddr == [region |-> "ddr", tag |-> Invalid.tag, set |-> 0, bank |-> CHOOSE b \in Banks : TRUE]
NoOp == [kind |-> "none", addr |-> NoAddr, wdata |-> 0, wmask |-> {}, fn |-> "swap"]
LineAddrs == [tag : Tags, set : Sets]
DdrAddrs == [region : {"ddr"}, tag : Tags, set : Sets, bank : Banks]
AccelAddrs == [region : {"accel"}, reg : Registers, tag : Tags, set : Sets, bank : Banks]
ArchAddrs == DdrAddrs
             \cup {o.addr : o \in {q0 \in UNION {w.ops : w \in Workloads} :
                                     q0.addr.region \in {"tcm", "accel", "clint"}}}
Times == 0 .. (HALF * HALF) - 1

\* What the operations of a program look like.  Atomics go to memory only, a
\* register is stored whole, and the counter itself is not read.
WellFormed(o) ==
  /\ o.kind \in {"load", "store"} \/ (o.kind \in {"lr", "sc", "amo"} /\ o.addr.region \in {"ddr", "tcm"})
  /\ o.addr.region \in {"ddr", "tcm", "clint"} \cup Devs
  /\ o.addr.set \in Sets /\ o.wdata \in Values /\ o.wmask \subseteq Lanes
  /\ o.addr.region = "ddr" => o.addr \in DdrAddrs
  /\ o.addr.region = "accel" => o.addr \in AccelAddrs
  /\ o.addr.region \in {"accel", "clint"} /\ o.kind = "store" => o.wmask = Lanes
  /\ o.addr.region = "accel" /\ o.addr.reg = "RESULT" =>
       [o.addr EXCEPT !.reg = "RESULT_IDX"] \in ArchAddrs
  /\ o.addr.region = "clint" /\ o.kind = "load" => o.addr.reg \in {"mtimecmp_lo", "mtimecmp_hi"}

\* The TCM is one word here, and a register has one address.
SameLocation(a, b) ==
  CASE a.region = "tcm" -> a = b
    [] a.region = "accel" -> b = [a EXCEPT !.reg = b.reg]
    [] a.region = "clint" -> a.reg = b.reg => a = b
    [] OTHER -> TRUE

ASSUME WorkloadsAssumption ==
  \A w \in Workloads :
    /\ w.traps \in BOOLEAN /\ w.divides \in BOOLEAN /\ w.timer \in BOOLEAN
    /\ w.fetches \subseteq [region : {"ddr", "tcm"}, h : Halves]
    /\ \A o \in w.ops : WellFormed(o) /\ (o.addr.region = "clint" => w.timer)
    /\ \A o1, o2 \in w.ops : o1.addr.region = o2.addr.region => SameLocation(o1.addr, o2.addr)
ASSUME MemoryAssumption == Tags # {} /\ Banks # {} /\ Lanes # {} /\ Values \subseteq Nat /\ 0 \in Values
ASSUME HalfAssumption == HALF \in Nat \ {0}

\* What a location holds after reset.
Reset(a) == IF a.region = "clint" /\ a.reg = "mtimecmp_lo" THEN HALF - 1 ELSE 0

Init ==
  /\ DCacheInit /\ TcmDInit /\ ICacheInit /\ TcmIInit
  /\ clk = 0 /\ work \in Workloads
  /\ op = NoOp /\ pc = [region |-> "tcm", h |-> 0]
  /\ BridgeInit /\ SlaveInit /\ ClintInit
  /\ pending = [v \in Devs |-> FALSE] /\ done = [v \in Devs |-> FALSE]
  /\ rdata_latched = [v \in Devs |-> Filled(0)]
  /\ dev_busy = FALSE /\ uart_ready = FALSE /\ uart_rdata = Filled(0)
  /\ amo_state = "AMO_IDLE" /\ amo_old_value = Filled(Junk) /\ amo_result_ready = FALSE
  /\ lock_valid = FALSE /\ reserved_addr = NoAddr
  /\ div_stall = FALSE
  /\ lines = [a \in LineAddrs |-> [b \in Banks |-> Filled(0)]]
  /\ marked = FALSE /\ arch = [a \in ArchAddrs |-> Filled(Reset(a))] /\ resv = {} /\ served = 0
  /\ arm = 0 /\ deadline = mtimecmp /\ target \in IF work.timer THEN Times ELSE {deadline}

-----------------------------------------------------------------------------
\* MEM decode.

is_amo == op.kind = "amo"
is_load == op.kind \in {"load", "lr"}
is_store == op.kind \in {"store", "sc"}
sc_successful == lock_valid /\ reserved_addr = op.addr
store_commits == is_store /\ (op.kind # "sc" \/ sc_successful)
cacheableOp(o) == o.addr.region \in {"ddr", "tcm"}
cacheable == cacheableOp(op)

amo_read_phase == is_amo /\ amo_state = "AMO_READ"
amo_write_phase == is_amo /\ amo_state = "AMO_WRITE" /\ ~amo_result_ready
amo_stall == is_amo /\ ~amo_result_ready

amo_new_value ==
  [l \in Lanes |-> IF op.fn = "or" /\ amo_old_value[l] > op.wdata THEN amo_old_value[l]
                   ELSE op.wdata]

dcache_ren == (is_load \/ amo_read_phase) /\ cacheable
dcache_wen == (store_commits \/ amo_write_phase) /\ cacheable
dcache_req ==
  [valid |-> dcache_ren \/ dcache_wen, write |-> dcache_wen, addr |-> op.addr,
   wdata |-> IF amo_write_phase THEN amo_new_value ELSE Filled(op.wdata),
   wmask |-> IF amo_write_phase THEN Lanes
             ELSE IF op.kind = "sc" /\ ~sc_successful THEN {} ELSE op.wmask]

dmem_stall == dcache_req.valid /\ ~dcache_ready(dcache_req)
imem_stall == ~cache_ready(pc)

valid(v) == op.addr.region = v /\ (is_load \/ store_commits)

\* A handshake that forgets it was answered and asks again.
req_no_done(v) == valid(v) /\ ~pending[v]

req(v) == valid(v) /\ ~pending[v] /\ ~done[v]

dev_stall == \E v \in Devs : valid(v) /\ ~done[v]

global_mem_stall == dmem_stall \/ imem_stall \/ div_stall \/ dev_stall \/ amo_stall

final_mem_read_data ==
  IF is_amo THEN amo_old_value
  ELSE IF op.addr.region = "clint" THEN Filled(clint_rdata(op.addr.reg))
  ELSE IF op.addr.region \in Devs THEN rdata_latched[op.addr.region]
  ELSE dcache_rdata(dcache_req)

-----------------------------------------------------------------------------
\* Registers of MEM.

ready(v) == IF v = "uart" THEN uart_ready ELSE d_ready
dev_rdata(v) == IF v = "uart" THEN uart_rdata ELSE Filled(d_rdata)

HandshakeTick ==
  /\ pending' = [v \in Devs |-> req(v) \/ (pending[v] /\ ~ready(v))]
  /\ done' = [v \in Devs |-> ready(v) \/ (done[v] /\ global_mem_stall)]
  /\ rdata_latched' = [v \in Devs |-> IF ready(v) THEN dev_rdata(v) ELSE rdata_latched[v]]

\* The UART or the interrupt controller acts on a request at once and answers
\* with a pulse any number of edges later; its data is Mark for a read and 0
\* outside the pulse.
DevTick(answers) ==
  /\ uart_ready' = answers
  /\ uart_rdata' = Filled(IF answers /\ is_load THEN Mark ELSE 0)
  /\ dev_busy' = ((req("uart") \/ dev_busy) /\ ~answers)

\* The accelerator's registers, behind the bridge.
AccelTick ==
  /\ BridgeTick([valid |-> req("accel"), write |-> is_store,
                 addr |-> IF op.addr.region = "accel" THEN op.addr.reg ELSE axi_ar, wdata |-> op.wdata])
  /\ SlaveTick

clint_wen == store_commits /\ op.addr.region = "clint" /\ ~global_mem_stall

\* The timer counts in the workload that uses it; no other reads it.
TimerTick ==
  IF work.timer THEN ClintTick(clint_wen, IF clint_wen THEN op.addr.reg ELSE "", op.wdata)
                ELSE UNCHANGED clintVars

\* A sequencer rearmed only by an instruction that is no AMO.
AmoRearms_not_amo == ~is_amo

AmoRearms == ~is_amo \/ (amo_result_ready /\ ~global_mem_stall)

AmoTick ==
  IF AmoRearms
  THEN /\ amo_state' = "AMO_IDLE" /\ amo_result_ready' = FALSE
       /\ UNCHANGED amo_old_value
  ELSE LET answered == dcache_ready(dcache_req) IN
       /\ amo_state' = CASE amo_state = "AMO_IDLE" -> "AMO_READ"
                         [] amo_state = "AMO_READ" -> IF answered THEN "AMO_WRITE" ELSE "AMO_READ"
                         [] amo_state = "AMO_WRITE" -> "AMO_WRITE"
       /\ amo_old_value' = IF amo_state = "AMO_READ" /\ answered
                           THEN dcache_rdata(dcache_req) ELSE amo_old_value
       /\ amo_result_ready' = (amo_result_ready \/ (amo_state = "AMO_WRITE" /\ answered))

lr_reservation_set == op.kind = "lr" /\ dcache_ren /\ dcache_ready(dcache_req)

\* A clear that does not wait for the SC to leave MEM.
sc_reservation_clear_early == op.kind = "sc"

sc_reservation_clear == op.kind = "sc" /\ ~global_mem_stall

normal_store_reservation_clear ==
  \/ op.kind = "store" /\ \/ dcache_wen /\ dcache_ready(dcache_req)
                          \/ op.addr.region \in Devs /\ ready(op.addr.region)
                          \/ op.addr.region = "clint"
  \/ amo_write_phase /\ dcache_ready(dcache_req)

ReservationTick(trap_taken) ==
  /\ lock_valid' = IF trap_taken THEN FALSE
                   ELSE IF lr_reservation_set THEN TRUE
                   ELSE IF sc_reservation_clear \/ normal_store_reservation_clear THEN FALSE
                   ELSE lock_valid
  /\ reserved_addr' = IF ~trap_taken /\ lr_reservation_set THEN op.addr ELSE reserved_addr

-----------------------------------------------------------------------------
\* What the program should see: the effect of an operation, once, as it
\* leaves MEM.

Merge(word, v, mask) == [l \in Lanes |-> IF l \in mask THEN v ELSE word[l]]
AmoOf(word) == [l \in Lanes |-> IF op.fn = "or" /\ word[l] > op.wdata THEN word[l] ELSE op.wdata]

\* Reading RESULT moves RESULT_IDX on.
IdxAddr == [op.addr EXCEPT !.reg = "RESULT_IDX"]

Retire(trap_taken) ==
  /\ arch' = IF op.addr.region = "uart" THEN arch
             ELSE IF is_load /\ op.addr.region = "accel" /\ op.addr.reg = "RESULT"
             THEN [arch EXCEPT ![IdxAddr] = Filled(NextIdx(@[CHOOSE l \in Lanes : TRUE]))]
             ELSE [arch EXCEPT ![op.addr] =
               CASE op.kind = "store" -> Merge(@, op.wdata, op.wmask)
                 [] op.kind = "sc" -> IF resv = {op.addr} THEN Merge(@, op.wdata, op.wmask) ELSE @
                 [] op.kind = "amo" -> AmoOf(@)
                 [] OTHER -> @]
  /\ resv' = CASE trap_taken -> {}
               [] ~trap_taken /\ op.kind = "lr" -> {op.addr}
               [] ~trap_taken /\ op.kind \in {"store", "sc", "amo"} -> {}
               [] OTHER -> resv

-----------------------------------------------------------------------------
\* One clock edge.

\* The index dc_addr_next names: that of the operation held in MEM, or rs1 + imm
\* of the instruction that enters it, which is its address when it accesses
\* memory (an LR, SC or AMO has immediate 0) and anything otherwise.
IndexOfOp(o) == IF o.kind = "none" THEN Sets ELSE {o.addr.set}

\* A speculation that follows EX also while MEM is frozen.
dc_addr_next_live(next_op) == IF global_mem_stall THEN Sets ELSE IndexOfOp(next_op)

dc_addr_next(next_op) == IndexOfOp(IF global_mem_stall THEN op ELSE next_op)

\* Zephyr's timer driver sets mtimecmp with three stores, the first of which
\* moves it out of the way; it does not read it meanwhile.
SetsTimer(o) == o.kind = "store" /\ o.addr.region = "clint" /\ o.addr.reg \in {"mtimecmp_lo", "mtimecmp_hi"}
Arming == <<[reg |-> "mtimecmp_hi", wdata |-> HALF - 1], [reg |-> "mtimecmp_lo", wdata |-> Lo(target)],
            [reg |-> "mtimecmp_hi", wdata |-> Hi(target)]>>
armNext == IF ~global_mem_stall /\ SetsTimer(op) THEN (arm + 1) % 3 ELSE arm

TimerDriver ==
  /\ arm' = armNext
  /\ IF arm = 2 /\ armNext = 0 THEN deadline' = target /\ target' \in Times
                               ELSE UNCHANGED <<deadline, target>>

Allowed(o) ==
  /\ o.wdata = Mark /\ cacheableOp(o) => ~marked
  /\ o.kind = "load" /\ o.addr.region = "clint" => armNext = 0
  /\ SetsTimer(o) => [reg |-> o.addr.reg, wdata |-> o.wdata] = Arming[armNext + 1]

NextOps(trap_taken) == {NoOp} \cup IF trap_taken THEN {} ELSE {o \in work.ops : Allowed(o)}

Choices ==
  IF global_mem_stall THEN {<<op, pc, FALSE>>}
  ELSE UNION {NextOps(t) \X ({pc} \cup work.fetches) \X {t} : t \in {FALSE, work.traps}}

\* The registers' edge, given what the environment chose: the next
\* instruction, the index speculated, and which requests are answered.
Tick(next_op, pc_next, trap_taken, a_idx, dmem_ready, imem_ready, answers) ==
  /\ DCacheTick(dcache_req, a_idx, dmem_ready, lines[mem_req_addr])
  /\ lines' = IF dmem_ready /\ mem_req_write
              THEN [lines EXCEPT ![mem_req_addr] = wb_line] ELSE lines
  /\ TcmDTick(dcache_req)
  /\ ICacheTick(pc, pc_next.h, imem_ready)
  /\ TcmITick(pc)
  /\ HandshakeTick /\ DevTick(answers) /\ AccelTick /\ TimerTick
  /\ AmoTick
  /\ ReservationTick(trap_taken)
  /\ op' = next_op /\ pc' = pc_next
  /\ marked' = (marked \/ (~global_mem_stall /\ next_op.wdata = Mark /\ cacheableOp(next_op)))
  /\ IF global_mem_stall THEN UNCHANGED <<arch, resv>> ELSE Retire(trap_taken)
  /\ served' = IF ~global_mem_stall THEN 0
               ELSE IF (req("uart") \/ doWrite \/ readDone) /\ served < 2 THEN served + 1 ELSE served
  /\ clk' = 1 - clk /\ UNCHANGED work

\* A divide in EX holds the pipeline until its result is ready.
DivTick(ends) ==
  div_stall' \in IF global_mem_stall THEN {div_stall /\ ~ends} ELSE {FALSE, work.divides}

Step(dmem_ready, imem_ready, answers, ends) ==
  \E c \in Choices : \E a_idx \in dc_addr_next(c[1]) :
    /\ Tick(c[1], c[2], c[3], a_idx, dmem_ready, imem_ready, answers)
    /\ DivTick(ends) /\ TimerDriver

Next ==
  \E dmem_ready \in {FALSE, mem_req_valid}, imem_ready \in {FALSE, iState = "S_FILL"},
     answers \in {FALSE, req("uart") \/ dev_busy}, ends \in {FALSE, div_stall} :
    Step(dmem_ready, imem_ready, answers, ends)

Spec == Init /\ [][Next]_vars

\* The memory answers every line request, the device every access, and a
\* divide ends; the clock does not stop.
DAnswers == mem_req_valid /\ dState' = StateNext(dcache_req, TRUE)
IAnswers == iState = "S_FILL" /\ iState' = IStateNext(pc, TRUE)
DevAnswers == dev_busy /\ dev_busy' = FALSE
DivEnds == div_stall /\ div_stall' = FALSE
ClockRuns == clk' = 1 - clk

FairSpec ==
  /\ Spec
  /\ WF_clk(ClockRuns) /\ WF_dState(DAnswers) /\ WF_iState(IAnswers)
  /\ WF_dev_busy(DevAnswers) /\ WF_div_stall(DivEnds)

-----------------------------------------------------------------------------

\* A load, LR or AMO that leaves MEM carries the value the last store to that
\* address wrote, through hits, bypass, refills and write-backs of a line that
\* lives in two places (dcache_bram.v); a device load carries the answer the
\* device gave for one cycle (rdata_latched, cpu.v), through the bridge the
\* register as the program order left it, although reading RESULT changes it
\* (axi_lite_bridge.v, MmAccel.scala).
LoadsRight ==
  ~global_mem_stall /\ op.kind \in {"load", "lr", "amo"} =>
    final_mem_read_data =
      IF op.addr.region = "uart" THEN Filled(Mark)
      ELSE IF op.addr.region = "accel" /\ op.addr.reg = "RESULT"
      THEN Filled(Results[arch[IdxAddr][CHOOSE l \in Lanes : TRUE]])
      ELSE arch[op.addr]

\* An SC that leaves MEM reports success exactly when the reservation of the
\* program order still stands: an LR of that address, and no store, AMO, SC or
\* trap since (reservation_monitor.v and the gating in cpu.v).
ScExact ==
  ~global_mem_stall /\ op.kind = "sc" => (sc_successful <=> resv = {op.addr})

\* A device access acts on the device exactly once, however long another
\* source keeps the pipeline frozen (uart_pending and uart_done, cpu.v): one
\* request to the UART, one register write or read behind the bridge.
OncePerAccess ==
  /\ served < 2
  /\ ~global_mem_stall /\ (\E v \in Devs : valid(v)) => served = 1

\* The timer never fires early while it is set: between the three stores, with
\* any stalls and a running mtime, an interrupt means that the old or the new
\* deadline has passed (the storm that the comment in clint_timer.v records).
NoEarlyTick == timer_interrupt => mtime >= deadline \/ (arm # 0 /\ mtime >= target)

\* The instruction handed to IF is the two halfwords at pc, also when they lie
\* in two lines and when the array was addressed by a wrong guess of pc
\* (icache_bram.v, tcm.v).
FetchRight == ~imem_stall => if_inst(pc) = <<pc.h, Plus2(pc.h)>>

\* The address guessed one cycle ahead is always the one then asked for
\* (dc_addr_next and pc_next, cpu.v), so that a hit costs no cycle and the
\* re-read that spec_ok guards in both caches is never taken.
SpeculationExact ==
  /\ dState = "S_IDLE" /\ InDdr(dcache_req) => spec_ok(dcache_req)
  /\ iState = "S_IDLE" /\ fetch_valid(pc) => i_spec_ok(pc.h)

\* No combination of the stall sources freezes the pipeline for ever, whatever
\* the phase of the one-cycle answers of the two TCM ports and of the devices
\* (the livelock the comments above uart_valid in cpu.v record).
StallEnds == []<>~global_mem_stall
=============================================================================
