# TLA+ models of the rv32imac SoC

This directory models the RV32IMAC system-on-chip of this repository: the core
with its caches and timer, the memory path, the interrupt-driven console, the
matrix accelerator, the drivers and samples that use them, and the CoreMark port
that runs on the core. TLC checks the models on small instances. TLAPS proves
the central results about the pipeline, the memory side of the core with its
caches, the memory paths, the console, the systolic array and the accelerator
driver for every instance.
`PROJECT.json` maps every definition to the lines it models.

Paths in this file are relative to the repository. RTL files are in `src/`.

## 1. The system

| Part | Source | State | Operations | Interacts with |
|---|---|---|---|---|
| Pipeline | `cpu.v`, `hazard_unit.v`, `regfile.v` | pc, IF/ID, ID/EX, EX/MEM, MEM/WB, registers | one clock edge: advance, freeze, stall, flush, redirect, forward | everything below |
| Traps and CSRs | `trap_controller.v`, `csr_file.v` | mstatus, mie, mtvec, mepc, mcause, mtval | interrupt, fault, ECALL, MRET, CSR instructions | pipeline |
| Divider | `div_unit.v`, ready latch in `cpu.v` | iteration registers, `div_result_ready` | start, iterate, finish, release | pipeline |
| Prediction | `cpu.v` (PHT, GHR, RAS) | tables | guess, update | fetch |
| Memory stage | `cpu.v`, `reservation_monitor.v` | device pending/done latches, AMO sequencer, reservation | load, store, LR, SC, AMO, device access | caches, TCM, devices |
| Data cache | `dcache_bram.v`, `dcache.v` | arrays, dirty bits, bypass, FSM | sweep, hit, capture, write back, fill, recheck | memory stage, arbiter |
| Instruction cache | `icache_bram.v`, `icache.v` | two banks, tags, FSM | sweep, hit in one or two lines, fill, recheck | fetch, arbiter |
| TCM | `tcm.v` | two banks, port registers | fetch, read, write | both caches' front ends |
| Arbiter | `mem_arbiter_rw.v` | read grant and write grant with rotation | grant, count lines, retire | caches, accelerator, engine |
| AXI engine | `axi_rw_engine.v` | read FSM and write FSM: beat, line and timeout counters | accept, address, beat, response, timeout, resume | arbiter, AXI slave |
| Interrupt controller | `intc.v` | pending, enable, previous inputs | latch edges, read, write, clear | devices, trap controller |
| UART | `uart_mmio.v`, `uart_tx.v`, `uart_rx.v` | start pulse, shift state, holding register | send, receive, status | memory stage, interrupt controller |
| Drivers | `zephyr/drivers/` | application queue, lock, semaphore, statistics | enable, disable, poll, handle, submit, wait, flush, displace | devices, caches |
| Samples | `zephyr/samples/` | buffers, threads | stage, submit, check, flush | drivers |
| CoreMark | `fpga/coremark/` | list, state block, matrices, checksums, clock | initialise, calibrate, iterate, validate | timer |
| Accelerator | `chisel/src/MmAccel.scala` (generates `mm_accel.v`) | descriptor queue, sequencer, load engine, panels, array, result DMA, registers | push, start, load, prefetch, compute, store, SOFT_RST | arbiter, bus, interrupt controller |
| Timer | `clint_timer.v` | mtime, mtimecmp | count, write halves | memory stage, traps |
| AXI-Lite bridge | `axi_lite_bridge.v` | FSM | one access at a time | memory stage, accelerator |
| Stateless blocks | `alu.v`, `branch_comp.v`, `rvc_expansion.v`, `partial_load.v`, `partial_store.v`, `immgen.v`, `control_logic.v` | none | functions | pipeline |
| Fallback memory path | `axi_cache_adapter.v`, `mem_arbiter.v`, `accel_port_join.v`, `cache_core.v` | single-port arbiter and adapter | as the split path | selected by `MEM_PATH_RW = 0` |

What makes the design hard to test: five stages with seven stall sources that
end in any combination of cycles; answers that last one cycle; addresses
guessed a cycle ahead; arrays that return undefined data when read while
written; bursts cut off by a timeout anywhere and resumed; three tiles in
different phases at once in the accelerator; a thread and a handler that use the
same registers without a lock; a DMA that the cache does not see, and a driver
that hides this from its callers by reading lines of a buffer of its own.
`PROJECT.json` lists these hazards with the line where each bites and the
properties that would notice.

## 2. How the models are built

All RTL shares one clock, so a step of a model is one clock edge. A component
module declares the registers of one RTL module as variables and gives an action
`XTick(inputs)` for its edge; wires are operators with their source names. A
*path* or *stage* module conjoins one edge of each component it extends, adds
the environment, and states the properties. Software in `Console` performs at
most one bus access per step. In the GEMM modules a step of a thread is a kernel
call, a register access or one load of a walk: what lies between two points
where an interrupt, another thread or the DMA can matter. In `CoreMark` the
merge sorts are stepped cell by cell.

| Module | Models | Composed in |
|---|---|---|
| `ReadEngine`, `ReadArbiter` | read halves of the AXI engine and of the arbiter | `ReadPath` with three requesters and the slave |
| `WriteEngine`, `WriteArbiter` | write halves | `WritePath` with `ResultDma`, the data cache's write-back and the slave |
| `ResultDma` | result store of the accelerator: fill pipeline, FIFO, bursts | `WritePath`, `AccelQueue` |
| `Intc`, `UartMmio` | interrupt controller, UART | `Console` with both drivers and an application |
| `AccelBatch` | abstract: tiles are done one at a time, in order | refined by `AccelPath` |
| `AccelQueue` | descriptor queue, sequencer, prefetch, load engine, array timing | `AccelPath` with memory ports and the register writes of the driver |
| `SystolicArray` | processing elements, skewed feed, run sequencer | alone |
| `RiscV` | instruction classes: control word, immediate, CSR effects, division | `Isa`, `Pipeline` |
| `Isa` | abstract: one instruction at a time | refined by `Pipeline` |
| `Pipeline` | five stages, forwarding, interlock, traps, divider, redirects | alone; freezes are inputs |
| `DCache`, `ICache` | the two caches with their TCM port | `MemStage` |
| `AxiLite` | the bridge and the accelerator's register port | `MemStage` |
| `Clint` | the timer | `MemStage` |
| `MemStage` | MEM and IF: stalls, device handshakes, AMO, reservation | alone; instructions are inputs |
| `CacheDriver` | the walks of the cache driver, and what a load or store does to the data cache | `GemmDriver` |
| `GemmDriver` | `gemm_run_batch` and the other calls, step by step; the interrupt; the accelerator as `AccelBatch` promises it | `GemmThreads` |
| `GemmThreads` | the samples and other callers as lists of calls, loads and stores | alone |
| `CoreUtil`, `CoreList`, `CoreState`, `CoreMatrix` | checksums, list, state machine and matrix benchmarks as operators on their blocks | `CoreMark` |
| `CoreMark` | `main`, calibration, `iterate`, the list benchmark with its sorts | alone |

`MCx` modules give the constants of the instances; those of `WritePath` are simple
enough to stand in its configurations. The `Proofs` modules hold the
theorems (section 4).

### From the code of the GEMM driver to its model

`pc[t]` is the place of thread `t` in the driver. `lock`: waits for the mutex.
`submit`: flushes the operands of a tile and pushes it. `reset`, `clear`,
`kick`: `k_sem_reset`, `isr_fired = false`, START. `count`: the statistic of
batches that are over before the wait. `wait`: polling or `k_sem_take`. `abort`: the
timeout's SOFT_RST. `resume`: the statistics. `invd`: displaces the
destinations. `unlock`: releases the mutex. `operands` and `range` are the walks of
`gemm_flush_operands` and of a flush by the application. A pending interrupt is
taken after at most `IrqLatency` steps of threads (`Preemptible`): no code of
the GEMM driver masks interrupts. Masking inside kernel calls is not modelled: a
kernel call is one step. `LoseInterrupt` is finding 2.

Abstractions that hold throughout:

- *Data.* Lines are named by their address and beats by their number, so a line
  in the wrong place or put together from the wrong beats is visible. A product
  of the accelerator is the sequence of operand pairs it was made of. In the
  array itself operands are integers and products are computed.
- *Undefined values.* An array read in the cycle it is written returns `Junk`;
  registers and arrays hold arbitrary values after power-up.
- *Timeouts.* Counters are kept, with a small limit.
- *Predictors.* The pipeline may be given any guess the tables could produce.
- *Widths.* A half of a timer register has `HALF` values instead of 2^32. In
  CoreMark, 8-, 16- and 32-bit values keep their width.

## 3. Runs

Each run answers one question. Times are with two workers.

| Run | Shows | Distinct states |
|---|---|---|
| `read_path` | With a slave that may fall silent anywhere and may still owe abandoned bursts, a line is announced only to the requester that waits for it and nobody is passed over more than twice. Until an abandoned burst answers a retry, every announced line is the right one and every fetch completes once the slave answers again | 167,000 |
| `write_path` | What is acknowledged is in memory, `WLAST` is on the right beat, and every write completes once the slave answers; wait states everywhere, timeouts everywhere except inside a line that already asked for its successor | 417,000 |
| `write_resume` | *violation*: the excepted timeouts break `StoreLands` (finding 1) | |
| `console` | No event of an enabled source is forgotten and the queue drains, also with a thread that does not lock; with locking every byte is sent and received once and in order | 418,000 |
| `intc_clear` | *violation*: an edge in the cycle of a clear of its source is dropped (finding 2) | |
| `accel_queue` | Up to four overlapped tiles give the results of one tile at a time (`AccelPath` implements `AccelBatch`), queue and FIFO stay within their depth, SOFT_RST with quiet memory ports leaves nothing to the next batch, and every batch ends | 99,000 |
| `systolic_array` | DONE means that every accumulator holds exactly its dot product; the inductive invariant of the proof | 7,000 |
| `pipeline` | `Pipeline` implements `Isa`; the pipeline keeps executing | 53,000 |
| `mem_stage` | Loads, SC, device accesses and fetches do what the program order says, also through the AXI4-Lite bridge; addresses are guessed exactly; the timer never fires early while it is set; and every stall ends | 135,000 |
| `gemm` | `gemm_run_batch` returns success only for its own finished batch, results are read back right through the cache, no store of the CPU is lost by cache maintenance, and every call returns; with two callers, timeouts, lost interrupts and both ways to wait | 149,000 |
| `gemm_dest` | *violation*: a destination line that is dirty when the batch starts overwrites the results (finding 3) | |
| `coremark` | Every sort returns a stable sorted permutation, every iteration leaves list, state block and matrix A as it found them, the checksums are the ones `main` knows, no scan leaves its block, the calibrated run takes at least ten seconds, and `main` ends | 36,000 |

### Bounds

- *Read path.* Lines of two beats, a timeout limit of 2, panels of up to three
  lines: first, middle and last line differ, and a burst can be cut before its
  first beat, inside a line and between lines, any number of times. One address
  per requester suffices because lines are only compared for equality. The slave
  owes at most two bursts (`MaxOwed`), the retry's and one abandoned before it.
  After it has answered with an abandoned burst it keeps no further one
  (`OneLateBurst`, an action constraint of this run). The proofs are for every
  `MaxOwed` and without `OneLateBurst`.
- *Write path.* Four result lines in rows of two, so that there are bursts over
  the whole tile and bursts per row; a timeout limit of 3, so that a line can wait
  after its `wr_next`, while the FIFO already shows its successor, and go on.
- *Console.* Four bytes sent (two polled) and two received: enough for a byte to
  be queued while another is on the line, while the handler runs, and while the
  thread enables the source. The thread locks or does not, chosen at the start.
- *Accelerator.* Two lanes of two lines, two panels, a queue of two. Three plans
  (`MCPlans`): four tiles that alternate the panels, one computing, one
  prefetched, one storing, one waiting; three tiles with any choice of panels;
  two tiles and one reset, in any cycle with quiet memory ports. Shapes include a
  K_LEN that does not fill a line.
- *Array.* 3 x 3, K_LEN from 0 to 3, three runs, restarted or reset anywhere.
- *Pipeline.* Words of five bits, three registers, 33 programs: every producer
  followed by every consumer, sequences with two results for one register, with
  divisions and atomics back to back, and faults. Each is a loop with a handler,
  under any interrupts, freezes and guesses. Behaviours are unbounded.
- *Memory stage.* Two sets, two tags, two words of two bytes. Seven workloads
  (caching, reservations, atomics in the TCM, devices, fetching, accelerator
  registers, timer), each an unbounded sequence of any of its operations. One
  store to memory writes a mark and all others zero, which tells that store from
  any other. `HALF = 2`: mtime wraps, carries into its high half and passes
  deadlines before, between and after the three stores. It stands still in the
  workloads that do not use it.
- *GEMM.* Two callers, a worker (`MaxWork = 1` store, into sets that collide), a
  queue of two, a cache of four lines of two bytes, operands of two bytes, one of
  them across two lines. The cache starts with a dirty displacement buffer or
  with the destinations in it. Eight workloads: the sample's whole sweep; the
  sample with lost interrupts beside `cache_test`; two callers that fill the
  queue; two callers with timeouts and lost interrupts; two such batches of one
  caller; two batches beside another caller's; a flushed destination beside a
  change of the wait mode; refused calls. `BATCHES = 2` shows a batch
  after a batch, which is where a left-over semaphore would bite.
- *CoreMark.* The three builds whose checksums `main` knows, three kinds of run
  on five smaller memories (360 to 1000 bytes), and calibration with eight times
  per iteration from 1 ms to 1 s, the counter starting at 0 or just before its
  wrap. Builds with a count do 200 iterations. `Detail = 2` iterations of a call
  are run in detail; `MemoryRestored` is why these stand for the rest.

The console may stop when all bytes are sent and the GEMM programs when they are
done, so these runs do not check for deadlock (`QueueDrains` and
`EveryCallReturns` say that they get there); all other runs do.

### Fairness

- The clock does not stop (`WF` on the next-state relation).
- *Paths*: from some time on the slave answers (`<>[][rd_tmo' = 0]`). The engine
  retries for ever, so without this nothing can be promised. For safety the slave
  may delay any handshake, any number of times, and lose write responses or
  deliver them late. It may go on with an abandoned read burst or lose it. It does
  lose an abandoned write burst, but for a response it already owes.
- *Console*: software takes its next step, and a frame ends; the transmitter
  counts bits down unconditionally.
- *Accelerator*: a port that holds a request moves. `read_path` and `write_path`
  show this of the ports.
- *Pipeline*: it is not frozen for ever. `mem_stage` shows this as `StallEnds`.
- *Memory stage*: the line memory, the UART and the divider answer. The first
  is what `read_path` and `write_path` show. Nothing is assumed of the bridge.
- *GEMM*: each thread that can run does, the accelerator works (what
  `BatchEndsInTheEnd` shows), a pending interrupt is taken, and a timeout runs
  out. Losing interrupts is not fair.
- *CoreMark*: the processor executes until `main` has returned.

Each property has at least one mutant: a plausible slip in a mapped definition
that makes TLC find the property violated. They are the operators with a suffix that stand
before the definition they change (`lastT_one_way` before `lastT`). Type
invariants are checked where a proof uses them (`read_path`, and inside `RunInv`)
or where they bound a queue (`accel_queue`).

## 4. Proofs

`ReadPathProofs` proves for every number of beats, timeout limit, panel size and
set of addresses:

- `TypeCorrect`: the type invariant;
- `RightLineAlways`: an announced line is the next line of the request being
  served, put together from its own beats, until the engine takes a beat of a
  burst it had abandoned (`late`);
- `RightRequesterAlways`: a ready pulse reaches only a requester that waits for
  that very line;
- `BoundedBypassAlways`: the rotation passes a requester over at most twice.

`RightLine` is not inductive: it speaks of the cycle in which a line is
announced, and what makes it true is what was collected before. The invariant
`IInv` says for each engine state how the engine's counters, the arbiter's
counters and the slave's latest burst agree (`EngineIdle`, `EngineAddr`, `EngineData`,
`EngineDone`), that the received beats are in their slots, and that the granted
requester still holds its request (`RequesterInv`). The delicate case is the
cycle in which `rd_ready` is up: the engine has counted the line and the arbiter
has not (`Published`). The proof has one lemma per conjunct and splits on the
cases of both FSMs. `BypassInv` relates the bypass counts to the position in the
rotation. Assumptions: at least two beats a line, a timeout limit of at least
one, a burst of at least one line.

The condition `~late` is needed. The engine abandons a burst without draining it
and has nothing to tell the beats of two attempts apart, so only the slave can
keep them apart. The slave of the model may keep every abandoned burst and owe its
beats for as long as it likes, across any number of further retries; the condition
excludes only that one of these beats is delivered to the engine. The other three
theorems do without it, because arbiter and requesters go by `rd_ready` alone. What
follows such a beat is the first observation in section 5.

`SystolicProofs` proves for every array size of at least two, every K_LEN, all
operands and every history of runs, restarts, resets and K_LEN writes:

- `RunInvariance`: `RunInv` is an invariant;
- `ProductAlwaysRight`: DONE implies that every accumulator holds its dot
  product, for a run of at least one term.

`RunInv` says what each register holds in cycle `t`: the operands in the pipes
are those number `t - 1 - i - j`, and an accumulator holds the terms that have
reached it (`PipesFilled`, `Accumulated`). Nothing is said of registers the run
has not reached, so it does not matter what was there. Assumptions: the counter
of eight bits holds the longest run (`DimAssumption`), and `Dot` satisfies the
recurrence of a dot product (`DotAssumption`, which TLC evaluates).

`GemmProofs` proves for every set of threads, queue depth and program of calls:

- `WakesAreOwn`: a call goes past its wait only when the accelerator has finished
  the batch of that call (`NoStaleWake`);
- `NoDrop`: no descriptor is dropped, although the free slots are read before the
  mutex is taken;
- `QuietBetweenCalls`: while nobody holds the mutex the accelerator is idle with
  an empty queue, also after a timeout.

`NoStaleWake` speaks of a thread that has been woken; what makes it true was set
up before the wait. `Inv` adds that the mutex is held exactly in the steps
between lock and unlock (`Mutex`), what the queue and the status hold in each of
these steps (`Phases`), and to which batch a pending interrupt, `isr_fired`, the
semaphore and the two time stamps belong (`Signals`). The argument is that only
the holder of the mutex is in a step these say something of (`HolderKeeps`), so
each of its actions is looked at for that thread alone. The delicate case is the
interrupt that is still pending after its batch was noticed by polling or given
up: it is taken before the next batch is started. This rests on the assumption
that a pending interrupt is taken at most one thread step late (`IrqLatency` is 0
or 1 in `GemmAssumption`). The other assumptions: positive sizes and depth, and
programs made of well-formed calls (`WorkloadAssumption`). Data in cache and
memory are not part of the proof. After a timeout, all of this and the `gemm` run
assume that SOFT_RST ends what the accelerator does at once. That is not shown:
`accel_queue` checks resets only with quiet ports, and a reset during a burst is
the third observation in section 5.

`WritePathProofs` proves for every number of beats, timeout limit, tile shape,
stride, FIFO depth and set of addresses:

- `TransactionsAgree`: the transaction invariant `TxInv`;
- `LastBeatIsLast`: WLAST is raised on the slave's last beat and on no other;
- `WriteBacksLand`: an acknowledged write-back is in memory;
- `StoresLand`: when the result store reports completion, every line of the tile
  is in memory at its address.

`TxInv` relates the engine's counters, the request the arbiter has latched and
the slave's burst in each engine state (`EngineInv`), and says that a line being
written back is the one the engine took at its start, also after a retry
(`WriteBackInv`, `WriteBackBeats`). `StoresLand` needs more: the FIFO and the
fill register hold the lines of the tile from the first that was not popped to
the last that was read out (`FifoInv`), whole bursts are behind the store
(`StoreInv`), the burst being served is the one it asks for (`BurstInv`), and the
beats already sent are in memory (`TileBeats`). Between its early `wr_next` and its
last beat a line may wait; the FIFO is then one line ahead (`Overtaken`) and the
engine must send from `wline_hold`. `StoresLand` has two hypotheses. No line times
out in this interval: without it the theorem is false, which is finding 1. Nobody writes a line of the result buffer back (`Separate`): the
accelerator writes behind the cache, and keeping the buffer clean is the driver's
part, the subject of finding 3.

`MemStageProofs` and `LoadProofs` prove for every cache geometry, every program
of well-formed operations, every stall and every latency:

- `DevicesServed`, `ActsOnce`: a device access has one request, one effect and
  one answer, in that order;
- `MonitorFollows`, `ScDecides`: an SC succeeds exactly when the program's
  reservation stands;
- `FetchCoherent`, `FetchesRight`: the instruction handed to IF is the one at pc;
- `GuessesExact`: a guessed cache index is the one then asked for;
- `DriverArms`, `TicksOnTime`: a timer interrupt means a deadline has passed;
- `MemoryCoherent`, `RegistersCoherent`, `LoadsCarryLastStore`: a load, LR or AMO
  that leaves MEM carries what the last store to its address wrote, and a device
  load the device's own answer.

The recurring problem is that a program's view changes when an operation leaves
MEM, and the hardware's state at some earlier edge of the same operation. Every
invariant therefore says what holds *up to what the operation in MEM has already
done*: `ResvInv` for the monitor; `MemInv` for memory, where the location of the
operation holds either the old word or the operation's result; `AccelInv` for the
registers, by whether the bridge has passed the access on (`HasActed`). What makes
these inductive is below them: `BridgeInv` ties each bridge state to the state of
both AXI channels of the register port, `HandshakeInv` ties the pending and done
latches to the operation, and `CacheInv` says that a clean line equals the lower
memory, that the arrays' output registers together with the write-hit bypass give
the addressed line as it is now (`DcRead`), and which line each state of a miss is
about (`Missing`). The instruction cache has the same shape (`IcLines`, `IcRead`);
an unaligned fetch across two lines needs the arithmetic of `AfterOdd`.
Assumptions: nonempty geometry, a line of two to eight halfwords; programs whose
operations are well-formed (atomics go to memory, a device register is stored
whole and has one address), which is how the drivers and compiled code use the
core; half words of the timer of at least one value.

`PipelineProofs` proves for every word width from five bits, every program, memory
image and register content after power-up, and every choice of guesses, freezes
and interrupts:

- `PipelineInvariant`: the invariant `Inv` below;
- `PipelineImplementsIsa`: `Spec => Sequential`, the refinement of `Isa`. Every
  clock edge is one step of the sequential machine or none.

The refinement mapping reads the state software sees off the stages: the
registers after what is in MEM and WB has written (`ArchX`), memory and
reservation after MEM (`MemAfter`, `ArchResv`), and the pc of the oldest
instruction that has not left EX (`ArchPc`). An instruction takes effect when it
leaves EX. For this to be the instruction at `ArchPc` with the operands the
sequential machine reads, `Inv` says: the instruction in ID is the one the fetch
guessed to follow that in EX, and `pc` is guessed to follow it (`FetchInv`,
`DecodeInv`); a value read in ID is the register's, or WB is about to write it,
and nobody in EX waits for a load in MEM (`OperandInv`), so that forwarding gives
`ArchX` (`ForwardRight`); the control bits in MEM belong together and an address
there is aligned (`ExecuteInv`). A wrong guess cannot survive: `NextPc` shows that
after EX the oldest remaining address is the right one, either because EX
redirected or because the guess was right. A division holds the pipeline
while it iterates, and no edge of this may change its operands (`FreezeSame`), although
WB writes again; `DivLoop` is the loop invariant of restoring division, and
`SignedDivide` takes signed division from the magnitudes. The last part goes
through the cases: a frozen edge and a bubble are stutters (`FreezeSame`,
`Bubble`), an override is a trap, an interrupt or MRET (`TrapRefines`), everything
else the instruction itself (`InstructionRefines`).

Assumptions: words of at least five bits, which the positions of the CSR bits
need (`WAssumption`); facts about powers of two and sums of them that hold for
every width by induction, which the prover cannot do, so TLC evaluates them for the
width of the run (`BinaryAssumption`); programs whose instructions are
well-formed, with `rd` zero in a FENCE (`PipelineAssumption`, and the observation
on FENCE in section 5).

`ConsoleProofs` proves for every number of bytes sent, polled and received, and
every interleaving of thread, handler and hardware:

- `NothingForgotten`: `NoForgottenEvent`, with and without a lock around the
  driver calls;
- `SentInOrder`, `GotInOrder`: with the lock, bytes go on the line once and in
  order, and are received in order but for the ones overwritten.

A callback or a new byte settles an event, so the danger is an event that is
cleared without either. The handler clears only what it has copied to `active`,
which it then dispatches (`ActiveInv`). `intc_intr_enable` clears PENDING of TX
whatever is there, and relies on the look at the transmitter afterwards. That
look finds a ready transmitter only if nothing was written since the edge. With
a lock this is clear: who writes TX_DATA has seen a transmitter that is ready and
whose edge is over (`SureInv`, with the timing of the bus handshake in `TxTiming`
and `Sure`). Without a lock a thread may be interrupted between reading the
status and writing the byte, and its write can come in the very cycle in which
the transmitter becomes ready again. The edge then belongs to the byte before,
and the transmitter is busy (`LateWrite`). `OwedInv` says why the driver still does not
lose it: the edge is pending, the thread is at the end of its call, and either
the trap is taken before its next access or the handler already has the event
(`Caught`). The proof has a lemma for the accesses of each context (`ThreadStep`,
`IsrStep`, `BootStep`) and one for each step that writes TX_DATA or PENDING.
`SendInv` adds that the byte in hand is the head of the queue and that a start
pulse meets an idle transmitter; `RecvInv` that the byte in the holding register
is younger than all that were read or lost and older than the one just arrived.
Of `ConsoleAssumption` the proofs use that there are two sources and that a thread
locks or does not.

Model-checked only, and why:

- liveness and everything under fairness: outside the prover's temporal reach;
- the accelerator's queue with its refinement of `AccelBatch`;
- CoreMark: its lists and state machine are recursive, and what a recursive
  definition computes needs induction over data;
- of the GEMM driver `ResultsRight`, which is about the contents of particular
  buffers of particular callers, and `FlushPreserves`.

## 5. Findings

1. `axi_rw_engine.v:337`. A write line that had already asked for its successor
   is replayed after a timeout and asks again. The comment at line 294 says the
   replay takes this into account. The result FIFO skips a line.
2. `intc.v:81`. A write to PENDING drops an edge of the same source in the same
   cycle. The comment at line 78 says that it is not dropped. `console` shows
   that the drivers never depend on it: both look at the device after clearing.
3. `gemm_rv32_5stage.c:320`. The driver displaces the destinations only after the
   batch. A destination line that is dirty when the batch starts is written back
   over the results. `cache_rv32_5stage.c:43` says that the driver flushes the
   destination first, and `gemm.h:132` that callers need no maintenance.

Observed on the way and not the subject of a run of their own:

- `axi_rw_engine.v:177`: a read burst that times out is not drained. If the slave
  was only slow, the beats it still owes come before those of the retry, and the
  engine takes them in `RD_DATA` for its own. After a timeout inside a line the
  first line of the retry is put together from beats of two lines; the old RLAST
  ends the retry before all lines are there, and as `rd_served` is then set while
  the request is held, the requester waits for ever. Without its condition on
  `late`, `RightLine` is violated in `read_path`. `axi_cache_adapter.v:136` gives
  answers that never come as the reason for the timeout, and spurious R beats as
  seen on the real interconnect.
- `uart_rv32_5stage.c:144`: the callback that primes the transmitter runs in the
  thread with the source unmasked. The handler can run it too between the status
  read and the data write, and the transmitter ignores the second byte. `console`
  therefore promises order only to a thread that locks.
- `MmAccel.scala:1462`: SOFT_RST forgets a load whose burst is still under way,
  and lines that arrive later are taken for lines of the next load. With
  `ResetsInFlight = TRUE`, `accel_queue` violates `ResultsRight`; the run has it
  FALSE.
- A prefetch requested in `qPreW` never starts, because `preBusy` is still set
  when it is asked for, so every second tile is loaded without overlap.
- A run with K_LEN = 0 is one cycle too short to clear the last accumulator.
- The address check of both caches (`spec_ok`) never fails (`SpeculationExact`).
- `control_logic.v:193`: FENCE has the control word of an addition that writes
  `rd`. Assemblers always emit zero there, and the manual tells implementations to
  ignore the field. `PipelineAssumption` asks for the zero, because `Isa` ignores
  it.
- ECALL and MRET are recognised without `funct3`, so a CSR access to 0x000 or
  0x302 acts as one of them.
- With `src_coherent` set, `gemm_run_batch` still flushes the B panel, although
  `gemm.h:34` says that the batch need not flush the operand buffers.
- Two callers can make each other fail with -EBUSY although each batch fits: the
  free slots are read before the mutex is taken.
- CoreMark: with unknown seeds and a run under ten seconds `total_errors` is -1 + 1
  = 0 and the report says "Correct operation validated" (`core_main.c:318,377,401`).
- CoreMark: if a third of TOTAL_DATA_SIZE is 8 N^2 + 1, the aligned result matrix
  ends two bytes inside the next block. None of the sizes checked is of this form.
- CoreMark: the 32-bit cycle counter wraps after 71.58 s at 60 MHz, so a longer
  measured time is wrong.

## 6. What is not modelled

- *Encodings and wide arithmetic*: the ALU's functions, byte and halfword
  alignment, RVC expansion, immediate formats. The pipeline works on instruction
  classes with representative operations, and on words of five bits. `mstatus`
  and `mie` keep their bits at other positions to fit; reads of `mip` are
  left out; `mtval` is the offending value without its encoding.
- *Prediction quality*: the tables are replaced by arbitrary guesses.
- *LR, SC and AMO to devices*, which hang the core (`cpu.v:1616`); software does
  not issue them. Two AMO functions stand for nine.
- *Stores to instructions*: there is no `fence.i` and the caches are not
  coherent with each other.
- *LED and watchdog outputs.*
- *The kernel*: the order of the three stores that set the timer is Zephyr's and is
  modelled as external, as are mutex and semaphore.
- *The accelerator's operand window by registers* (the drivers use the DMA), *bias
  and requantisation*. Three registers stand for the kinds there are.
- *Statistics and reports of the samples; CoreMark's `ee_printf`, `cvt`,
  `check_data_types` and debug output.* They keep no state that a result uses.
- *Bare-metal tests and testbenches*: programs that exercise what is modelled.
- *The AXI slave's error responses*, which the engine ignores.
- *UART bit timing*; a frame is one event.
- *The fallback memory path, FPGA top level, SRAM wrappers, generated and
  superseded accelerators.* See the components in `PROJECT.json`.

## 7. Plan

In this order:

1. Joining `AccelPath` with the write engine, for SOFT_RST during a store burst.
2. Requantisation as operators against a reference definition.
3. The ports of `AccelPath` as an abstract specification that `ReadPath` and
   `WritePath` refine.
4. Proofs: the bound of the result FIFO for every depth; the refinement of
   `AccelBatch`.
