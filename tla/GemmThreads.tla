---------------------------- MODULE GemmThreads -----------------------------
(***************************************************************************)
(* Applications of the GEMM driver: the gemm_threads sample, whose runner  *)
(* thread stages operands once and submits the same batch again and again  *)
(* beside a worker thread, in polling and in interrupt mode; the           *)
(* cache_test sample; and callers that share the accelerator.  A thread is *)
(* the list of calls, loads and stores it makes; main and the runner it    *)
(* creates and joins are one thread, since main waits for it.              *)
(***************************************************************************)
EXTENDS GemmDriver

CONSTANTS
  Workloads,   \* records: prog (what each thread does) and faults (interrupts may be lost)
  Lines,       \* the lines of memory
  BootCaches,  \* contents of the data cache when main starts
  WorkLines,   \* lines the worker thread stores to
  MaxWork,     \* stores of the worker
  BATCHES, a_panel, b_panel, dest  \* the gemm_threads sample

ASSUME WorkloadAssumption ==
  \A w \in Workloads : \A t \in Threads : Len(w.prog[t]) \in Nat /\
  \A i \in 1 .. Len(w.prog[t]) :
    /\ w.prog[t][i].op = "run_batch" => w.prog[t][i].req \in Requests
    /\ w.prog[t][i].op = "flush_operands" => w.prog[t][i].tiles \in Seq(Tiles)

VARIABLES
  load,     \* the workload
  ip,       \* each thread's place in its program
  staged,   \* the value the CPU last stored in each line
  bad,      \* gemm_bad: threads that found a wrong result after a successful call
  work      \* stores made by the worker

appVars == <<load, ip, staged, bad, work>>
vars == <<driverVars, appVars>>

Boot == <<0>>  \* what memory holds after .bss was cleared

Init ==
  /\ load \in Workloads /\ cache \in BootCaches
  /\ dram = [l \in Lines |-> Boot] /\ staged = [l \in Lines |-> Boot]
  /\ gemm_init
  /\ ip = [t \in Threads |-> 1] /\ bad = {} /\ work = 0

-----------------------------------------------------------------------------
(* Programs. *)

StoreTo(line, v) == [op |-> "store", line |-> line, val |-> v]
Verify(line) == [op |-> "verify", line |-> line]

\* gemm_threads.  Operand panels and destinations lie one after the other.
Panel(p) == b_panel + ((p - 1) * OperandBytes)
RunnerTile(p) ==
  [a_src |-> a_panel, b_src |-> Panel(p), dest |-> dest + ((p - 1) * TileBytes),
   b_only |-> p # 1, src_coherent |-> TRUE]

\* A panel holds what tells it from every other: here, its line number.
stage_operands(max) ==
  LET a == LineAt(a_panel)
      b == LineAt(b_panel)
  IN <<StoreTo(a, <<a + 1>>)>> \o [p \in 1 .. max |-> StoreTo(b + p - 1, <<b + p>>)]

check_results(tiles) == [p \in 1 .. Len(tiles) |-> [op |-> "check", tiles |-> tiles, tile |-> p]]

gemm_runner(n_tiles, batch_timeout) ==
  LET tiles == [p \in 1 .. n_tiles |-> RunnerTile(p)]
      batch == [tiles |-> tiles, timeout |-> batch_timeout, out_int8 |-> TRUE, dest_stride |-> 0]
  IN <<[op |-> "flush_operands", tiles |-> tiles]>> \o
     [n \in 1 .. BATCHES |-> [op |-> "run_batch", req |-> batch, loop |-> n > 1]] \o
     check_results(tiles)

run_mode(poll, n_tiles, timeout) ==
  <<[op |-> "set_poll_mode", poll |-> poll], [op |-> "reset_stats"]>> \o gemm_runner(n_tiles, timeout)

\* main: the three ways to wait, for one batch size of the sweep.
SweepPoint(n) == run_mode(TRUE, n, TRUE) \o run_mode(FALSE, n, TRUE) \o run_mode(FALSE, n, FALSE)

\* cache_test: store a pattern, flush it, compare, store again, flush twice.
cache_test(buf, lines) ==
  LET put(v) == [j \in 1 .. lines |-> StoreTo(buf + j - 1, <<v + j>>)]
      flush == <<[op |-> "flush_range", addr |-> buf * DC_LINE, size |-> lines * DC_LINE]>>
  IN put(0) \o flush \o [j \in 1 .. lines |-> Verify(buf + j - 1)] \o
     put(10) \o flush \o put(0) \o <<[op |-> "flush_all"]>>

-----------------------------------------------------------------------------
(* Steps. *)

Running(t) == ip[t] <= Len(load.prog[t])
Op(t) == load.prog[t][ip[t]]
Does(t, op) == Running(t) /\ Op(t).op = op /\ ip' = [ip EXCEPT ![t] = @ + 1]

\* A batch of the loop of gemm_runner is left out once one has failed.
BrokeOff(t) == Op(t).loop /\ rc[t] # "0"

\* The operands of tile i, as the CPU stored them: a b_only tile is multiplied
\* with the last A panel that was loaded before it.
Operand(addr) ==
  [j \in 1 .. (LineAt(addr + OperandBytes - 1) - LineAt(addr) + 1) |-> staged[LineAt(addr) + j - 1]]
Expected(tiles, i) ==
  LET a == CHOOSE j \in 1 .. i : ~tiles[j].b_only /\ \A k \in (j + 1) .. i : tiles[k].b_only
  IN <<Operand(tiles[a].a_src), Operand(tiles[i].b_src)>>

StoreLine(t) ==
  /\ Does(t, "store")
  /\ CpuAccess(t, Store(cache, dram, Op(t).line, Op(t).val))
  /\ staged' = [staged EXCEPT ![Op(t).line] = Op(t).val]
  /\ UNCHANGED <<load, bad, work>>

FlushDest(t) ==
  /\ Does(t, "flush_range") /\ FlushRange(t, cache_data_flush_range(Op(t).addr, Op(t).size))
  /\ UNCHANGED <<load, staged, bad, work>>

FlushAll(t) ==
  /\ Does(t, "flush_all") /\ FlushRange(t, cache_data_flush_all)
  /\ UNCHANGED <<load, staged, bad, work>>

SetMode(t) ==
  /\ Does(t, "set_poll_mode") /\ gemm_set_poll_mode(t, Op(t).poll)
  /\ UNCHANGED <<load, staged, bad, work>>

ResetStats(t) ==
  /\ Does(t, "reset_stats") /\ gemm_reset_stats(t)
  /\ UNCHANGED <<load, staged, bad, work>>

FlushOperands(t) ==
  /\ Does(t, "flush_operands") /\ gemm_flush_operands(t, Op(t).tiles)
  /\ UNCHANGED <<load, staged, bad, work>>

Submit(t) ==
  /\ Does(t, "run_batch") /\ ~BrokeOff(t) /\ RunBatch(t, Op(t).req)
  /\ UNCHANGED <<load, staged, bad, work>>

BreakOff(t) ==
  /\ Does(t, "run_batch") /\ BrokeOff(t) /\ CpuAccess(t, [cache |-> cache, dram |-> dram])
  /\ UNCHANGED <<load, staged, bad, work>>

\* check_results, one tile: the result is read through the cache.
CheckTile(t) ==
  LET line == LineAt(Op(t).tiles[Op(t).tile].dest)
      m == Load(cache, dram, line)
      wrong == CpuView(cache, dram, line) # Expected(Op(t).tiles, Op(t).tile)
  IN /\ Does(t, "check") /\ CpuAccess(t, m)
     /\ bad' = IF wrong /\ rc[t] = "0" THEN bad \cup {t} ELSE bad
     /\ UNCHANGED <<load, staged, work>>

VerifyLine(t) ==
  /\ Does(t, "verify") /\ CpuAccess(t, Load(cache, dram, Op(t).line))
  /\ bad' = IF CpuView(cache, dram, Op(t).line) # staged[Op(t).line] THEN bad \cup {t} ELSE bad
  /\ UNCHANGED <<load, staged, work>>

Outside(t) ==
  \/ StoreLine(t) \/ VerifyLine(t) \/ FlushDest(t) \/ FlushAll(t) \/ SetMode(t) \/ ResetStats(t)
  \/ FlushOperands(t) \/ Submit(t) \/ BreakOff(t) \/ CheckTile(t)

Thread(t) ==
  /\ Preemptible
  /\ \/ Outside(t)
     \/ Inside(t) /\ UNCHANGED appVars

worker ==
  /\ Preemptible /\ work < MaxWork
  /\ \E line \in WorkLines :
       LET m == Store(cache, dram, line, <<work + 1>>) IN
       /\ cache' = m.cache /\ dram' = m.dram
       /\ staged' = [staged EXCEPT ![line] = <<work + 1>>]
  /\ work' = work + 1
  /\ UNCHANGED <<accelVars, dataVars, kicks, pc, callVars, load, ip, bad>>

Finished == \A t \in Threads : pc[t] = "idle" /\ ~Running(t)

Next ==
  \/ \E t \in Threads : Thread(t)
  \/ worker
  \/ Accelerator /\ UNCHANGED appVars
  \/ gemm_isr /\ UNCHANGED appVars
  \/ load.faults /\ LoseInterrupt /\ UNCHANGED appVars

\* Threads run, the accelerator works, interrupts are taken and timeouts run
\* out.  The mutex is handed to a waiter when it is free.
Fairness ==
  /\ \A t \in Threads : WF_vars(Thread(t))
  /\ WF_vars(Accelerator /\ UNCHANGED appVars)
  /\ WF_vars(gemm_isr /\ UNCHANGED appVars)

Spec == Init /\ [][Next]_vars /\ Fairness

-----------------------------------------------------------------------------

\* Every tile that a successful gemm_run_batch computed is read back right:
\* the flush before the push, the batch and the displacement of the stale lines
\* after it hide the cache from the caller, whatever other threads displace
\* meanwhile.
ResultsRight == bad = {}

DestLines ==
  UNION {UNION {LinesOf(x.dest, TileBytes) : x \in {req[t].tiles[i] : i \in DOMAIN req[t].tiles}} : t \in Threads}

\* Cache maintenance loses no store: outside the buffers the DMA writes, the
\* CPU reads what it last stored ("flush preserved all bytes").
FlushPreserves == \A l \in Lines \ DestLines : CpuView(cache, dram, l) = staged[l]

\* Every program comes to its end: no call waits forever, also when interrupts
\* are lost, as long as the caller gave a timeout.
EveryCallReturns == <>Finished
=============================================================================
