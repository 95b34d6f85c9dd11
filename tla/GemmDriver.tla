----------------------------- MODULE GemmDriver -----------------------------
(***************************************************************************)
(* The GEMM driver (gemm_rv32_5stage.c): threads that call gemm_run_batch, *)
(* the accelerator that reads its descriptors, the completion interrupt    *)
(* and the memory they share through a cache the DMA does not see.         *)
(*                                                                         *)
(* A step of a thread is what the code does between two points where an    *)
(* interrupt, another thread or the DMA can matter: a kernel call, a       *)
(* device register, one load of a walk.  The accelerator is the one of     *)
(* AccelBatch: a tile is fetched, then stored, in order.  A tile names its *)
(* buffers by address; its product is the pair of operands it was computed *)
(* from.  Cycle counts are left out, except which kick came before a       *)
(* timestamp.                                                              *)
(***************************************************************************)
EXTENDS CacheDriver

CONSTANTS
  Threads, NoThread,
  Tiles,          \* struct gemm_tile: a_src, b_src, dest, b_only, src_coherent
  QueueDepth,     \* descriptors the hardware queue holds
  OperandBytes,   \* dim * k_len
  TileBytes,      \* bytes of a result tile
  IrqLatency      \* thread steps that can pass before a pending interrupt is taken

ASSUME GemmAssumption ==
  /\ QueueDepth \in Nat \ {0} /\ IrqLatency \in {0, 1}
  /\ OperandBytes \in Nat \ {0} /\ TileBytes \in Nat \ {0}
  /\ NoThread \notin Threads

NULL == -1

VARIABLES
  cache, dram,
  descQ, qBusy, qDone, qOverflow,  \* the accelerator's queue and status
  cur, aPanel, bPanel,             \* the tile in work (<<>>: none) and what was fetched
  irq, age,                        \* batch interrupt pending, for how many thread steps
  done, lock, isr_fired, t_isr, poll_mode, stats,  \* struct gemm_data
  kicks,                           \* batches started: the clock of the timestamps
  pc, req, tile, walk, t_kick, rc  \* each thread's place and locals in the driver

memVars == <<cache, dram>>
accelVars == <<descQ, qBusy, qDone, qOverflow, cur, aPanel, bPanel>>
irqVars == <<irq, age>>
dataVars == <<done, lock, isr_fired, t_isr, poll_mode, stats>>
callVars == <<req, tile, walk, t_kick, rc>>
driverVars == <<memVars, accelVars, irqVars, dataVars, kicks, pc, callVars>>

NoStats == [batches |-> 0, already_done |-> 0, isr_seen |-> 0]
Requests == [tiles : Seq(Tiles), timeout : BOOLEAN, out_int8 : BOOLEAN, dest_stride : Nat]
NoReq == [tiles |-> <<>>, timeout |-> FALSE, out_int8 |-> TRUE, dest_stride |-> 0]

gemm_init ==
  /\ descQ = <<>> /\ qBusy = FALSE /\ qDone = FALSE /\ qOverflow = FALSE
  /\ cur = <<>> /\ aPanel = <<>> /\ bPanel = <<>>
  /\ irq = FALSE /\ age = 0 /\ kicks = 0
  /\ done = 0 /\ lock = NoThread /\ isr_fired = FALSE /\ t_isr = 0
  /\ poll_mode = FALSE /\ stats = NoStats
  /\ pc = [t \in Threads |-> "idle"] /\ req = [t \in Threads |-> NoReq]
  /\ tile = [t \in Threads |-> 0] /\ walk = [t \in Threads |-> <<>>]
  /\ t_kick = [t \in Threads |-> 0] /\ rc = [t \in Threads |-> "0"]

-----------------------------------------------------------------------------
(* The accelerator. *)

Content(addr) ==
  LET first == LineAt(addr)
  IN [j \in 1 .. (LineAt(addr + OperandBytes - 1) - first + 1) |-> dram[first + j - 1]]

AccelFetch ==
  /\ qBusy /\ cur = <<>> /\ descQ # <<>>
  /\ cur' = <<Head(descQ)>> /\ descQ' = Tail(descQ)
  /\ aPanel' = IF Head(descQ).b_only THEN aPanel ELSE Content(Head(descQ).a_src)
  /\ bPanel' = Content(Head(descQ).b_src)
  /\ UNCHANGED <<memVars, qBusy, qDone, qOverflow, irqVars>>

\* The DMA writes DRAM and nothing else: a cached copy of the line stays.
AccelStore ==
  /\ cur # <<>>
  /\ dram' = [l \in DOMAIN dram |-> IF l \in LinesOf(cur[1].dest, TileBytes)
                                    THEN <<aPanel, bPanel>> ELSE dram[l]]
  /\ cur' = <<>>
  /\ UNCHANGED <<cache, descQ, qBusy, qDone, qOverflow, aPanel, bPanel, irqVars>>

\* The queue is empty: DONE rises, and its edge is the batch interrupt.
AccelDone ==
  /\ qBusy /\ cur = <<>> /\ descQ = <<>>
  /\ qBusy' = FALSE /\ qDone' = TRUE /\ irq' = TRUE /\ age' = 0
  /\ UNCHANGED <<memVars, descQ, qOverflow, cur, aPanel, bPanel>>

Accelerator ==
  /\ AccelFetch \/ AccelStore \/ AccelDone
  /\ UNCHANGED <<dataVars, kicks, pc, callVars>>

-----------------------------------------------------------------------------
(* The interrupt. *)

gemm_isr ==
  /\ irq /\ irq' = FALSE /\ age' = 0
  /\ t_isr' = kicks /\ isr_fired' = TRUE
  /\ done' = 1  \* k_sem_give, limit 1
  /\ UNCHANGED <<memVars, accelVars, lock, poll_mode, stats, kicks, pc, callVars>>

\* The interrupt controller drops an edge that meets the clear of its pending
\* bit.
LoseInterrupt ==
  /\ irq /\ irq' = FALSE /\ age' = 0
  /\ UNCHANGED <<memVars, accelVars, dataVars, kicks, pc, callVars>>

\* Interrupts are on in every thread, so one is taken between two of their
\* steps, at most IrqLatency of them after it was raised.
Preemptible ==
  /\ irq => age < IrqLatency
  /\ age' = IF irq THEN age + 1 ELSE age
  /\ irq' = irq

-----------------------------------------------------------------------------
(* gemm_run_batch, one step of thread t at a time. *)

Goes(t, from, to) == pc[t] = from /\ pc' = [pc EXCEPT ![t] = to]
Tile(t) == req[t].tiles[tile[t]]
LastTile(t) == tile[t] = Len(req[t].tiles)

QUEUE_FREE == QueueDepth - Len(descQ)

\* The early returns, all of them before the mutex is taken.
Refusal_slip(r) == IF r.tiles = <<>> \/ (r.out_int8 /\ r.dest_stride # 0) THEN "-EINVAL" ELSE "0"
Refusal(r) ==
  IF r.tiles = <<>> THEN "-EINVAL"
  ELSE IF Len(r.tiles) > QUEUE_FREE THEN "-EBUSY"
  ELSE IF r.out_int8 /\ r.dest_stride # 0 THEN "-EINVAL"
  ELSE "0"

RunBatch(t, r) ==
  /\ rc' = [rc EXCEPT ![t] = Refusal(r)]
  /\ req' = [req EXCEPT ![t] = r]
  /\ Goes(t, "idle", IF Refusal(r) = "0" THEN "lock" ELSE "idle")
  /\ UNCHANGED <<memVars, accelVars, dataVars, kicks, tile, walk, t_kick>>

\* The flushes before a push: A unless the caller vouches for it or the tile
\* keeps the resident panel, B in every case.
OperandWalk(x) ==
  (IF x.src_coherent \/ x.b_only \/ x.a_src = NULL THEN <<>>
   ELSE cache_data_flush_range(x.a_src, OperandBytes)) \o
  (IF x.b_src = NULL THEN <<>> ELSE cache_data_flush_range(x.b_src, OperandBytes))

DestWalk_slip(x) == <<>>
DestWalk(x) == IF x.dest = NULL THEN <<>> ELSE cache_data_invd_range(x.dest, TileBytes)

Enter(t, i, w) == tile' = [tile EXCEPT ![t] = i] /\ walk' = [walk EXCEPT ![t] = w]

Lock(t) ==
  /\ Goes(t, "lock", "submit")
  /\ lock = NoThread /\ lock' = t
  /\ Enter(t, 1, OperandWalk(req[t].tiles[1]))
  /\ UNCHANGED <<memVars, accelVars, done, isr_fired, t_isr, poll_mode, stats, kicks, req, t_kick, rc>>

\* One load of displace_buf, of whichever walk the thread is in.
DisplaceLine(t) ==
  /\ walk[t] # <<>> /\ pc[t] \in {"submit", "invd", "operands", "range"}
  /\ LET m == Displace(cache, dram, Head(walk[t])) IN cache' = m.cache /\ dram' = m.dram
  /\ walk' = [walk EXCEPT ![t] = Tail(@)]
  /\ UNCHANGED <<accelVars, dataVars, kicks, pc, req, tile, t_kick, rc>>

\* REG_DESC_PUSH: a full queue drops the descriptor.
PushDesc(t) ==
  /\ pc[t] = "submit" /\ walk[t] = <<>>
  /\ IF QUEUE_FREE > 0
       THEN descQ' = Append(descQ, Tile(t)) /\ UNCHANGED qOverflow
       ELSE qOverflow' = TRUE /\ UNCHANGED descQ
  /\ IF LastTile(t)
       THEN Goes(t, "submit", "reset") /\ UNCHANGED <<tile, walk>>
       ELSE /\ Goes(t, "submit", "submit")
            /\ Enter(t, tile[t] + 1, OperandWalk(req[t].tiles[tile[t] + 1]))
  /\ UNCHANGED <<memVars, qBusy, qDone, cur, aPanel, bPanel, dataVars, kicks, req, t_kick, rc>>

SemReset_slip(t) ==
  /\ Goes(t, "reset", "clear")
  /\ UNCHANGED <<memVars, accelVars, dataVars, kicks, callVars>>
SemReset(t) ==
  /\ Goes(t, "reset", "clear") /\ done' = 0
  /\ UNCHANGED <<memVars, accelVars, lock, isr_fired, t_isr, poll_mode, stats, kicks, callVars>>

ClearFired(t) ==
  /\ Goes(t, "clear", "kick") /\ isr_fired' = FALSE
  /\ UNCHANGED <<memVars, accelVars, done, lock, t_isr, poll_mode, stats, kicks, callVars>>

\* CTRL_START_QUEUE is ignored while the queue runs.
Kick(t) ==
  /\ Goes(t, "kick", "count")
  /\ IF qBusy THEN UNCHANGED <<qBusy, qDone, qOverflow>>
              ELSE qBusy' = TRUE /\ qDone' = FALSE /\ qOverflow' = FALSE
  /\ kicks' = kicks + 1 /\ t_kick' = [t_kick EXCEPT ![t] = kicks + 1]
  /\ UNCHANGED <<memVars, descQ, cur, aPanel, bPanel, dataVars, req, tile, walk, rc>>

CountDone(t) ==
  /\ Goes(t, "count", "wait")
  /\ stats' = [stats EXCEPT !.already_done = IF done > 0 THEN @ + 1 ELSE @]
  /\ UNCHANGED <<memVars, accelVars, done, lock, isr_fired, t_isr, poll_mode, kicks, callVars>>

PollStatus(t) ==
  /\ Goes(t, "wait", "resume") /\ poll_mode /\ qDone
  /\ UNCHANGED <<memVars, accelVars, dataVars, kicks, callVars>>

SemTake(t) ==
  /\ Goes(t, "wait", "resume") /\ ~poll_mode
  /\ done > 0 /\ done' = 0
  /\ UNCHANGED <<memVars, accelVars, lock, isr_fired, t_isr, poll_mode, stats, kicks, callVars>>

Timeout(t) ==
  /\ Goes(t, "wait", "abort") /\ ~poll_mode
  /\ done = 0 /\ req[t].timeout
  /\ UNCHANGED <<memVars, accelVars, dataVars, kicks, callVars>>

\* CTRL_SOFT_RST, then the way out through the unlock.  The reset takes full
\* effect at once: a burst it meets half way (MmAccel.scala, dmaBusy and ldBusy)
\* is not modelled here.
Abandon_return(t) ==
  /\ Goes(t, "abort", "idle")
  /\ descQ' = <<>> /\ qBusy' = FALSE /\ qDone' = FALSE /\ qOverflow' = FALSE /\ cur' = <<>>
  /\ rc' = [rc EXCEPT ![t] = "-ETIMEDOUT"]
  /\ UNCHANGED <<memVars, aPanel, bPanel, dataVars, kicks, req, tile, walk, t_kick>>
Abandon_slip(t) ==
  /\ Goes(t, "abort", "unlock")
  /\ rc' = [rc EXCEPT ![t] = "-ETIMEDOUT"]
  /\ UNCHANGED <<memVars, accelVars, dataVars, kicks, req, tile, walk, t_kick>>
Abandon(t) ==
  /\ Goes(t, "abort", "unlock")
  /\ descQ' = <<>> /\ qBusy' = FALSE /\ qDone' = FALSE /\ qOverflow' = FALSE /\ cur' = <<>>
  /\ rc' = [rc EXCEPT ![t] = "-ETIMEDOUT"]
  /\ UNCHANGED <<memVars, aPanel, bPanel, dataVars, kicks, req, tile, walk, t_kick>>

Resume(t) ==
  /\ Goes(t, "resume", "invd")
  /\ stats' = [stats EXCEPT !.batches = @ + 1, !.isr_seen = IF isr_fired THEN @ + 1 ELSE @]
  /\ Enter(t, 1, DestWalk(req[t].tiles[1]))
  /\ UNCHANGED <<memVars, accelVars, done, lock, isr_fired, t_isr, poll_mode, kicks, req, t_kick, rc>>

NextDest(t) ==
  /\ walk[t] = <<>>
  /\ IF LastTile(t)
       THEN Goes(t, "invd", "unlock") /\ UNCHANGED <<tile, walk>>
       ELSE Goes(t, "invd", "invd") /\ Enter(t, tile[t] + 1, DestWalk(req[t].tiles[tile[t] + 1]))
  /\ UNCHANGED <<memVars, accelVars, dataVars, kicks, req, t_kick, rc>>

Unlock(t) ==
  /\ Goes(t, "unlock", "idle") /\ lock' = NoThread
  /\ UNCHANGED <<memVars, accelVars, done, isr_fired, t_isr, poll_mode, stats, kicks, callVars>>

-----------------------------------------------------------------------------
(* The other calls of the driver. *)

OperandsOf(x) ==
  (IF x.a_src = NULL THEN <<>> ELSE cache_data_flush_range(x.a_src, OperandBytes)) \o
  (IF x.b_src = NULL THEN <<>> ELSE cache_data_flush_range(x.b_src, OperandBytes))

gemm_flush_operands(t, tiles) ==
  /\ req' = [req EXCEPT ![t].tiles = tiles]
  /\ IF tiles = <<>>
       THEN rc' = [rc EXCEPT ![t] = "-EINVAL"] /\ UNCHANGED <<pc, tile, walk>> /\ pc[t] = "idle"
       ELSE /\ rc' = [rc EXCEPT ![t] = "0"] /\ Goes(t, "idle", "operands")
            /\ Enter(t, 1, OperandsOf(tiles[1]))
  /\ UNCHANGED <<memVars, accelVars, dataVars, kicks, t_kick>>

NextOperands(t) ==
  /\ walk[t] = <<>>
  /\ IF LastTile(t)
       THEN Goes(t, "operands", "idle") /\ UNCHANGED <<tile, walk>>
       ELSE Goes(t, "operands", "operands") /\ Enter(t, tile[t] + 1, OperandsOf(req[t].tiles[tile[t] + 1]))
  /\ UNCHANGED <<memVars, accelVars, dataVars, kicks, req, t_kick, rc>>

gemm_set_poll_mode(t, poll) ==
  /\ pc[t] = "idle" /\ lock = NoThread /\ poll_mode' = poll
  /\ UNCHANGED <<memVars, accelVars, done, lock, isr_fired, t_isr, stats, kicks, pc, callVars>>

gemm_reset_stats(t) ==
  /\ pc[t] = "idle" /\ stats' = NoStats
  /\ UNCHANGED <<memVars, accelVars, done, lock, isr_fired, t_isr, poll_mode, kicks, pc, callVars>>

\* sys_cache_data_flush_range and _flush_all, called by the application.
FlushRange(t, w) ==
  /\ Goes(t, "idle", "range") /\ walk' = [walk EXCEPT ![t] = w]
  /\ UNCHANGED <<memVars, accelVars, dataVars, kicks, req, tile, t_kick, rc>>
FlushedRange(t) ==
  /\ walk[t] = <<>> /\ Goes(t, "range", "idle")
  /\ UNCHANGED <<memVars, accelVars, dataVars, kicks, callVars>>

\* A load or a store of the application.
CpuAccess(t, m) ==
  /\ pc[t] = "idle" /\ cache' = m.cache /\ dram' = m.dram
  /\ UNCHANGED <<accelVars, dataVars, kicks, pc, callVars>>

\* A step of a thread that is inside the driver.
Inside(t) ==
  \/ Lock(t) \/ DisplaceLine(t) \/ PushDesc(t) \/ SemReset(t) \/ ClearFired(t) \/ Kick(t)
  \/ CountDone(t) \/ PollStatus(t) \/ SemTake(t) \/ Timeout(t) \/ Abandon(t) \/ Resume(t)
  \/ NextDest(t) \/ Unlock(t) \/ NextOperands(t) \/ FlushedRange(t)

-----------------------------------------------------------------------------
(* Properties. *)

\* The thread has been told that its batch is finished.
Woken == {"resume", "invd"}

\* A call goes past its wait only for its own batch: the accelerator reports
\* DONE with nothing left to do, and an interrupt that is booked to the batch
\* came after its kick.  A semaphore left over from an earlier batch, a late
\* interrupt or another caller never lets gemm_run_batch return early.
NoStaleWake ==
  \A t \in Threads : pc[t] \in Woken =>
    /\ lock = t /\ qDone /\ ~qBusy /\ descQ = <<>> /\ cur = <<>>
    /\ isr_fired /\ pc[t] = "resume" => t_isr = t_kick[t]
    /\ pc[t] = "resume" /\ ~poll_mode => isr_fired

\* No descriptor is dropped, although gemm_run_batch reads QUEUE_FREE before it
\* owns the mutex and pushes long after.
PushNeverDropped == ~qOverflow

\* Outside a call the driver leaves the accelerator idle with an empty queue,
\* also after a batch that timed out.  That SOFT_RST also ends the burst under
\* way is assumed (Abandon).
QuietOutsideCalls == lock = NoThread => ~qBusy /\ descQ = <<>> /\ cur = <<>>
=============================================================================
