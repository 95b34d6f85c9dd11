--------------------------- MODULE MemStageProofs ---------------------------
(***************************************************************************)
(* Proofs about the memory side of the core, for every workload and every  *)
(* geometry of the caches.  First what a clock edge leaves in MEM, and     *)
(* what an operation does once: the AMO sequencer, the device handshakes   *)
(* with the bridge to the accelerator's registers, the reservation.  Then  *)
(* the fetch: the guessed addresses, and the instruction handed to IF.     *)
(* Last the data cache: what the lines in it and behind it hold, and what  *)
(* one edge does to them; LoadProofs builds on that.                       *)
(***************************************************************************)
EXTENDS MemStage, TLAPS

\* The operation in MEM and the fetch are the workload's.
CoreTypes ==
  /\ work \in Workloads
  /\ op \in {NoOp} \cup work.ops
  /\ pc \in [region : {"ddr", "tcm"}, h : Halves]

\* A clock edge, by the operation and the pc it leaves in place (Choices: only a
\* pipeline that does not stall moves on).
LEMMA NextTick ==
  ASSUME Next
  PROVE  \E trap_taken, a_idx, dmem_ready, imem_ready, answers :
           /\ Tick(op', pc', trap_taken, a_idx, dmem_ready, imem_ready, answers)
           /\ TimerDriver
           /\ IF global_mem_stall THEN op' = op /\ pc' = pc /\ trap_taken = FALSE
              ELSE /\ op' \in NextOps(trap_taken) /\ pc' \in {pc} \cup work.fetches
                   /\ trap_taken \in {FALSE, work.traps}
           /\ a_idx \in dc_addr_next(op')
           /\ dmem_ready \in {FALSE, mem_req_valid}
           /\ answers \in {FALSE, req("uart") \/ dev_busy}
  <1>1. PICK dmem_ready \in {FALSE, mem_req_valid}, imem_ready \in {FALSE, iState = "S_FILL"},
             answers \in {FALSE, req("uart") \/ dev_busy}, ends \in {FALSE, div_stall} :
          Step(dmem_ready, imem_ready, answers, ends)
    BY Zenon DEF Next
  <1>2. PICK c \in Choices : \E a_idx \in dc_addr_next(c[1]) :
          /\ Tick(c[1], c[2], c[3], a_idx, dmem_ready, imem_ready, answers)
          /\ TimerDriver
    BY <1>1, Zenon DEF Step
  <1>3. PICK a_idx \in dc_addr_next(c[1]) :
          /\ Tick(c[1], c[2], c[3], a_idx, dmem_ready, imem_ready, answers)
          /\ TimerDriver
    BY <1>2, Zenon
  <1>4. op' = c[1] /\ pc' = c[2]
    BY <1>3, Zenon DEF Tick
  <1>5. CASE global_mem_stall
    <2>1. c = <<op, pc, FALSE>>
      BY <1>5, Zenon DEF Choices
    <2> QED BY <1>3, <1>4, <1>5, <2>1, Zenon
  <1>6. CASE ~global_mem_stall
    <2>1. PICK t \in {FALSE, work.traps} :
            c \in NextOps(t) \X ({pc} \cup work.fetches) \X {t}
      BY <1>6, Zenon DEF Choices
    <2>2. c[1] \in NextOps(t) /\ c[2] \in {pc} \cup work.fetches /\ c[3] = t
      BY <2>1, Zenon
    <2> QED BY <1>3, <1>4, <1>6, <2>2, Zenon
  <1> QED BY <1>5, <1>6, Zenon

\* An operation in MEM is nothing, or one of the workload's.
LEMMA OpKinds ==
  ASSUME CoreTypes
  PROVE  /\ op.kind = "none" => op = NoOp
         /\ op.kind # "none" => /\ op \in work.ops /\ WellFormed(op)
                                /\ op.addr.region = "clint" => work.timer
         /\ op.kind \in {"none", "load", "store", "lr", "sc", "amo"}
  <1>1. NoOp.kind = "none"
    BY Zenon DEF NoOp
  <1>2. ASSUME op \in work.ops
        PROVE  /\ WellFormed(op) /\ (op.addr.region = "clint" => work.timer)
               /\ op.kind \in {"load", "store", "lr", "sc", "amo"}
    BY <1>2, WorkloadsAssumption, Zenon DEF CoreTypes, WellFormed
  <1> QED BY <1>1, <1>2, Zenon DEF CoreTypes

\* The pipeline moves only when nothing stalls, and then to what the workload has.
LEMMA CoreStep ==
  ASSUME CoreTypes, Next
  PROVE  CoreTypes' /\ work' = work /\ (global_mem_stall => op' = op /\ pc' = pc)
  <1>1. PICK trap_taken, a_idx, dmem_ready, imem_ready, answers :
          /\ Tick(op', pc', trap_taken, a_idx, dmem_ready, imem_ready, answers)
          /\ IF global_mem_stall THEN op' = op /\ pc' = pc /\ trap_taken = FALSE
             ELSE /\ op' \in NextOps(trap_taken) /\ pc' \in {pc} \cup work.fetches
                  /\ trap_taken \in {FALSE, work.traps}
    BY NextTick, Zenon
  <1>2. work' = work
    BY <1>1, Zenon DEF Tick
  <1>3. op' \in {NoOp} \cup work.ops
    BY <1>1, Zenon DEF CoreTypes, NextOps
  <1>4. pc' \in [region : {"ddr", "tcm"}, h : Halves]
    BY <1>1, WorkloadsAssumption, Zenon DEF CoreTypes
  <1> QED BY <1>1, <1>2, <1>3, <1>4, Zenon DEF CoreTypes


(***************************************************************************)
(* Quotients and remainders.                                               *)
(***************************************************************************)

\* Multiplying by a positive number keeps the order, with room to spare.
LEMMA Multiples ==
  ASSUME NEW p \in Nat \ {0}, NEW a \in Int, NEW b \in Int, a < b
  PROVE  p * a + p <= p * b
  <1>1. p * (b - a) >= p * 1
    OBVIOUS
  <1> QED BY <1>1

\* Division computes the quotient and the remainder.
LEMMA Division ==
  ASSUME NEW a \in Nat, NEW p \in Nat \ {0}
  PROVE  a \div p \in Nat /\ a % p \in 0 .. p - 1 /\ a = p * (a \div p) + (a % p)
  OBVIOUS

\* Quotient and remainder are unique.
LEMMA DivisionOf ==
  ASSUME NEW p \in Nat \ {0}, NEW k \in Nat, NEW r \in 0 .. p - 1
  PROVE  (p * k + r) \div p = k /\ (p * k + r) % p = r
  <1> DEFINE a == p * k + r
             k2 == a \div p
             r2 == a % p
  <1>1. a \in Nat
    <2>1. p * k \in Nat
      OBVIOUS
    <2> QED BY <2>1
  <1>2. k2 \in Nat /\ r2 \in 0 .. p - 1 /\ p * k + r = p * k2 + r2
    BY <1>1, Division, Zenon
  <1> HIDE DEF k2, r2
  <1>3. ~(k < k2)
    <2> SUFFICES ASSUME k < k2 PROVE FALSE
      BY Zenon
    <2>1. p * k + p <= p * k2
      BY <1>2, Multiples
    <2> QED BY <1>2, <2>1
  <1>4. ~(k2 < k)
    <2> SUFFICES ASSUME k2 < k PROVE FALSE
      BY Zenon
    <2>1. p * k2 + p <= p * k
      BY <1>2, Multiples
    <2> QED BY <1>2, <2>1
  <1>5. k = k2 /\ r = r2
    BY <1>2, <1>3, <1>4
  <1> QED BY <1>5, Zenon DEF k2, r2

\* The instruction memory is a whole, positive number of lines.
LEMMA Size ==
  ASSUME NEW n, n = IC_TAGS * IC_SETS
  PROVE  /\ n \in Nat \ {0} /\ Halves = 0 .. n * LINE_HALVES - 1
         /\ LINE_HALVES \in {2, 4, 6, 8}
  <1>1. LINE_HALVES \in {2, 4, 6, 8} /\ IC_TAGS \in Nat \ {0} /\ IC_SETS \in Nat \ {0}
    BY ICacheAssumption
  <1>2. IC_TAGS * IC_SETS \in Nat \ {0}
    BY <1>1
  <1> QED BY <1>1, <1>2, Zenon DEF Halves

\* Reset: nothing is in MEM, the fetch starts at the TCM's first halfword.
LEMMA CoreInit ==
  ASSUME Init
  PROVE  CoreTypes
  <1>1. 0 \in Halves
    <2> DEFINE n == IC_TAGS * IC_SETS
    <2>1. n \in Nat \ {0} /\ Halves = 0 .. n * LINE_HALVES - 1 /\ LINE_HALVES \in {2, 4, 6, 8}
      BY Size, Zenon
    <2> HIDE DEF n
    <2> QED BY <2>1
  <1> QED BY <1>1, Zenon DEF Init, CoreTypes

\* Only the workload's operations reach MEM, and the fetch never leaves the two
\* memories (Choices: what IF and EX hand over).
THEOREM WorkloadRuns == Spec => []CoreTypes
  <1>1. CoreTypes /\ [Next]_vars => CoreTypes'
    <2> SUFFICES ASSUME CoreTypes, [Next]_vars PROVE CoreTypes'
      BY Zenon
    <2>1. CASE Next
      BY <2>1, CoreStep, Zenon
    <2>2. CASE UNCHANGED vars
      BY <2>2, Zenon DEF vars, memStageVars, CoreTypes
    <2> QED BY <2>1, <2>2, Zenon
  <1> QED BY <1>1, CoreInit, PTL DEF Spec


(***************************************************************************)
(* The AMO sequencer and the device handshakes.                            *)
(***************************************************************************)
AmoInv ==
  /\ amo_state \in {"AMO_IDLE", "AMO_READ", "AMO_WRITE"} /\ amo_result_ready \in BOOLEAN
  /\ amo_result_ready => is_amo /\ amo_state = "AMO_WRITE"
  /\ ~is_amo => amo_state = "AMO_IDLE"

HandshakeInv ==
  /\ pending \in [Devs -> BOOLEAN] /\ done \in [Devs -> BOOLEAN]
  /\ dev_busy \in BOOLEAN /\ uart_ready \in BOOLEAN /\ d_ready \in BOOLEAN
  /\ \A v \in Devs : /\ pending[v] => valid(v) /\ ~done[v]
                     /\ done[v] => valid(v)
                     /\ ready(v) => pending[v]
  /\ pending["uart"] = (dev_busy \/ uart_ready) /\ ~(dev_busy /\ uart_ready)

(***************************************************************************)
(* The way to the accelerator's registers, phase by phase.                 *)
(***************************************************************************)
WriteOff == /\ ~axi_awvalid /\ ~axi_wvalid /\ ~axi_bready
            /\ ~awready /\ ~bvalid /\ wState = "wIdle"
ReadOff == ~axi_arvalid /\ ~axi_rready /\ ~arready /\ ~rvalid /\ rState = "rIdle"
Off == bState = "IDLE" /\ WriteOff /\ ReadOff /\ ~d_ready

\* A write that the register has not seen yet, and one that it has.
WriteAsks ==
  /\ bState = "WRITE_ADDR_DATA" /\ axi_awvalid /\ axi_wvalid /\ ~aw_done /\ ~w_done
  /\ ~axi_bready /\ ~awready /\ ~bvalid /\ wState = "wIdle" /\ ReadOff /\ ~d_ready
  /\ axi_aw = op.addr.reg /\ axi_w = op.wdata
WriteTaken ==
  /\ ~d_ready /\ bvalid /\ wState = "wResp" /\ ReadOff
  /\ \/ /\ bState = "WRITE_ADDR_DATA" /\ axi_awvalid /\ axi_wvalid /\ awready
        /\ ~axi_bready
     \/ /\ bState = "WRITE_RESP" /\ ~axi_awvalid /\ ~axi_wvalid /\ ~awready
        /\ axi_bready
ReadAsks ==
  /\ ~d_ready /\ WriteOff
  /\ \/ /\ bState = "READ_ADDR" /\ axi_arvalid /\ ~axi_rready /\ axi_ar = op.addr.reg
        /\ \/ ~arready /\ ~rvalid /\ rState = "rIdle"
           \/ arready /\ rvalid /\ rState = "rResp" /\ raddr = op.addr.reg
     \/ /\ bState = "READ_DATA" /\ ~axi_arvalid /\ ~arready /\ axi_rready
        /\ rvalid /\ rState = "rResp" /\ raddr = op.addr.reg
Answered == bState = "IDLE" /\ WriteOff /\ ReadOff /\ d_ready

\* The register has acted on the access in MEM.
Acted == pending["accel"] /\ (WriteTaken \/ Answered)

BridgeInv ==
  /\ d_req_prev \in BOOLEAN /\ (d_req_prev => pending["accel"])
  /\ ~pending["accel"] => Off
  /\ pending["accel"] => \/ is_store /\ (WriteAsks \/ WriteTaken \/ Answered)
                         \/ is_load /\ (ReadAsks \/ Answered)

\* The ghost counts what the device did for the access in MEM.
ServedInv ==
  served = IF \/ pending["uart"] \/ done["uart"] \/ done["accel"]
              \/ Acted THEN 1 ELSE 0

(***************************************************************************)
(* The reservation.                                                        *)
(***************************************************************************)
Settled == (lock_valid <=> resv # {}) /\ (resv # {} => resv = {reserved_addr})

ResvInv ==
  /\ lock_valid \in BOOLEAN
  /\ \/ Settled
     \/ op.kind = "lr" /\ lock_valid /\ reserved_addr = op.addr
     \/ op.kind \in {"store", "amo"} /\ ~lock_valid
  /\ op.kind = "store" /\ (\E v \in Devs : valid(v) /\ done[v]) => ~lock_valid
  /\ op.kind = "amo" /\ amo_result_ready => ~lock_valid

(***************************************************************************)
(* The device handshakes and the AMO sequencer.                            *)
(***************************************************************************)

\* A device is accessed by plain loads and stores only, so what an access asks
\* for does not depend on the reservation.
LEMMA DevOps ==
  ASSUME CoreTypes, NEW v \in Devs
  PROVE  /\ valid(v) = (op.addr.region = v /\ op.kind \in {"load", "store"})
         /\ valid(v) => (is_load <=> op.kind = "load") /\ (is_store <=> op.kind = "store")
         /\ valid(v) => (is_store <=> ~is_load) /\ ~is_amo
  <1>1. op.kind = "none" => op.addr.region = "ddr"
    BY OpKinds DEF NoOp, NoAddr
  <1>2. op.addr.region = v => op.kind \in {"load", "store"}
    BY <1>1, OpKinds, Zenon DEF WellFormed, Devs
  <1> QED BY <1>2, Zenon DEF valid, is_load, is_store, store_commits, is_amo

\* An access that is not answered yet holds the pipeline, and with it the
\* operation in MEM.
LEMMA AccessHolds ==
  ASSUME CoreTypes, Next, NEW v \in Devs, valid(v), ~done[v]
  PROVE  global_mem_stall /\ op' = op /\ valid(v)'
  <1>1. global_mem_stall
    BY Zenon DEF global_mem_stall, dev_stall
  <1>2. op' = op
    BY <1>1, CoreStep, Zenon
  <1>3. valid(v) = (op.addr.region = v /\ op.kind \in {"load", "store"})
    BY DevOps, Zenon
  <1>4. valid(v)'
    BY <1>2, <1>3, Zenon DEF valid, is_load, is_store, store_commits
  <1> QED BY <1>1, <1>2, <1>3, <1>4, Zenon

\* The sequencer's state belongs to the AMO in MEM.
LEMMA AmoStep ==
  ASSUME CoreTypes, AmoInv, Next
  PROVE  AmoInv'
  <1>1. AmoTick
    BY NextTick, ZenonT(30) DEF Tick
  <1>2. CASE AmoRearms
    BY <1>1, <1>2, Zenon DEF AmoTick, AmoInv
  <1>3. CASE ~AmoRearms
    <2>1. is_amo /\ global_mem_stall
      BY <1>3, Zenon DEF AmoRearms, global_mem_stall, amo_stall
    <2>2. op' = op /\ is_amo'
      BY <2>1, CoreStep, Zenon DEF is_amo
    <2>3. amo_state' \in {"AMO_IDLE", "AMO_READ", "AMO_WRITE"}
      BY <1>1, <1>3, Zenon DEF AmoTick, AmoInv
    <2>4. amo_result_ready' \in BOOLEAN
      BY <1>1, <1>3, Zenon DEF AmoTick
    <2>5. amo_result_ready' => amo_state' = "AMO_WRITE"
      BY <1>1, <1>3, Zenon DEF AmoTick, AmoInv
    <2> QED BY <2>2, <2>3, <2>4, <2>5, Zenon DEF AmoInv
  <1> QED BY <1>2, <1>3, Zenon

\* The UART's half of an edge: its answer comes while the access waits.
LEMMA UartEdge ==
  ASSUME CoreTypes, HandshakeInv, Next
  PROVE  /\ HandshakeTick /\ AccelTick
         /\ dev_busy' \in BOOLEAN /\ uart_ready' \in BOOLEAN
         /\ uart_ready' => req("uart") \/ dev_busy
         /\ (dev_busy' \/ uart_ready') = (req("uart") \/ dev_busy) /\ ~(dev_busy' /\ uart_ready')
  <1>1. PICK answers : /\ HandshakeTick /\ AccelTick /\ DevTick(answers)
                       /\ answers \in {FALSE, req("uart") \/ dev_busy}
    <2>1. PICK trap_taken, a_idx, dmem_ready, imem_ready, answers :
            /\ Tick(op', pc', trap_taken, a_idx, dmem_ready, imem_ready, answers)
            /\ answers \in {FALSE, req("uart") \/ dev_busy}
      BY NextTick, Zenon
    <2> QED BY <2>1, Zenon DEF Tick
  <1>2. dev_busy \in BOOLEAN /\ req("uart") \in BOOLEAN
    BY Zenon DEF HandshakeInv, req, valid
  <1>3. uart_ready' = answers /\ dev_busy' = ((req("uart") \/ dev_busy) /\ ~answers)
    BY <1>1, Zenon DEF DevTick
  <1> QED BY <1>1, <1>2, <1>3, Zenon

\* One device's pending and done, given that its answer comes to an access.
LEMMA PendingEdge ==
  ASSUME CoreTypes, HandshakeInv, Next, HandshakeTick, NEW v \in Devs
  PROVE  /\ pending'[v] = (req(v) \/ (pending[v] /\ ~ready(v)))
         /\ done'[v] = (ready(v) \/ (done[v] /\ global_mem_stall))
         /\ pending'[v] => valid(v)' /\ ~done'[v] /\ op' = op /\ global_mem_stall
         /\ done'[v] => valid(v)' /\ op' = op /\ global_mem_stall
         /\ pending[v] => valid(v) /\ ~done[v] /\ op' = op /\ global_mem_stall
  <1>1. /\ pending[v] => valid(v) /\ ~done[v]
        /\ done[v] => valid(v)
        /\ ready(v) => pending[v]
    BY Zenon DEF HandshakeInv
  <1>2. /\ pending'[v] = (req(v) \/ (pending[v] /\ ~ready(v)))
        /\ done'[v] = (ready(v) \/ (done[v] /\ global_mem_stall))
    BY Zenon DEF HandshakeTick
  <1>3. valid(v) /\ ~done[v] => global_mem_stall /\ op' = op /\ valid(v)'
    BY AccessHolds, Zenon
  <1>4. pending'[v] => valid(v) /\ ~done[v] /\ ~ready(v)
    BY <1>1, <1>2, Zenon DEF req
  <1>5. ASSUME done[v], global_mem_stall PROVE op' = op /\ valid(v)'
    <2>1. op' = op
      BY <1>5, CoreStep, Zenon
    <2>2. op.addr.region = v /\ op.kind \in {"load", "store"}
      BY <1>1, <1>5, DevOps, Zenon
    <2> QED BY <2>1, <2>2, Zenon DEF valid, is_load, is_store, store_commits
  <1> QED BY <1>1, <1>2, <1>3, <1>4, <1>5, Zenon

\* Pending, done and the answers keep in step (uart_pending and uart_done, cpu.v).
LEMMA HandshakeStep ==
  ASSUME CoreTypes, HandshakeInv, Next,
         d_ready' \in BOOLEAN, d_ready' => pending["accel"] /\ ~d_ready
  PROVE  HandshakeInv'
  <1>1. /\ HandshakeTick
        /\ dev_busy' \in BOOLEAN /\ uart_ready' \in BOOLEAN
        /\ uart_ready' => req("uart") \/ dev_busy
        /\ (dev_busy' \/ uart_ready') = (req("uart") \/ dev_busy) /\ ~(dev_busy' /\ uart_ready')
    BY UartEdge, Zenon
  <1>2. pending' \in [Devs -> BOOLEAN] /\ done' \in [Devs -> BOOLEAN]
    <2>1. \A v \in Devs : /\ (req(v) \/ (pending[v] /\ ~ready(v))) \in BOOLEAN
                          /\ (ready(v) \/ (done[v] /\ global_mem_stall)) \in BOOLEAN
      BY Zenon
    <2> QED BY <1>1, <2>1, Zenon DEF HandshakeTick
  <1>3. \A v \in Devs : /\ pending'[v] = (req(v) \/ (pending[v] /\ ~ready(v)))
                        /\ pending'[v] => valid(v)' /\ ~done'[v]
                        /\ done'[v] => valid(v)'
    BY <1>1, PendingEdge, Zenon
  <1>4. "uart" \in Devs /\ "accel" \in Devs /\ Devs = {"uart", "accel"}
    BY Zenon DEF Devs
  <1>5. pending["uart"] = (dev_busy \/ uart_ready) /\ ~(dev_busy /\ uart_ready)
    BY Zenon DEF HandshakeInv
  <1>6. ready("uart") = uart_ready /\ ready("accel") = d_ready
        /\ ready("uart")' = uart_ready' /\ ready("accel")' = d_ready'
    BY Zenon DEF ready
  <1>7. pending'["uart"] = (req("uart") \/ dev_busy)
    <2>1. pending'["uart"] = (req("uart") \/ (pending["uart"] /\ ~uart_ready))
      BY <1>3, <1>4, <1>6, Zenon
    <2>2. dev_busy \in BOOLEAN /\ uart_ready \in BOOLEAN
      BY Zenon DEF HandshakeInv
    <2> QED BY <1>5, <2>1, <2>2, Zenon
  <1>8. d_ready' => pending'["accel"]
    BY <1>3, <1>4, <1>6, Zenon
  <1>9. pending'["uart"] = (dev_busy' \/ uart_ready') /\ ~(dev_busy' /\ uart_ready')
    BY <1>1, <1>7, Zenon
  <1>10. \A v \in Devs : ready(v)' => pending'[v]
    <2>1. uart_ready' => pending'["uart"]
      BY <1>1, <1>7, Zenon
    <2>2. ASSUME NEW v \in Devs PROVE v = "uart" \/ v = "accel"
      BY <1>4, Zenon
    <2> QED BY <1>6, <1>8, <2>1, <2>2, Zenon
  <1> QED BY <1>1, <1>2, <1>3, <1>9, <1>10, Zenon DEF HandshakeInv

(***************************************************************************)
(* The bridge, edge by edge.                                               *)
(***************************************************************************)

\* A read that the register port has not answered yet, and one whose answer is
\* taken by this edge.
ReadWaits == ReadAsks /\ ~axi_rready
ReadGives == ReadAsks /\ axi_rready

\* Idle, the bridge starts the transaction of the request and nothing else.
LEMMA OffMoves ==
  ASSUME CoreTypes, Off, ~d_req_prev, AccelTick,
         req("accel") => op' = op /\ op.addr.region = "accel" /\ (is_store <=> ~is_load)
  PROVE  /\ ~doWrite /\ ~readDone
         /\ ~req("accel") => Off'
         /\ req("accel") /\ is_store => WriteAsks'
         /\ req("accel") /\ is_load => ReadWaits'
  <1>1. SlaveTick /\ d_ready' = FALSE
        /\ BridgeIdle([valid |-> req("accel"), write |-> is_store,
                       addr |-> IF op.addr.region = "accel" THEN op.addr.reg ELSE axi_ar,
                       wdata |-> op.wdata])
    BY Zenon DEF AccelTick, BridgeTick, BridgeIdle, BridgeWrite, BridgeResp, BridgeReadAddr,
       BridgeReadData, Off
  <1>2. ~doWrite /\ ~readDone
    BY Zenon DEF Off, WriteOff, ReadOff, doWrite, readDone
  <1>3. /\ ~awready' /\ ~bvalid' /\ wState' = "wIdle"
        /\ ~arready' /\ ~rvalid' /\ rState' = "rIdle"
    BY <1>1, <1>2, Zenon DEF SlaveTick, WriteChannel, ReadChannel, Off, WriteOff, ReadOff
  <1>4. ~axi_bready' /\ ~axi_rready'
    BY <1>1, Zenon DEF BridgeIdle, Off, WriteOff, ReadOff
  <1>5. ~req("accel") => bState' = "IDLE" /\ ~axi_awvalid' /\ ~axi_wvalid' /\ ~axi_arvalid'
    BY <1>1, Zenon DEF BridgeIdle, Off, WriteOff, ReadOff
  <1>6. ASSUME req("accel"), is_store
        PROVE  /\ bState' = "WRITE_ADDR_DATA" /\ axi_awvalid' /\ axi_wvalid' /\ ~axi_arvalid'
               /\ ~aw_done' /\ ~w_done' /\ axi_aw' = op'.addr.reg /\ axi_w' = op'.wdata
    BY <1>1, <1>6, Zenon DEF BridgeIdle, Off, WriteOff, ReadOff
  <1>7. ASSUME req("accel"), is_load
        PROVE  /\ bState' = "READ_ADDR" /\ axi_arvalid' /\ ~axi_awvalid' /\ ~axi_wvalid'
               /\ axi_ar' = op'.addr.reg
    BY <1>1, <1>7, Zenon DEF BridgeIdle, Off, WriteOff, ReadOff
  <1>8. ~req("accel") => Off'
    BY <1>1, <1>3, <1>4, <1>5, Zenon DEF Off, WriteOff, ReadOff
  <1>9. req("accel") /\ is_store => WriteAsks'
    BY <1>1, <1>3, <1>4, <1>6, Zenon DEF WriteAsks, ReadOff
  <1>10. req("accel") /\ is_load => ReadWaits'
    BY <1>1, <1>3, <1>4, <1>7, Zenon DEF ReadWaits, ReadAsks, WriteOff
  <1> QED BY <1>2, <1>8, <1>9, <1>10, Zenon

\* The register takes the write, and only then does its ready rise.
LEMMA WriteAsksMoves ==
  ASSUME WriteAsks, AccelTick
  PROVE  doWrite /\ ~readDone /\ WriteTaken' /\ d_ready' = FALSE
  <1>1. SlaveTick /\ BridgeWrite
    BY Zenon DEF AccelTick, BridgeTick, BridgeIdle, BridgeWrite, BridgeResp, BridgeReadAddr,
       BridgeReadData, WriteAsks
  <1>2. doWrite /\ ~readDone
    BY Zenon DEF WriteAsks, ReadOff, doWrite, readDone
  <1>3. /\ awready' /\ bvalid' /\ wState' = "wResp"
        /\ ~arready' /\ ~rvalid' /\ rState' = "rIdle"
    BY <1>1, <1>2, Zenon DEF SlaveTick, WriteChannel, ReadChannel, WriteAsks, ReadOff
  <1>4. /\ bState' = "WRITE_ADDR_DATA" /\ axi_awvalid' /\ axi_wvalid' /\ ~axi_bready'
        /\ ~axi_arvalid' /\ ~axi_rready' /\ d_ready' = FALSE
    BY <1>1, Zenon DEF BridgeWrite, awGo, wGo, WriteAsks, ReadOff
  <1> QED BY <1>2, <1>3, <1>4, Zenon DEF WriteTaken, ReadOff

\* A write that was taken is not taken again, and is answered.
LEMMA WriteTakenMoves ==
  ASSUME WriteTaken, AccelTick
  PROVE  /\ ~doWrite /\ ~readDone
         /\ (WriteTaken' /\ d_ready' = FALSE) \/ (Answered' /\ d_ready' = TRUE)
  <1>0. ~axi_arvalid /\ ~axi_rready /\ ~arready /\ ~rvalid /\ rState = "rIdle"
        /\ wState = "wResp" /\ bvalid
    BY Zenon DEF WriteTaken, ReadOff
  <1>1. SlaveTick
    BY Zenon DEF AccelTick
  <1>2. ~doWrite /\ ~readDone
    BY <1>0, Zenon DEF doWrite, readDone
  <1>3. ~awready' /\ ~arready' /\ ~rvalid' /\ rState' = "rIdle"
    BY <1>0, <1>1, <1>2, Zenon DEF SlaveTick, WriteChannel, ReadChannel
  <1>4. CASE bState = "WRITE_ADDR_DATA" /\ axi_awvalid /\ axi_wvalid /\ awready /\ ~axi_bready
    <2>1. BridgeWrite
      BY <1>4, Zenon DEF AccelTick, BridgeTick, BridgeIdle, BridgeResp, BridgeReadAddr, BridgeReadData
    <2>2. /\ bState' = "WRITE_RESP" /\ ~axi_awvalid' /\ ~axi_wvalid' /\ axi_bready'
          /\ ~axi_arvalid' /\ ~axi_rready' /\ d_ready' = FALSE
      BY <1>0, <1>4, <2>1, Zenon DEF BridgeWrite, awGo, wGo
    <2>3. bvalid' /\ wState' = "wResp"
      BY <1>0, <1>1, <1>4, Zenon DEF SlaveTick, WriteChannel
    <2> QED BY <1>2, <1>3, <2>2, <2>3, Zenon DEF WriteTaken, ReadOff
  <1>5. CASE bState = "WRITE_RESP" /\ ~axi_awvalid /\ ~axi_wvalid /\ ~awready /\ axi_bready
    <2>1. BridgeResp
      BY <1>5, Zenon DEF AccelTick, BridgeTick, BridgeIdle, BridgeWrite, BridgeReadAddr, BridgeReadData
    <2>2. /\ bState' = "IDLE" /\ ~axi_awvalid' /\ ~axi_wvalid' /\ ~axi_bready'
          /\ ~axi_arvalid' /\ ~axi_rready' /\ d_ready'
      BY <1>0, <1>5, <2>1, Zenon DEF BridgeResp
    <2>3. d_ready' = TRUE
      BY <1>0, <1>5, <2>1, Zenon DEF BridgeResp
    <2>4. ~bvalid' /\ wState' = "wIdle"
      BY <1>0, <1>1, <1>5, Zenon DEF SlaveTick, WriteChannel
    <2> QED BY <1>2, <1>3, <2>2, <2>3, <2>4, Zenon DEF Answered, WriteOff, ReadOff
  <1> QED BY <1>4, <1>5, Zenon DEF WriteTaken

\* A read waits for its address to be taken.
LEMMA ReadWaitsMoves ==
  ASSUME ReadWaits, AccelTick, op' = op
  PROVE  ~doWrite /\ ~readDone /\ ReadAsks' /\ d_ready' = FALSE
  <1>0. /\ ~axi_awvalid /\ ~axi_wvalid /\ ~axi_bready /\ ~awready /\ ~bvalid /\ wState = "wIdle"
        /\ bState = "READ_ADDR" /\ axi_arvalid /\ ~axi_rready /\ axi_ar = op.addr.reg
        /\ \/ ~arready /\ ~rvalid /\ rState = "rIdle"
           \/ arready /\ rvalid /\ rState = "rResp" /\ raddr = op.addr.reg
    BY Zenon DEF ReadWaits, ReadAsks, WriteOff
  <1>1. SlaveTick /\ BridgeReadAddr
    BY <1>0, Zenon DEF AccelTick, BridgeTick, BridgeIdle, BridgeWrite, BridgeResp, BridgeReadAddr,
       BridgeReadData
  <1>2. ~doWrite /\ ~readDone
    BY <1>0, Zenon DEF doWrite, readDone
  <1>3. ~awready' /\ ~bvalid' /\ wState' = "wIdle"
    BY <1>0, <1>1, <1>2, Zenon DEF SlaveTick, WriteChannel
  <1>4. /\ ~axi_awvalid' /\ ~axi_wvalid' /\ ~axi_bready' /\ d_ready' = FALSE
        /\ axi_ar' = op'.addr.reg
    BY <1>0, <1>1, Zenon DEF BridgeReadAddr
  <1>5. rvalid' /\ rState' = "rResp" /\ raddr' = op'.addr.reg
    BY <1>0, <1>1, Zenon DEF SlaveTick, ReadChannel
  <1>6. CASE ~arready /\ ~rvalid /\ rState = "rIdle"
    <2>1. arready' /\ bState' = "READ_ADDR" /\ axi_arvalid' /\ ~axi_rready'
      BY <1>0, <1>1, <1>6, Zenon DEF SlaveTick, ReadChannel, BridgeReadAddr
    <2> QED BY <1>2, <1>3, <1>4, <1>5, <2>1, Zenon DEF ReadAsks, WriteOff
  <1>7. CASE arready /\ rvalid /\ rState = "rResp"
    <2>1. ~arready' /\ bState' = "READ_DATA" /\ ~axi_arvalid' /\ axi_rready'
      BY <1>0, <1>1, <1>7, Zenon DEF SlaveTick, ReadChannel, BridgeReadAddr
    <2> QED BY <1>2, <1>3, <1>4, <1>5, <2>1, Zenon DEF ReadAsks, WriteOff
  <1> QED BY <1>0, <1>6, <1>7, Zenon

\* The edge that gives the data is the one that changes the register, once.
LEMMA ReadGivesMoves ==
  ASSUME ReadGives, AccelTick
  PROVE  /\ ~doWrite /\ readDone /\ Answered' /\ d_ready' = TRUE
         /\ raddr = op.addr.reg /\ d_rdata' = rdata
  <1>0. /\ ~axi_awvalid /\ ~axi_wvalid /\ ~axi_bready /\ ~awready /\ ~bvalid /\ wState = "wIdle"
        /\ bState = "READ_DATA" /\ ~axi_arvalid /\ ~arready /\ axi_rready
        /\ rvalid /\ rState = "rResp" /\ raddr = op.addr.reg
    BY Zenon DEF ReadGives, ReadAsks, WriteOff
  <1>1. SlaveTick /\ BridgeReadData
    BY <1>0, Zenon DEF AccelTick, BridgeTick, BridgeIdle, BridgeWrite, BridgeResp, BridgeReadAddr,
       BridgeReadData
  <1>2. ~doWrite /\ readDone
    BY <1>0, Zenon DEF doWrite, readDone
  <1>3. ~awready' /\ ~bvalid' /\ wState' = "wIdle" /\ ~arready' /\ ~rvalid' /\ rState' = "rIdle"
    BY <1>0, <1>1, <1>2, Zenon DEF SlaveTick, WriteChannel, ReadChannel
  <1>4. /\ ~axi_awvalid' /\ ~axi_wvalid' /\ ~axi_bready' /\ ~axi_arvalid' /\ ~axi_rready'
        /\ bState' = "IDLE" /\ d_ready' /\ d_rdata' = rdata
    BY <1>0, <1>1, Zenon DEF BridgeReadData
  <1>5. d_ready' = TRUE
    BY <1>0, <1>1, Zenon DEF BridgeReadData
  <1> QED BY <1>0, <1>2, <1>3, <1>4, <1>5, Zenon DEF Answered, WriteOff, ReadOff

\* After the answer the bridge is idle again: the request is over.
LEMMA AnsweredMoves ==
  ASSUME Answered, AccelTick, ~req("accel")
  PROVE  ~doWrite /\ ~readDone /\ Off'
  <1>1. SlaveTick /\ d_ready' = FALSE
        /\ BridgeIdle([valid |-> req("accel"), write |-> is_store,
                       addr |-> IF op.addr.region = "accel" THEN op.addr.reg ELSE axi_ar,
                       wdata |-> op.wdata])
    BY Zenon DEF AccelTick, BridgeTick, BridgeIdle, BridgeWrite, BridgeResp, BridgeReadAddr,
       BridgeReadData, Answered
  <1>2. ~doWrite /\ ~readDone
    BY Zenon DEF Answered, WriteOff, ReadOff, doWrite, readDone
  <1>3. /\ ~awready' /\ ~bvalid' /\ wState' = "wIdle"
        /\ ~arready' /\ ~rvalid' /\ rState' = "rIdle"
    BY <1>1, <1>2, Zenon DEF SlaveTick, WriteChannel, ReadChannel, Answered, WriteOff, ReadOff
  <1>4. ~axi_bready' /\ ~axi_rready'
    BY <1>1, Zenon DEF BridgeIdle, Answered, WriteOff, ReadOff
  <1>5. bState' = "IDLE" /\ ~axi_awvalid' /\ ~axi_wvalid' /\ ~axi_arvalid'
    BY <1>1, Zenon DEF BridgeIdle, Answered, WriteOff, ReadOff
  <1> QED BY <1>1, <1>2, <1>3, <1>4, <1>5, Zenon DEF Off, WriteOff, ReadOff

\* The register acts on an access once, between its request and its answer.
LEMMA BridgeStep ==
  ASSUME CoreTypes, HandshakeInv, BridgeInv, Next
  PROVE  /\ BridgeInv'
         /\ d_ready' \in BOOLEAN /\ (d_ready' => pending["accel"] /\ ~d_ready)
         /\ doWrite \/ readDone => pending["accel"] /\ ~Acted /\ Acted'
         /\ Acted => Acted' \/ d_ready
         /\ Acted' => Acted \/ doWrite \/ readDone
  <1> DEFINE P == pending["accel"]
  <1>h. HandshakeTick /\ AccelTick
    BY UartEdge, Zenon
  <1>v. "accel" \in Devs /\ (ready("accel") <=> d_ready) /\ d_ready \in BOOLEAN
        /\ (d_ready => P)
    BY Zenon DEF Devs, ready, HandshakeInv
  <1>p. /\ P' = (req("accel") \/ (P /\ ~ready("accel")))
        /\ P' => op' = op
        /\ P => valid("accel") /\ ~done["accel"] /\ op' = op
    BY <1>h, <1>v, PendingEdge, Zenon
  <1>r. req("accel") => ~P /\ ~done["accel"] /\ valid("accel") /\ op' = op
    BY <1>p, Zenon DEF req
  <1>k. valid("accel") => /\ op.addr.region = "accel" /\ (is_store <=> ~is_load)
    BY <1>v, DevOps, SMTT(30) DEF valid
  <1>q. d_req_prev' = req("accel") /\ req("accel") \in BOOLEAN
    BY <1>h, Zenon DEF AccelTick, BridgeTick, req, valid
  <1>s. op' = op => (is_store' <=> is_store) /\ (is_load' <=> is_load)
    BY Zenon DEF is_store, is_load
  <1>b. /\ d_req_prev => P
        /\ ~P => Off
        /\ P => \/ is_store /\ (WriteAsks \/ WriteTaken \/ Answered)
                \/ is_load /\ (ReadWaits \/ ReadGives \/ Answered)
    BY Zenon DEF BridgeInv, ReadWaits, ReadGives
  <1>n. req("accel") => P'
    BY <1>p, Zenon
  <1> HIDE DEF P
  <1>i. ASSUME P' => \/ is_store' /\ (WriteAsks' \/ WriteTaken' \/ Answered')
                     \/ is_load' /\ (ReadAsks' \/ Answered'),
               ~P' => Off'
        PROVE  BridgeInv'
    BY <1>i, <1>q, <1>n, Zenon DEF BridgeInv, P
  <1>x. /\ Acted <=> P /\ (WriteTaken \/ Answered)
        /\ Acted' <=> P' /\ (WriteTaken' \/ Answered')
    BY Zenon DEF Acted, P
  <1>y. /\ Off => ~d_ready /\ ~WriteTaken /\ ~Answered
        /\ WriteAsks => ~WriteTaken /\ ~Answered /\ ~d_ready
        /\ ReadAsks => ~WriteTaken /\ ~Answered /\ ~d_ready
        /\ WriteTaken => ~d_ready
        /\ Answered => d_ready
    BY Zenon DEF Off, WriteAsks, WriteTaken, ReadAsks, Answered, WriteOff
  <1>z. /\ WriteAsks' => ~WriteTaken' /\ ~Answered'
        /\ ReadAsks' => ~WriteTaken' /\ ~Answered'
    BY Zenon DEF WriteAsks, WriteTaken, ReadAsks, Answered, WriteOff
  <1>0. CASE ~P
    <2>1. Off /\ ~d_req_prev /\ d_ready' = FALSE
      <3>1. Off /\ ~d_req_prev
        BY <1>0, <1>b, Zenon
      <3>2. bState = "IDLE"
        BY <3>1, Zenon DEF Off
      <3> QED BY <1>h, <3>1, <3>2, ZenonT(30) DEF AccelTick, BridgeTick, BridgeIdle, BridgeWrite, BridgeResp,
              BridgeReadAddr, BridgeReadData
    <2>2. req("accel") => op' = op /\ op.addr.region = "accel" /\ (is_store <=> ~is_load)
      BY <1>r, <1>k, Zenon
    <2>3. /\ ~doWrite /\ ~readDone
          /\ ~req("accel") => Off'
          /\ req("accel") /\ is_store => WriteAsks'
          /\ req("accel") /\ is_load => ReadWaits'
      BY <1>h, <2>1, <2>2, OffMoves, Zenon
    <2>4. P' <=> req("accel")
      BY <1>0, <1>p, Zenon DEF P
    <2>5. ReadWaits' => ReadAsks'
      BY Zenon DEF ReadWaits
    <2>6. BridgeInv'
      BY <1>i, <1>s, <2>2, <2>3, <2>4, <2>5, Zenon
    <2>7. ~Acted'
      BY <1>x, <1>z, <2>2, <2>3, <2>4, <2>5, Zenon
    <2> QED BY <1>0, <1>x, <2>1, <2>3, <2>6, <2>7, Zenon DEF P
  <1>1. ASSUME P, ~d_ready PROVE P' /\ op' = op /\ ~req("accel")
    BY <1>1, <1>p, <1>r, <1>v, Zenon DEF P
  <1>2. CASE P /\ is_store /\ WriteAsks
    <2>1. doWrite /\ ~readDone /\ WriteTaken' /\ d_ready' = FALSE
      BY <1>2, <1>h, WriteAsksMoves, Zenon
    <2>2. ~d_ready /\ P' /\ op' = op
      BY <1>1, <1>2, <1>y, Zenon
    <2>3. BridgeInv'
      BY <1>2, <1>i, <1>s, <2>1, <2>2, Zenon
    <2> QED BY <1>2, <1>x, <1>y, <2>1, <2>2, <2>3, Zenon DEF P
  <1>3. CASE P /\ is_store /\ WriteTaken
    <2>1. /\ ~doWrite /\ ~readDone /\ d_ready' \in BOOLEAN
          /\ WriteTaken' \/ Answered'
      BY <1>3, <1>h, WriteTakenMoves, Zenon
    <2>2. ~d_ready /\ P' /\ op' = op
      BY <1>1, <1>3, <1>y, Zenon
    <2>3. BridgeInv'
      BY <1>3, <1>i, <1>s, <2>1, <2>2, Zenon
    <2> QED BY <1>3, <1>x, <1>y, <2>1, <2>2, <2>3, ZenonT(30) DEF P
  <1>4. CASE P /\ Answered
    <2>1. d_ready /\ ~req("accel")
      BY <1>4, <1>r, <1>y, Zenon
    <2>2. ~doWrite /\ ~readDone /\ Off'
      BY <1>4, <1>h, <2>1, AnsweredMoves, Zenon
    <2>3. ~P'
      BY <1>p, <1>v, <2>1, Zenon DEF P
    <2>4. BridgeInv'
      BY <1>i, <2>2, <2>3, ZenonT(30)
    <2>5. d_ready' = FALSE
      BY <1>4, <1>h, Zenon DEF Answered, AccelTick, BridgeTick, BridgeIdle, BridgeWrite, BridgeResp,
              BridgeReadAddr, BridgeReadData
    <2> QED BY <1>4, <1>x, <2>1, <2>2, <2>3, <2>4, <2>5, ZenonT(30) DEF P
  <1>5. CASE P /\ is_load /\ ReadWaits
    <2>0. ReadAsks /\ ~d_ready /\ P' /\ op' = op
      BY <1>1, <1>5, <1>y, ZenonT(30) DEF ReadWaits
    <2>1. ~doWrite /\ ~readDone /\ ReadAsks' /\ d_ready' = FALSE
      BY <1>5, <1>h, <2>0, ReadWaitsMoves, Zenon
    <2>3. BridgeInv'
      BY <1>5, <1>i, <1>s, <2>0, <2>1, Zenon
    <2> QED BY <1>5, <1>x, <1>y, <1>z, <2>0, <2>1, <2>3, ZenonT(30) DEF P
  <1>6. CASE P /\ is_load /\ ReadGives
    <2>0. ReadAsks /\ ~d_ready /\ P' /\ op' = op
      BY <1>1, <1>6, <1>y, Zenon DEF ReadGives
    <2>1. ~doWrite /\ readDone /\ Answered' /\ d_ready' = TRUE
      BY <1>6, <1>h, ReadGivesMoves, Zenon
    <2>3. BridgeInv'
      BY <1>6, <1>i, <1>s, <2>0, <2>1, Zenon
    <2> QED BY <1>6, <1>x, <1>y, <2>0, <2>1, <2>3, Zenon DEF P
  <1> QED BY <1>b, <1>0, <1>2, <1>3, <1>4, <1>5, <1>6, Zenon

\* What the devices did for the access in MEM is counted.
LEMMA ServedStep ==
  ASSUME CoreTypes, HandshakeInv, BridgeInv, ServedInv, Next
  PROVE  ServedInv'
  <1> DEFINE U == pending["uart"] \/ done["uart"]
             A == done["accel"] \/ Acted
  <1>1. /\ doWrite \/ readDone => pending["accel"] /\ ~Acted /\ Acted'
        /\ Acted => Acted' \/ d_ready
        /\ Acted' => Acted \/ doWrite \/ readDone
    BY BridgeStep, Zenon
  <1>2. HandshakeTick
    BY UartEdge, Zenon
  <1>3. /\ "uart" \in Devs /\ "accel" \in Devs
        /\ (ready("uart") <=> uart_ready) /\ (ready("accel") <=> d_ready)
    BY Zenon DEF Devs, ready
  <1>4. ASSUME NEW v \in Devs
        PROVE  /\ pending'[v] = (req(v) \/ (pending[v] /\ ~ready(v)))
               /\ done'[v] = (ready(v) \/ (done[v] /\ global_mem_stall))
               /\ pending'[v] => global_mem_stall
               /\ done'[v] => global_mem_stall
               /\ pending[v] => valid(v) /\ ~done[v] /\ global_mem_stall
               /\ done[v] => valid(v)
               /\ ready(v) => pending[v]
    BY <1>2, <1>4, PendingEdge, Zenon DEF HandshakeInv
  <1>5. served' = IF ~global_mem_stall THEN 0
                  ELSE IF (req("uart") \/ doWrite \/ readDone) /\ served < 2 THEN served + 1
                  ELSE served
    BY NextTick, ZenonT(30) DEF Tick
  <1>6. /\ served = (IF U \/ A THEN 1 ELSE 0)
        /\ ServedInv' <=> served' = (IF U' \/ A' THEN 1 ELSE 0)
    BY Zenon DEF ServedInv
  <1>7. ~(valid("uart") /\ valid("accel"))
    BY Zenon DEF valid
  <1>8. Acted' => pending'["accel"]
    BY Zenon DEF Acted
  <1>9. Acted => pending["accel"]
    BY Zenon DEF Acted
  <1>12. d_ready => Acted
    <2>1. d_ready => pending["accel"]
      BY <1>3, <1>4, Zenon
    <2> QED BY <2>1, Zenon DEF BridgeInv, WriteAsks, WriteTaken, ReadAsks, Acted
  <1>10. CASE ~global_mem_stall
    <2>1. ~(U' \/ A')
      BY <1>3, <1>4, <1>8, <1>10, Zenon
    <2>2. served' = 0
      BY <1>5, <1>10, Zenon
    <2> HIDE DEF U, A
    <2> QED BY <1>6, <2>1, <2>2, Zenon
  <1>11. CASE global_mem_stall
    <2>1. CASE req("uart")
      <3>1. ~U /\ ~A /\ U'
        BY <1>3, <1>4, <1>7, <1>9, <2>1, Zenon DEF req
      <3> HIDE DEF U, A
      <3> QED BY <1>5, <1>6, <1>11, <2>1, <3>1
    <2>2. CASE ~req("uart") /\ (doWrite \/ readDone)
      <3>1. ~U /\ ~A /\ A'
        BY <1>1, <1>3, <1>4, <1>7, <2>2, Zenon
      <3> HIDE DEF U, A
      <3> QED BY <1>5, <1>6, <1>11, <2>2, <3>1
    <2>3. CASE ~req("uart") /\ ~(doWrite \/ readDone)
      <3>1. U' <=> U
        BY <1>3, <1>4, <1>11, <2>3, Zenon
      <3>2. A' <=> A
        BY <1>1, <1>3, <1>4, <1>9, <1>11, <1>12, <2>3, Zenon
      <3>3. served' = served
        BY <1>5, <1>11, <2>3, Zenon
      <3> HIDE DEF U, A
      <3> QED BY <1>6, <3>1, <3>2, <3>3, Zenon
    <2> QED BY <2>1, <2>2, <2>3, Zenon
  <1> QED BY <1>10, <1>11, Zenon

\* All of the device side.
DeviceInv == HandshakeInv /\ BridgeInv /\ ServedInv

\* Nothing is asked for after reset.
LEMMA DeviceInit ==
  ASSUME Init
  PROVE  AmoInv /\ DeviceInv
  <1>1. AmoInv
    BY Zenon DEF Init, AmoInv, is_amo, NoOp
  <1>2. HandshakeInv
    BY Zenon DEF Init, BridgeInit, HandshakeInv, Devs, ready
  <1>3. Off /\ BridgeInv
    BY Zenon DEF Init, BridgeInit, SlaveInit, BridgeInv, Off, WriteOff, ReadOff, Devs
  <1>4. ServedInv
    BY Zenon DEF Init, ServedInv, Acted, Devs
  <1> QED BY <1>1, <1>2, <1>3, <1>4, Zenon DEF DeviceInv

\* Each device access has its own request, its one effect and its answer, in that
\* order, and an AMO its own sequencer state (cpu.v, axi_lite_bridge.v, MmAccel.scala).
THEOREM DevicesServed == Spec => [](AmoInv /\ DeviceInv)
  <1>1. CoreTypes /\ AmoInv /\ DeviceInv /\ [Next]_vars => AmoInv' /\ DeviceInv'
    <2> SUFFICES ASSUME CoreTypes, AmoInv, DeviceInv, [Next]_vars PROVE AmoInv' /\ DeviceInv'
      BY Zenon
    <2>1. CASE Next
      <3>1. CoreTypes /\ HandshakeInv /\ BridgeInv /\ ServedInv
        BY Zenon DEF CoreTypes, DeviceInv
      <3>2. BridgeInv' /\ d_ready' \in BOOLEAN /\ (d_ready' => pending["accel"] /\ ~d_ready)
        BY <2>1, <3>1, BridgeStep, Zenon
      <3>3. HandshakeInv' /\ ServedInv' /\ AmoInv'
        BY <2>1, <3>1, <3>2, HandshakeStep, ServedStep, AmoStep, Zenon
      <3> QED BY <3>2, <3>3, Zenon DEF DeviceInv
    <2>2. CASE UNCHANGED vars
      <3>1. AmoInv' /\ HandshakeInv'
        BY <2>2, Zenon DEF vars, bridgeVars, memStageVars, AmoInv, is_amo, DeviceInv, HandshakeInv, valid,
           ready, is_load, is_store, store_commits, sc_successful
      <3>2. BridgeInv'
        BY <2>2, ZenonT(30) DEF vars, bridgeVars, slaveVars, memStageVars, DeviceInv, BridgeInv, Off, WriteOff,
           ReadOff, WriteAsks, WriteTaken, ReadAsks, Answered, is_store, is_load
      <3>3. ServedInv'
        BY <2>2, Zenon DEF vars, bridgeVars, slaveVars, memStageVars, DeviceInv, ServedInv, Acted,
           WriteTaken, Answered, WriteOff, ReadOff
      <3> QED BY <3>1, <3>2, <3>3, Zenon DEF DeviceInv
    <2> QED BY <2>1, <2>2, Zenon
  <1> QED BY <1>1, WorkloadRuns, DeviceInit, PTL DEF Spec

\* A device access acts on the device exactly once, however long another source
\* keeps the pipeline frozen.
THEOREM ActsOnce == Spec => []OncePerAccess
  <1>1. DeviceInv => OncePerAccess
    <2> SUFFICES ASSUME DeviceInv PROVE OncePerAccess
      BY Zenon
    <2>1. served \in {0, 1}
      BY Zenon DEF DeviceInv, ServedInv
    <2>2. ASSUME ~global_mem_stall, NEW v \in Devs, valid(v)
          PROVE  served = 1
      <3>1. done[v]
        BY <2>2, Zenon DEF global_mem_stall, dev_stall
      <3> QED BY <3>1, Zenon DEF DeviceInv, ServedInv, Devs
    <2> QED BY <2>1, <2>2 DEF OncePerAccess
  <1> QED BY <1>1, DevicesServed, PTL

(***************************************************************************)
(* The reservation.                                                        *)
(***************************************************************************)

\* What the edge does to the monitor and to the program's reservation.
LEMMA ResvEdge ==
  ASSUME CoreTypes, HandshakeInv, Next
  PROVE  \E trap_taken : /\ ReservationTick(trap_taken)
                         /\ global_mem_stall => trap_taken = FALSE /\ op' = op /\ resv' = resv
                         /\ ~global_mem_stall => trap_taken \in BOOLEAN /\ Retire(trap_taken)
  <1>1. PICK trap_taken, a_idx, dmem_ready, imem_ready, answers :
          /\ Tick(op', pc', trap_taken, a_idx, dmem_ready, imem_ready, answers)
          /\ IF global_mem_stall THEN op' = op /\ trap_taken = FALSE
             ELSE trap_taken \in {FALSE, work.traps}
    BY NextTick, ZenonT(30)
  <1>2. work.traps \in BOOLEAN
    BY WorkloadsAssumption, Zenon DEF CoreTypes
  <1> QED BY <1>1, <1>2, Zenon DEF Tick

\* A store, LR or AMO that leaves MEM has had its answer.
LEMMA LeavesAnswered ==
  ASSUME CoreTypes, ~global_mem_stall
  PROVE  /\ op.kind = "lr" => lr_reservation_set
         /\ op.kind = "store" => \/ normal_store_reservation_clear
                                 \/ \E v \in Devs : valid(v) /\ done[v]
         /\ op.kind = "amo" => amo_result_ready
  <1>1. op.kind \in {"lr", "store"} => WellFormed(op)
    BY OpKinds, Zenon
  <1>2. ~dmem_stall /\ ~dev_stall /\ ~amo_stall
    BY Zenon DEF global_mem_stall
  <1>3. ASSUME op.kind = "lr" PROVE lr_reservation_set
    <2>1. dcache_ren
      BY <1>1, <1>3, Zenon DEF WellFormed, dcache_ren, is_load, cacheable, cacheableOp
    <2> QED BY <1>2, <1>3, <2>1, Zenon DEF lr_reservation_set, dmem_stall, dcache_req
  <1>4. ASSUME op.kind = "store"
        PROVE  \/ normal_store_reservation_clear
               \/ \E v \in Devs : valid(v) /\ done[v]
    <2>0. store_commits
      BY <1>4, Zenon DEF store_commits, is_store
    <2>1. CASE op.addr.region \in {"ddr", "tcm"}
      <3>1. dcache_wen
        BY <2>0, <2>1, Zenon DEF dcache_wen, cacheable, cacheableOp
      <3> QED BY <1>2, <1>4, <3>1, Zenon DEF normal_store_reservation_clear, dmem_stall, dcache_req
    <2>2. CASE op.addr.region = "clint"
      BY <1>4, <2>2, Zenon DEF normal_store_reservation_clear
    <2>3. CASE op.addr.region \in Devs
      BY <1>2, <2>0, <2>3, Zenon DEF dev_stall, valid
    <2> QED BY <1>1, <1>4, <2>1, <2>2, <2>3, Zenon DEF WellFormed
  <1>5. op.kind = "amo" => amo_result_ready
    BY <1>2, Zenon DEF amo_stall, is_amo
  <1> QED BY <1>3, <1>4, <1>5, Zenon

\* The monitor follows the program's reservation, ahead of it only for the
\* operation in MEM.
LEMMA ResvStep ==
  ASSUME CoreTypes, AmoInv, HandshakeInv, ResvInv, Next
  PROVE  ResvInv'
  <1>1. PICK trap_taken :
          /\ ReservationTick(trap_taken)
          /\ global_mem_stall => trap_taken = FALSE /\ op' = op /\ resv' = resv
          /\ ~global_mem_stall => trap_taken \in BOOLEAN /\ Retire(trap_taken)
    BY ResvEdge, Zenon
  <1>2. op.kind \in {"none", "load", "store", "lr", "sc", "amo"}
    BY OpKinds, Zenon
  <1>3. lock_valid' \in BOOLEAN
    BY <1>1, Zenon DEF ReservationTick, ResvInv
  <1>4. HandshakeTick /\ AmoTick
    BY UartEdge, NextTick, ZenonT(30) DEF Tick
  <1>5. /\ lr_reservation_set => op.kind = "lr"
        /\ sc_reservation_clear => op.kind = "sc"
        /\ normal_store_reservation_clear => op.kind \in {"store", "amo"}
    BY Zenon DEF lr_reservation_set, sc_reservation_clear, normal_store_reservation_clear,
       amo_write_phase, is_amo
  <1>6. CASE ~global_mem_stall
    <2>1. Settled'
      <3>1. CASE trap_taken
        BY <1>1, <1>6, <3>1, Zenon DEF ReservationTick, Retire, Settled
      <3>2. CASE ~trap_taken /\ op.kind \in {"none", "load"}
        <4>1. lock_valid' = lock_valid /\ reserved_addr' = reserved_addr /\ resv' = resv
          BY <1>1, <1>5, <1>6, <3>2, Zenon DEF ReservationTick, Retire
        <4> QED BY <3>2, <4>1, Zenon DEF ResvInv, Settled
      <3>3. CASE ~trap_taken /\ op.kind = "lr"
        BY <1>1, <1>6, <3>3, LeavesAnswered, Zenon DEF ReservationTick, Retire, Settled
      <3>4. CASE ~trap_taken /\ op.kind = "sc"
        BY <1>1, <1>5, <1>6, <3>4, Zenon DEF ReservationTick, Retire, Settled, sc_reservation_clear
      <3>5. CASE ~trap_taken /\ op.kind \in {"store", "amo"}
        <4>1. ~lock_valid \/ normal_store_reservation_clear
          BY <1>6, <3>5, LeavesAnswered, ZenonT(30) DEF ResvInv
        <4>2. ~lock_valid' /\ resv' = {}
          BY <1>1, <1>5, <1>6, <3>5, <4>1, SMTT(30) DEF ReservationTick, Retire
        <4> QED BY <4>2, Zenon DEF Settled
      <3> QED BY <1>1, <1>2, <1>6, <3>1, <3>2, <3>3, <3>4, <3>5, Zenon
    <2>2. \A v \in Devs : ~done'[v]
      BY <1>4, <1>6, PendingEdge, Zenon
    <2>3. ~amo_result_ready'
      <3>1. AmoRearms
        BY <1>6, SMTT(30) DEF AmoRearms, global_mem_stall, amo_stall
      <3> QED BY <1>4, <3>1, ZenonT(30) DEF AmoTick
    <2> QED BY <1>3, <2>1, <2>2, <2>3, Zenon DEF ResvInv
  <1>7. CASE global_mem_stall
    <2>1. op' = op /\ resv' = resv /\ ReservationTick(FALSE) /\ ~sc_reservation_clear
      BY <1>1, <1>7, ZenonT(30) DEF sc_reservation_clear
    <2>2. \/ Settled'
          \/ op'.kind = "lr" /\ lock_valid' /\ reserved_addr' = op'.addr
          \/ op'.kind \in {"store", "amo"} /\ ~lock_valid'
      <3>1. CASE lr_reservation_set
        BY <1>5, <2>1, <3>1, ZenonT(30) DEF ReservationTick
      <3>2. CASE normal_store_reservation_clear
        BY <1>5, <2>1, <3>2, Zenon DEF ReservationTick
      <3>3. CASE ~lr_reservation_set /\ ~normal_store_reservation_clear
        <4>1. lock_valid' = lock_valid /\ reserved_addr' = reserved_addr
          BY <2>1, <3>3, Zenon DEF ReservationTick
        <4> QED BY <2>1, <4>1, Zenon DEF ResvInv, Settled
      <3> QED BY <3>1, <3>2, <3>3, Zenon
    <2>3. ASSUME op.kind = "store", NEW v \in Devs, valid(v)', done'[v]
          PROVE  ~lock_valid'
      <3>1. done'[v] = (ready(v) \/ (done[v] /\ global_mem_stall))
        BY <1>4, PendingEdge, ZenonT(30)
      <3>2. op.addr.region = v
        BY <2>1, <2>3, Zenon DEF valid
      <3>3. valid(v)
        BY <2>3, <3>2, Zenon DEF valid, store_commits, is_store
      <3>4. ready(v) => normal_store_reservation_clear
        BY <2>3, <3>2, Zenon DEF normal_store_reservation_clear
      <3>5. done[v] => ~lock_valid
        BY <2>3, <3>3, Zenon DEF ResvInv
      <3> QED BY <1>5, <2>1, <2>3, <3>1, <3>4, <3>5, ZenonT(30) DEF ReservationTick
    <2>4. ASSUME op.kind = "amo", amo_result_ready'
          PROVE  ~lock_valid'
      <3>1. CASE amo_result_ready
        BY <1>5, <2>1, <2>4, <3>1, Zenon DEF ReservationTick, ResvInv
      <3>2. CASE ~amo_result_ready
        <4>1. amo_state = "AMO_WRITE" /\ dcache_ready(dcache_req)
          BY <1>4, <2>4, <3>2, Zenon DEF AmoTick
        <4>2. normal_store_reservation_clear
          BY <2>4, <3>2, <4>1, Zenon DEF normal_store_reservation_clear, amo_write_phase, is_amo
        <4> QED BY <1>5, <2>1, <2>4, <4>2, ZenonT(30) DEF ReservationTick
      <3> QED BY <3>1, <3>2, Zenon
    <2> QED BY <1>3, <2>1, <2>2, <2>3, <2>4, ZenonT(30) DEF ResvInv
  <1> QED BY <1>6, <1>7, Zenon

\* The monitor and the program agree, but for what the operation in MEM has done
\* already (reservation_monitor.v and its gating in cpu.v).
THEOREM MonitorFollows == Spec => []ResvInv
  <1>1. CoreTypes /\ AmoInv /\ DeviceInv /\ ResvInv /\ [Next]_vars => ResvInv'
    <2> SUFFICES ASSUME CoreTypes, AmoInv, DeviceInv, ResvInv, [Next]_vars PROVE ResvInv'
      BY Zenon
    <2>1. CASE Next
      BY <2>1, ResvStep, Zenon DEF DeviceInv
    <2>2. CASE UNCHANGED vars
      BY <2>2, Zenon DEF vars, memStageVars, ResvInv, Settled, valid, is_load, is_store, store_commits,
         sc_successful
    <2> QED BY <2>1, <2>2, Zenon
  <1>2. Init => ResvInv
    BY Zenon DEF Init, ResvInv, Settled, Devs, NoOp
  <1> QED BY <1>1, <1>2, WorkloadRuns, DevicesServed, PTL DEF Spec

\* An SC in MEM has the verdict of the program's reservation.
LEMMA ScVerdict ==
  ASSUME ResvInv, op.kind = "sc"
  PROVE  sc_successful <=> resv = {op.addr}
  BY Zenon DEF ResvInv, Settled, sc_successful

\* An SC that leaves MEM succeeds exactly when the program's reservation stands,
\* for every program and every stall (reservation_monitor.v, cpu.v).
THEOREM ScDecides == Spec => []ScExact
  <1>1. ResvInv => ScExact
    BY ScVerdict, Zenon DEF ScExact
  <1> QED BY <1>1, MonitorFollows, PTL

(***************************************************************************)
(* The guessed addresses: both arrays are always addressed by what is then *)
(* asked for.                                                              *)
(***************************************************************************)
SpecInv == q_a_idx \in IndexOfOp(op) /\ q_a = pc.h

(***************************************************************************)
(* The fetch.                                                              *)
(***************************************************************************)
IStates == {"S_INIT", "S_IDLE", "S_FILL", "S_RECHECK"}

IcTypes ==
  /\ iState \in IStates /\ iSweep \in IcIndexes /\ miss_addr_q \in Nat
  /\ tagA \in [IcIndexes -> [v : BOOLEAN, tag : Nat]] /\ tagB = tagA
  /\ dat_even \in [IcIndexes -> Int] /\ dat_odd = dat_even

\* A valid tag names the line its set holds; the sweep has cleared the sets
\* before iSweep.
IcLines ==
  \A s \in IcIndexes : tagA[s].v =>
    IF iState = "S_INIT" THEN s >= iSweep
    ELSE dat_even[s] = tagA[s].tag * IC_SETS + s

\* What the arrays give for an address that nobody writes.
IdxB(h) == IF cross_line(h) THEN (IndexOf(h) + 1) % IC_SETS ELSE IndexOf(h)
HalfRead(h) ==
  IF dat_even[IndexOf(h)] = NoHalf THEN NoHalf
  ELSE dat_even[IndexOf(h)] * LINE_HALVES + (h % LINE_HALVES)

\* An idle cache has read the arrays as they are, for the pc of this cycle.
IcRead ==
  iState = "S_IDLE" =>
    /\ q_tagA = tagA[IndexOf(pc.h)] /\ q_tagB = tagA[IdxB(pc.h)]
    /\ he = HalfRead(EvenHalf(pc.h)) /\ ho = HalfRead(OddHalf(pc.h))
    /\ q_unal = (pc.h % 2 = 1)

\* The TCM's answer is for the pc of this cycle.
TcmFetch ==
  /\ tcm_i_pending \in BOOLEAN /\ tcm_i_ready = tcm_i_pending
  /\ tcm_i_ready =>
       /\ pc.region = "tcm" /\ tcm_i_unal = (pc.h % 2 = 1)
       /\ tcm_i_even = EvenHalf(pc.h) /\ tcm_i_odd = OddHalf(pc.h)

FetchInv == CoreTypes /\ SpecInv /\ IcTypes /\ IcLines /\ IcRead /\ TcmFetch

\* Both guesses are exact at every edge (dc_addr_next and pc_next).
LEMMA SpecStep ==
  ASSUME Next
  PROVE  SpecInv'
  <1>1. PICK trap_taken, a_idx, dmem_ready, imem_ready, answers :
          /\ Tick(op', pc', trap_taken, a_idx, dmem_ready, imem_ready, answers)
          /\ a_idx \in dc_addr_next(op')
          /\ global_mem_stall => op' = op
    BY NextTick, Zenon
  <1>2. q_a_idx' = a_idx /\ q_a' = pc'.h
    BY <1>1, Zenon DEF Tick, DCacheTick, ICacheTick
  <1>3. a_idx \in IndexOfOp(op')
    BY <1>1, Zenon DEF dc_addr_next
  <1> QED BY <1>2, <1>3, Zenon DEF SpecInv, IndexOfOp

(***************************************************************************)
(* The address arithmetic of the instruction cache.                        *)
(***************************************************************************)

\* Line, set and tag of a halfword, and its place in the line.
LEMMA Place ==
  ASSUME NEW h \in Halves
  PROVE  /\ h \in Nat /\ LineOf(h) \in Nat /\ h % LINE_HALVES \in 0 .. LINE_HALVES - 1
         /\ h = LineOf(h) * LINE_HALVES + (h % LINE_HALVES)
         /\ IndexOf(h) \in IcIndexes /\ TagOf(h) \in Nat
         /\ LineOf(h) = TagOf(h) * IC_SETS + IndexOf(h)
  <1>1. h \in Nat /\ LINE_HALVES \in Nat \ {0} /\ IC_SETS \in Nat \ {0}
    BY Size, ICacheAssumption DEF Halves
  <1>2. /\ h \div LINE_HALVES \in Nat /\ h % LINE_HALVES \in 0 .. LINE_HALVES - 1
        /\ h = LINE_HALVES * (h \div LINE_HALVES) + (h % LINE_HALVES)
    BY <1>1, Division, ZenonT(30)
  <1> DEFINE l == h \div LINE_HALVES
  <1>3. l \div IC_SETS \in Nat /\ l % IC_SETS \in 0 .. IC_SETS - 1
        /\ l = IC_SETS * (l \div IC_SETS) + (l % IC_SETS)
    BY <1>1, <1>2, Division, ZenonT(30)
  <1>4. /\ l * LINE_HALVES = LINE_HALVES * l
        /\ (l \div IC_SETS) * IC_SETS = IC_SETS * (l \div IC_SETS)
    <2> HIDE DEF l
    <2> QED BY <1>1, <1>2, <1>3, SMTT(30)
  <1> QED BY <1>1, <1>2, <1>3, <1>4, ZenonT(30) DEF LineOf, IndexOf, TagOf, IcIndexes

\* The halfword after an even one lies in the same line.
LEMMA AfterEven ==
  ASSUME NEW h \in Halves, h % 2 = 0
  PROVE  /\ Plus2(h) = h + 1 /\ ~cross_line(h)
         /\ LineOf(Plus2(h)) = LineOf(h) /\ Plus2(h) \in Halves
  <1> DEFINE n == IC_TAGS * IC_SETS
             m == n * LINE_HALVES
  <1>1. n \in Nat \ {0} /\ Halves = 0 .. m - 1 /\ LINE_HALVES \in {2, 4, 6, 8}
    BY Size, Zenon
  <1>2. m \in Nat \ {0} /\ m % 2 = 0
    <2> HIDE DEF n
    <2> QED BY <1>1
  <1>3. h \in Nat /\ h < m /\ IC_TAGS * IC_SETS * LINE_HALVES = m
    BY <1>1
  <1> HIDE DEF m, n
  <1>4. h + 1 < m /\ (h + 1) % m = h + 1
    BY <1>2, <1>3, SMTT(30)
  <1>5. h % LINE_HALVES # LINE_HALVES - 1 /\ (h + 1) \div LINE_HALVES = h \div LINE_HALVES
    BY <1>1, <1>3, SMTT(30)
  <1>6. Plus2(h) = h + 1
    BY <1>3, <1>4, ZenonT(30) DEF Plus2
  <1>7. h + 1 \in Halves
    BY <1>1, <1>2, <1>3, <1>4, SMTT(30)
  <1> QED BY <1>5, <1>6, <1>7, Zenon DEF cross_line, LineOf

\* The halfword after an odd one lies in the same line, or starts the next, which
\* is in the next set; the last line is followed by the first.
LEMMA AfterOdd ==
  ASSUME NEW h \in Halves, h % 2 = 1
  PROVE  /\ Plus2(h) \in Halves
         /\ ~cross_line(h) => LineOf(Plus2(h)) = LineOf(h)
         /\ cross_line(h) => IndexOf(Plus2(h)) = IdxB(h)
  <1> DEFINE n == IC_TAGS * IC_SETS
             m == n * LINE_HALVES
             l == LineOf(h)
  <1>1. n \in Nat \ {0} /\ Halves = 0 .. m - 1 /\ LINE_HALVES \in {2, 4, 6, 8}
    BY Size, ZenonT(30)
  <1>2. m \in Nat \ {0} /\ m % LINE_HALVES = 0 /\ m \div LINE_HALVES = n
    <2> HIDE DEF n
    <2> QED BY <1>1
  <1>3. h \in Nat /\ h < m /\ IC_TAGS * IC_SETS * LINE_HALVES = m
    BY <1>1
  <1> HIDE DEF m
  <1>4. Plus2(h) = IF h + 1 = m THEN 0 ELSE h + 1
    <2>1. (h + 1) % m = IF h + 1 = m THEN 0 ELSE h + 1
      BY <1>2, <1>3
    <2> QED BY <1>3, <2>1, ZenonT(30) DEF Plus2
  <1>5. ~cross_line(h) => h + 1 < m /\ LineOf(h + 1) = l
    BY <1>1, <1>2, <1>3, SMTT(30) DEF LineOf, cross_line
  <1>6. ASSUME cross_line(h) PROVE IndexOf(Plus2(h)) = IdxB(h)
    <2>1. /\ h + 1 = m => l + 1 = n
          /\ h + 1 # m => LineOf(h + 1) = l + 1
      BY <1>1, <1>2, <1>3, <1>6, SMTT(30) DEF LineOf, cross_line
    <2>2. l \in Nat /\ IC_SETS \in Nat \ {0} /\ IC_TAGS \in Nat \ {0}
      BY Place, ICacheAssumption, Zenon
    <2>3. (l + 1) % IC_SETS = ((l % IC_SETS) + 1) % IC_SETS
      <3> HIDE DEF l
      <3> DEFINE t == l \div IC_SETS
                 r == l % IC_SETS
      <3>1. t \in Nat /\ r \in 0 .. IC_SETS - 1 /\ l = IC_SETS * t + r
        BY <2>2, Division, Zenon
      <3> HIDE DEF t, r
      <3>2. CASE r = IC_SETS - 1
        <4>1. l + 1 = IC_SETS * (t + 1) + 0
          BY <2>2, <3>1, <3>2
        <4>2. (IC_SETS * (t + 1) + 0) % IC_SETS = 0
          BY <2>2, <3>1, DivisionOf
        <4>3. (r + 1) % IC_SETS = 0
          BY <2>2, <3>2
        <4> QED BY <4>1, <4>2, <4>3, Zenon DEF r
      <3>3. CASE r # IC_SETS - 1
        <4>1. r + 1 \in 0 .. IC_SETS - 1 /\ l + 1 = IC_SETS * t + (r + 1)
          BY <2>2, <3>1, <3>3, SMTT(30)
        <4>2. (IC_SETS * t + (r + 1)) % IC_SETS = r + 1
          BY <2>2, <3>1, <4>1, DivisionOf, Zenon
        <4>3. (r + 1) % IC_SETS = r + 1
          BY <2>2, <4>1
        <4> QED BY <4>1, <4>2, <4>3, ZenonT(30) DEF r
      <3> QED BY <3>2, <3>3, Zenon
    <2>4. n % IC_SETS = 0 /\ LineOf(0) = 0 /\ 0 % IC_SETS = 0
      <3>1. n = IC_SETS * IC_TAGS + 0 /\ IC_TAGS \in Nat
        BY <2>2, SMTT(30)
      <3>2. (IC_SETS * IC_TAGS + 0) % IC_SETS = 0
        BY <2>2, DivisionOf
      <3>3. LineOf(0) = 0
        BY <1>1 DEF LineOf
      <3>4. 0 % IC_SETS = 0
        BY <2>2
      <3> QED BY <3>1, <3>2, <3>3, <3>4, ZenonT(30)
    <2> HIDE DEF l, n
    <2> QED BY <1>4, <1>6, <2>1, <2>3, <2>4, Zenon DEF IndexOf, IdxB, l
  <1>7. Plus2(h) \in Halves
    BY <1>1, <1>2, <1>3, <1>4, SMTT(30)
  <1>8. ~cross_line(h) => LineOf(Plus2(h)) = l
    BY <1>2, <1>3, <1>4, <1>5
  <1> QED BY <1>6, <1>7, <1>8, Zenon

\* A set that holds the line of x under its tag gives x.
LEMMA HalfHeld ==
  ASSUME IcTypes, IcLines, iState # "S_INIT", NEW x \in Halves,
         tagA[IndexOf(x)].v, tagA[IndexOf(x)].tag = TagOf(x)
  PROVE  HalfRead(x) = x
  <1>1. /\ x \in Nat /\ x = LineOf(x) * LINE_HALVES + (x % LINE_HALVES)
        /\ LineOf(x) \in Nat /\ IndexOf(x) \in IcIndexes
        /\ LineOf(x) = TagOf(x) * IC_SETS + IndexOf(x)
    BY Place, Zenon
  <1>2. dat_even[IndexOf(x)] = LineOf(x)
    BY <1>1, ZenonT(30) DEF IcLines
  <1>3. LineOf(x) # NoHalf
    BY <1>1 DEF NoHalf
  <1> QED BY <1>1, <1>2, <1>3, ZenonT(30) DEF HalfRead

\* The registered select is the parity of the address it was read with.
LEMMA Unaligned ==
  ASSUME NEW h, NEW unal, unal = (h % 2 = 1)
  PROVE  (h % 2 = 1 => unal) /\ (h % 2 = 0 => ~unal)
  <1>1. h % 2 = 0 => ~(h % 2 = 1)
    OBVIOUS
  <1> QED BY <1>1, Zenon

\* The fetch invariant gives the two halfwords at pc.
LEMMA FetchServes ==
  ASSUME FetchInv
  PROVE  FetchRight
  <1> DEFINE h == pc.h
  <1>1. h \in Halves /\ pc.region \in {"ddr", "tcm"}
    BY Zenon DEF FetchInv, CoreTypes
  <1>2. \/ h % 2 = 1 /\ EvenHalf(h) = Plus2(h) /\ OddHalf(h) = h
        \/ h % 2 = 0 /\ EvenHalf(h) = h /\ OddHalf(h) = Plus2(h)
    <2>1. h % 2 = 0 \/ h % 2 = 1
      BY <1>1, Place
    <2> HIDE DEF h
    <2> QED BY <1>1, <2>1, AfterEven, ZenonT(30) DEF EvenHalf, OddHalf
  <1>3. CASE pc.region = "tcm"
    <2> SUFFICES ASSUME tcm_i_ready
                 PROVE  Stitch(tcm_i_unal, tcm_i_even, tcm_i_odd) = <<h, Plus2(h)>>
      BY <1>3, Zenon DEF FetchRight, imem_stall, cache_ready, if_inst
    <2>1. /\ tcm_i_unal = (h % 2 = 1)
          /\ tcm_i_even = EvenHalf(h) /\ tcm_i_odd = OddHalf(h)
      BY Zenon DEF FetchInv, TcmFetch
    <2>2. (h % 2 = 1 => tcm_i_unal) /\ (h % 2 = 0 => ~tcm_i_unal)
      BY <2>1, Unaligned, Zenon
    <2> HIDE DEF h
    <2> QED BY <1>2, <2>1, <2>2, ZenonT(30) DEF Stitch
  <1>4. CASE pc.region = "ddr" /\ fetch_ready(pc)
    <2>1. /\ iState = "S_IDLE" /\ hitA(h) /\ (cross_line(h) => hitB(h))
          /\ q_tagA = tagA[IndexOf(h)] /\ q_tagB = tagA[IdxB(h)]
          /\ he = HalfRead(EvenHalf(h)) /\ ho = HalfRead(OddHalf(h))
          /\ q_unal = (h % 2 = 1)
      BY <1>4, Zenon DEF fetch_ready, fetch_hit, FetchInv, IcRead
    <2>2. IcTypes /\ IcLines
      BY Zenon DEF FetchInv
    <2>3. HalfRead(h) = h
      BY <1>1, <2>1, <2>2, HalfHeld, Zenon DEF hitA
    <2>4. HalfRead(Plus2(h)) = Plus2(h)
      <3> HIDE DEF h
      <3>1. Plus2(h) \in Halves /\ (~cross_line(h) => LineOf(Plus2(h)) = LineOf(h))
            /\ (cross_line(h) => IndexOf(Plus2(h)) = IdxB(h))
        BY <1>1, <1>2, AfterEven, AfterOdd, ZenonT(30)
      <3>2. CASE cross_line(h)
        BY <2>1, <2>2, <3>1, <3>2, HalfHeld, ZenonT(30) DEF hitB
      <3>3. CASE ~cross_line(h)
        <4>1. IndexOf(Plus2(h)) = IndexOf(h) /\ TagOf(Plus2(h)) = TagOf(h)
          BY <3>1, <3>3, Zenon DEF IndexOf, TagOf
        <4> QED BY <2>1, <2>2, <3>1, <4>1, HalfHeld, Zenon DEF hitA
      <3> QED BY <3>2, <3>3, Zenon
    <2>5. Stitch(q_unal, he, ho) = <<h, Plus2(h)>>
      <3>1. \/ h % 2 = 1 /\ he = Plus2(h) /\ ho = h
            \/ h % 2 = 0 /\ he = h /\ ho = Plus2(h)
        BY <1>2, <2>1, <2>3, <2>4, Zenon
      <3>2. (h % 2 = 1 => q_unal) /\ (h % 2 = 0 => ~q_unal)
        BY <2>1, Unaligned, Zenon
      <3> HIDE DEF h
      <3> QED BY <3>1, <3>2, Zenon DEF Stitch
    <2> QED BY <1>4, <2>5, Zenon DEF FetchRight, if_inst
  <1>5. CASE pc.region = "ddr" /\ ~fetch_ready(pc)
    BY <1>5, Zenon DEF FetchRight, imem_stall, cache_ready
  <1> QED BY <1>1, <1>3, <1>4, <1>5, Zenon

\* The edge of the fetch side.
LEMMA FetchEdge ==
  ASSUME Next
  PROVE  \E imem_ready : ICacheTick(pc, pc'.h, imem_ready) /\ TcmITick(pc)
  BY NextTick, ZenonT(30) DEF Tick

\* The arrays of the instruction cache keep their shape.
LEMMA IcTypesStep ==
  ASSUME FetchInv, NEW imem_ready, ICacheTick(pc, pc'.h, imem_ready)
  PROVE  IcTypes'
  <1>t. /\ iState \in IStates /\ iSweep \in IcIndexes /\ miss_addr_q \in Nat
        /\ tagA \in [IcIndexes -> [v : BOOLEAN, tag : Nat]] /\ tagB = tagA
        /\ dat_even \in [IcIndexes -> Int] /\ dat_odd = dat_even
        /\ IC_SETS \in Nat \ {0} /\ pc.h \in Halves
    BY ICacheAssumption, Zenon DEF FetchInv, IcTypes, CoreTypes
  <1>1. iState' \in IStates
    BY <1>t, Zenon DEF ICacheTick, IStateNext, IStates
  <1>2. iSweep' \in IcIndexes
    <2>1. (iSweep + 1) % IC_SETS \in 0 .. IC_SETS - 1
      BY <1>t DEF IcIndexes
    <2> QED BY <1>t, <2>1, Zenon DEF ICacheTick, IcIndexes
  <1>3. miss_addr_q' \in Nat
    <2>1. Plus2(pc.h) \in Halves
      <3>1. pc.h % 2 = 0 \/ pc.h % 2 = 1
        BY <1>t, Place, SMTT(30)
      <3> QED BY <1>t, <3>1, AfterEven, AfterOdd, ZenonT(30)
    <2>2. LineOf(pc.h) \in Nat /\ LineOf(Plus2(pc.h)) \in Nat
      BY <1>t, <2>1, Place, Zenon
    <2> QED BY <1>t, <2>2, ZenonT(30) DEF ICacheTick, miss_addr
  <1> DEFINE m == miss_addr_q % IC_SETS
  <1>4. m \in IcIndexes /\ miss_addr_q \div IC_SETS \in Nat
    BY <1>t, Division, Zenon DEF IcIndexes
  <1> HIDE DEF m
  <1>5. tagA' \in [IcIndexes -> [v : BOOLEAN, tag : Nat]] /\ tagB' = tagA'
    BY <1>t, <1>4, SMTT(30) DEF ICacheTick, TagNext, IcInvalid, m
  <1>6. dat_even' \in [IcIndexes -> Int] /\ dat_odd' = dat_even'
    BY <1>t, <1>4, SMTT(30) DEF ICacheTick, BankNext, m
  <1> QED BY <1>1, <1>2, <1>3, <1>5, <1>6, Zenon DEF IcTypes

\* A fill writes line and tag together, and the sweep leaves no valid tag behind.
LEMMA IcLinesStep ==
  ASSUME FetchInv, NEW imem_ready, ICacheTick(pc, pc'.h, imem_ready)
  PROVE  IcLines'
  <1>t. /\ iState \in IStates /\ iSweep \in IcIndexes /\ miss_addr_q \in Nat
        /\ tagA \in [IcIndexes -> [v : BOOLEAN, tag : Nat]]
        /\ dat_even \in [IcIndexes -> Int] /\ IC_SETS \in Nat \ {0}
    BY ICacheAssumption, Zenon DEF FetchInv, IcTypes
  <1> SUFFICES ASSUME NEW s \in IcIndexes, tagA'[s].v
               PROVE  IF iState' = "S_INIT" THEN s >= iSweep'
                      ELSE dat_even'[s] = tagA'[s].tag * IC_SETS + s
    BY Zenon DEF IcLines
  <1>0. s \in Nat /\ s < IC_SETS
    BY <1>t DEF IcIndexes
  <1>1. CASE iState = "S_INIT"
    <2>1. tagA' = [tagA EXCEPT ![iSweep] = IcInvalid]
      BY <1>1, Zenon DEF ICacheTick, TagNext
    <2>2. s # iSweep /\ tagA[s].v
      BY <1>t, <2>1, ZenonT(30) DEF IcInvalid
    <2>3. s >= iSweep + 1
      BY <1>0, <1>1, <1>t, <2>2, SMTT(30) DEF FetchInv, IcLines, IcIndexes
    <2>4. iState' = "S_INIT" /\ iSweep' = (iSweep + 1) % IC_SETS /\ iSweep # IC_SETS - 1
      BY <1>0, <1>1, <1>t, <2>3, SMTT(30) DEF ICacheTick, IStateNext, IcIndexes
    <2>5. (iSweep + 1) % IC_SETS = iSweep + 1
      <3>1. iSweep \in Nat /\ iSweep + 1 < IC_SETS
        BY <1>0, <1>t, <2>3 DEF IcIndexes
      <3> QED BY <1>t, <3>1, SMTT(30)
    <2> QED BY <2>3, <2>4, <2>5, Zenon
  <1>2. CASE iState # "S_INIT" /\ ~wr_en(imem_ready)
    <2>1. tagA' = tagA /\ dat_even' = dat_even /\ iState' # "S_INIT"
      BY <1>2, <1>t, Zenon DEF ICacheTick, TagNext, BankNext, IStateNext, IStates
    <2> QED BY <1>2, <2>1, Zenon DEF FetchInv, IcLines
  <1>3. CASE iState # "S_INIT" /\ wr_en(imem_ready)
    <2> DEFINE m == miss_addr_q % IC_SETS
    <2>1. /\ m \in IcIndexes /\ miss_addr_q \div IC_SETS \in Nat
          /\ miss_addr_q = IC_SETS * (miss_addr_q \div IC_SETS) + m
      BY <1>t, Division, Zenon DEF IcIndexes
    <2>2. /\ tagA' = [tagA EXCEPT ![m] = [v |-> TRUE, tag |-> miss_addr_q \div IC_SETS]]
          /\ dat_even' = [dat_even EXCEPT ![m] = miss_addr_q]
          /\ iState' # "S_INIT"
      BY <1>3, ZenonT(30) DEF ICacheTick, TagNext, BankNext, IStateNext, wr_en
    <2> HIDE DEF m
    <2>3. CASE s = m
      <3>1. tagA'[s].tag = miss_addr_q \div IC_SETS /\ dat_even'[s] = miss_addr_q
        BY <1>t, <2>1, <2>2, <2>3, ZenonT(30)
      <3> DEFINE t == miss_addr_q \div IC_SETS
      <3> HIDE DEF t
      <3>2. miss_addr_q = t * IC_SETS + s
        BY <1>t, <2>1, <2>3 DEF t
      <3> QED BY <2>2, <3>1, <3>2, Zenon DEF t
    <2>4. CASE s # m
      <3>1. tagA'[s] = tagA[s] /\ dat_even'[s] = dat_even[s]
        BY <1>t, <2>1, <2>2, <2>4, Zenon
      <3> QED BY <1>3, <2>2, <3>1, Zenon DEF FetchInv, IcLines
    <2> QED BY <2>3, <2>4, Zenon
  <1> QED BY <1>1, <1>2, <1>3, Zenon

\* An idle cache has read its arrays while nobody wrote them.
LEMMA IcReadStep ==
  ASSUME FetchInv, NEW imem_ready, ICacheTick(pc, pc'.h, imem_ready)
  PROVE  IcRead'
  <1> SUFFICES ASSUME iState' = "S_IDLE"
               PROVE  /\ q_tagA' = tagA'[IndexOf(pc'.h)] /\ q_tagB' = tagA'[IdxB(pc'.h)]
                      /\ he' = HalfRead(EvenHalf(pc.h))' /\ ho' = HalfRead(OddHalf(pc.h))'
                      /\ q_unal' = (pc'.h % 2 = 1)
    BY Zenon DEF IcRead
  <1>1. iState \in {"S_IDLE", "S_RECHECK"}
    BY Zenon DEF FetchInv, IcTypes, IStates, ICacheTick, IStateNext
  <1>2. ~wr_en(imem_ready) /\ tagB = tagA /\ dat_odd = dat_even
    BY <1>1, Zenon DEF wr_en, FetchInv, IcTypes
  <1>3. /\ tagA' = tagA /\ dat_even' = dat_even
        /\ TagNext(tagA, imem_ready) = tagA /\ TagNext(tagB, imem_ready) = tagB
    BY <1>1, <1>2, ZenonT(30) DEF ICacheTick, TagNext, BankNext
  <1>4. q_tagA' = tagA[IndexOf(pc'.h)] /\ q_tagB' = tagA[IdxB(pc'.h)]
    BY <1>2, <1>3, SMTT(30) DEF ICacheTick, IdxB
  <1>5. he' = HalfRead(EvenHalf(pc.h))' /\ ho' = HalfRead(OddHalf(pc.h))'
    BY <1>2, <1>3, Zenon DEF ICacheTick, HalfAt, HalfRead
  <1>6. q_unal' = (pc'.h % 2 = 1)
    BY Zenon DEF ICacheTick
  <1> QED BY <1>3, <1>4, <1>5, <1>6, Zenon

\* The TCM answers in the cycle after the request, for the same pc: the request
\* itself stalls the pipeline.
LEMMA TcmFetchStep ==
  ASSUME FetchInv, Next
  PROVE  TcmFetch'
  <1>1. TcmITick(pc)
    BY FetchEdge, Zenon
  <1>2. tcm_i_pending \in BOOLEAN /\ tcm_i_ready = tcm_i_pending
    BY Zenon DEF FetchInv, TcmFetch
  <1>3. CASE tcm_i_req(pc)
    <2>1. global_mem_stall
      BY <1>2, <1>3, Zenon DEF tcm_i_req, global_mem_stall, imem_stall, cache_ready
    <2>2. pc' = pc
      BY <2>1, CoreStep, Zenon DEF FetchInv
    <2> QED BY <1>1, <1>3, <2>2, Zenon DEF TcmITick, TcmFetch, tcm_i_req
  <1>4. CASE ~tcm_i_req(pc)
    <2>1. tcm_i_pending' = FALSE /\ tcm_i_ready' = FALSE
      BY <1>1, <1>2, <1>4, Zenon DEF TcmITick, tcm_i_req
    <2> QED BY <2>1, Zenon DEF TcmFetch
  <1> QED BY <1>3, <1>4, Zenon

\* A clock edge preserves the fetch invariant.
LEMMA FetchStep ==
  ASSUME FetchInv, Next
  PROVE  FetchInv'
  <1>1. PICK imem_ready : ICacheTick(pc, pc'.h, imem_ready)
    BY FetchEdge, Zenon
  <1>2. IcTypes' /\ IcLines' /\ IcRead'
    BY <1>1, IcTypesStep, IcLinesStep, IcReadStep, Zenon
  <1>3. CoreTypes'
    BY CoreStep, Zenon DEF FetchInv
  <1> QED BY <1>2, <1>3, SpecStep, TcmFetchStep, Zenon DEF FetchInv

\* Reset: nothing is in MEM, the fetch starts at the TCM's first halfword.
LEMMA FetchInit ==
  ASSUME Init
  PROVE  FetchInv
  <1>1. CoreTypes
    BY CoreInit, SMTT(30)
  <1>2. SpecInv
    BY DCacheAssumption, SMTT(30) DEF Init, SpecInv, NoOp, IndexOfOp, Sets, DCacheInit, ICacheInit
  <1>3. IcTypes
    BY ICacheAssumption, SMTT(30) DEF Init, ICacheInit, IcTypes, IStates, IcIndexes, NoHalf
  <1>4. IcLines
    BY DEF Init, ICacheInit, IcLines, IcIndexes
  <1>5. IcRead /\ TcmFetch
    BY Zenon DEF Init, ICacheInit, IcRead, TcmIInit, TcmFetch
  <1> QED BY <1>1, <1>2, <1>3, <1>4, <1>5, Zenon DEF FetchInv

\* What the fetch relies on holds while the machine runs: tags name the lines of
\* their sets, and an idle cache has read them for the pc of the cycle.
THEOREM FetchCoherent == Spec => []FetchInv
  <1>1. FetchInv /\ [Next]_vars => FetchInv'
    <2> SUFFICES ASSUME FetchInv, [Next]_vars PROVE FetchInv'
      BY Zenon
    <2>1. CASE Next
      BY <2>1, FetchStep, Zenon
    <2>2. CASE UNCHANGED vars
      <3>1. CoreTypes' /\ SpecInv' /\ TcmFetch'
        BY <2>2, Zenon DEF vars, dcVars, icVars, tcmIVars, memStageVars, FetchInv, CoreTypes,
           SpecInv, TcmFetch, IndexOfOp
      <3>2. IcTypes' /\ IcLines' /\ IcRead'
        BY <2>2, Zenon DEF vars, icVars, memStageVars, FetchInv, IcTypes, IcLines, IcRead, HalfRead
      <3> QED BY <3>1, <3>2, Zenon DEF FetchInv
    <2> QED BY <2>1, <2>2, Zenon
  <1> QED BY <1>1, FetchInit, PTL DEF Spec

\* The instruction handed to IF is the two halfwords at pc, for every cache
\* geometry and every program (icache_bram.v, tcm.v).
THEOREM FetchesRight == Spec => []FetchRight
  BY FetchCoherent, FetchServes, PTL

\* The address guessed one cycle ahead is always the one then asked for, in both
\* caches (dc_addr_next and pc_next, cpu.v).
THEOREM GuessesExact == Spec => []SpeculationExact
  <1>1. FetchInv => SpeculationExact
    <2> SUFFICES ASSUME FetchInv PROVE SpeculationExact
      BY Zenon
    <2>1. InDdr(dcache_req) => op.kind # "none"
      BY Zenon DEF InDdr, dcache_req, dcache_ren, dcache_wen, is_load, store_commits, is_store,
         amo_read_phase, amo_write_phase, is_amo
    <2>2. InDdr(dcache_req) => spec_ok(dcache_req)
      BY <2>1, Zenon DEF FetchInv, SpecInv, IndexOfOp, spec_ok, dcache_req
    <2>3. i_spec_ok(pc.h)
      BY Zenon DEF FetchInv, SpecInv, i_spec_ok
    <2> QED BY <2>2, <2>3, Zenon DEF SpeculationExact
  <1> QED BY <1>1, FetchCoherent, PTL

(***************************************************************************)
(* The data cache.                                                         *)
(***************************************************************************)
DStates == {"S_INIT", "S_IDLE", "S_CAP", "S_WB", "S_FILL", "S_RECHECK"}
TagWords == [v : BOOLEAN, tag : Tags]

DcTypes ==
  /\ dState \in DStates /\ sweep_cnt \in Sets /\ q_a_idx \in Sets
  /\ miss_idx \in Sets /\ miss_tag \in Tags /\ wb_tag \in Tags
  /\ tagv \in [Sets -> TagWords] /\ q_tagv \in TagWords /\ dirty \in [Sets -> BOOLEAN]
  /\ d \in [Sets -> [Banks -> Word]] /\ lines \in [LineAddrs -> [Banks -> Word]]
  /\ q \in [Banks -> Word] /\ wb_line \in [Banks -> Word]

\* The line a set holds, and the word an address holds: in the cache if its line
\* is there, in the lower memory otherwise.
LineIn(s) == [tag |-> tagv[s].tag, set |-> s]
Held(a) == dState # "S_INIT" /\ tagv[a.set].v /\ tagv[a.set].tag = a.tag
Memory(a) == IF Held(a) THEN d[a.set][a.bank]
             ELSE lines[[tag |-> a.tag, set |-> a.set]][a.bank]

\* The sweep has cleared the sets before sweep_cnt.
Swept == dState = "S_INIT" => \A s \in Sets : s < sweep_cnt => ~tagv[s].v

\* A clean line is the memory's.
Clean == dState # "S_INIT" => \A s \in Sets : tagv[s].v /\ ~dirty[s] => d[s] = lines[LineIn(s)]

\* An idle cache has read the arrays as they are, if the bytes just stored are
\* taken from the bypass.
Bypassed(b) == [l \in Lanes |-> IF byp_use(b) /\ l \in byp_be THEN byp_data[l] ELSE q[b][l]]
DcRead ==
  dState = "S_IDLE" => q_tagv = tagv[q_a_idx] /\ \A b \in Banks : Bypassed(b) = d[q_a_idx][b]

\* A miss is of the request in MEM, and the line that must make room is saved
\* before it is overwritten.
Missing ==
  dState \in {"S_CAP", "S_WB", "S_FILL"} =>
    /\ InDdr(dcache_req) /\ miss_idx = op.addr.set /\ miss_tag = op.addr.tag
    /\ tagv[miss_idx].v => tagv[miss_idx].tag # miss_tag
    /\ dState = "S_CAP" => q = d[miss_idx] /\ q_tagv = tagv[miss_idx]
    /\ dState = "S_WB" => /\ tagv[miss_idx].v /\ wb_tag = tagv[miss_idx].tag
                          /\ wb_line = d[miss_idx]
    /\ dState = "S_FILL" /\ tagv[miss_idx].v => d[miss_idx] = lines[LineIn(miss_idx)]

CacheInv == DcTypes /\ Swept /\ Clean /\ DcRead /\ Missing

(***************************************************************************)
(* The request in MEM.                                                     *)
(***************************************************************************)

\* The words of the tightly coupled memory the workload has.
TcmAddrs == {o.addr : o \in {p \in work.ops : p.addr.region = "tcm"}}

\* While the pipeline is frozen an SC keeps its verdict (sc_reservation_clear).
LEMMA ScHolds ==
  ASSUME CoreTypes, HandshakeInv, Next, global_mem_stall
  PROVE  op' = op /\ (op.kind = "sc" => sc_successful' = sc_successful)
  <1>1. PICK trap_taken :
          /\ ReservationTick(trap_taken)
          /\ trap_taken = FALSE /\ op' = op
    BY ResvEdge, Zenon
  <1>2. op.kind = "sc" => /\ ~lr_reservation_set /\ ~sc_reservation_clear
                          /\ ~normal_store_reservation_clear
    BY Zenon DEF lr_reservation_set, sc_reservation_clear, normal_store_reservation_clear,
       amo_write_phase, is_amo
  <1>3. op.kind = "sc" => lock_valid' = lock_valid /\ reserved_addr' = reserved_addr
    BY <1>1, <1>2, Zenon DEF ReservationTick
  <1> QED BY <1>1, <1>3 DEF sc_successful

\* A request stays as it is until it is answered.
LEMMA ReqHolds ==
  ASSUME CoreTypes, AmoInv, HandshakeInv, Next, dcache_req.valid, ~dcache_ready(dcache_req)
  PROVE  global_mem_stall /\ op' = op /\ dcache_req' = dcache_req
  <1>1. global_mem_stall
    BY Zenon DEF global_mem_stall, dmem_stall
  <1>2. op' = op /\ (op.kind = "sc" => sc_successful' = sc_successful)
    BY <1>1, ScHolds, Zenon
  <1>3. AmoTick
    BY NextTick, ZenonT(30) DEF Tick
  <1>4. /\ is_amo' = is_amo /\ is_load' = is_load /\ cacheable' = cacheable
        /\ store_commits' = store_commits
    BY <1>2 DEF is_amo, is_load, cacheable, cacheableOp, store_commits, is_store
  <1>5. CASE ~is_amo
    <2>1. ~amo_read_phase /\ ~amo_write_phase /\ ~amo_read_phase' /\ ~amo_write_phase'
      BY <1>4, <1>5, Zenon DEF amo_read_phase, amo_write_phase
    <2>2. dcache_ren' = dcache_ren /\ dcache_wen' = dcache_wen
      BY <1>4, <2>1, Zenon DEF dcache_ren, dcache_wen
    <2> QED BY <1>1, <1>2, <2>1, <2>2 DEF dcache_req
  <1>6. CASE is_amo
    <2>1. ~is_load /\ ~store_commits
      BY <1>6, Zenon DEF is_amo, is_load, store_commits, is_store
    <2>2. amo_read_phase \/ amo_write_phase
      BY <2>1, Zenon DEF dcache_req, dcache_ren, dcache_wen
    <2>3. ~AmoRearms
      BY <1>1, <1>6, Zenon DEF AmoRearms
    <2>4. /\ amo_state' = amo_state /\ amo_old_value' = amo_old_value
          /\ ~amo_result_ready /\ ~amo_result_ready'
      BY <1>3, <2>2, <2>3, Zenon DEF AmoTick, AmoInv, amo_read_phase, amo_write_phase
    <2>5. amo_read_phase' = amo_read_phase /\ amo_write_phase' = amo_write_phase
          /\ amo_new_value' = amo_new_value
      BY <1>2, <1>4, <2>4, Zenon DEF amo_read_phase, amo_write_phase, amo_new_value
    <2>6. dcache_ren' = dcache_ren /\ dcache_wen' = dcache_wen
      BY <1>4, <2>5, Zenon DEF dcache_ren, dcache_wen
    <2> QED BY <1>1, <1>2, <1>6, <2>5, <2>6, ZenonT(30) DEF dcache_req, is_amo
  <1> QED BY <1>5, <1>6, Zenon

\* A request is cacheable, and names its own address.
LEMMA ReqShape ==
  ASSUME CoreTypes
  PROVE  /\ dcache_req.addr = op.addr
         /\ dcache_req.valid => op.addr.region \in {"ddr", "tcm"} /\ op.kind # "none"
         /\ dcache_req.write => dcache_req.valid
         /\ InDdr(dcache_req) <=> dcache_req.valid /\ op.addr.region = "ddr"
         /\ op.addr.region = "ddr" => op.addr \in DdrAddrs
         /\ op.addr.region = "tcm" => op.addr \in TcmAddrs
  <1>1. /\ dcache_req.addr = op.addr
        /\ dcache_req.valid = (dcache_ren \/ dcache_wen) /\ dcache_req.write = dcache_wen
    BY Zenon DEF dcache_req
  <1>2. dcache_ren \/ dcache_wen => op.addr.region \in {"ddr", "tcm"} /\ op.kind # "none"
    BY ZenonT(30) DEF dcache_ren, dcache_wen, cacheable, cacheableOp, is_load, amo_read_phase, is_amo,
       amo_write_phase, store_commits, is_store
  <1>3. NoAddr \in DdrAddrs
    BY MemoryAssumption, DCacheAssumption, SMTT(30) DEF NoAddr, DdrAddrs, Invalid, Sets
  <1>4. op.kind = "none" => op.addr = NoAddr
    BY OpKinds DEF NoOp
  <1>5. op.addr.region = "ddr" => op.addr \in DdrAddrs
    BY <1>3, <1>4, OpKinds, ZenonT(30) DEF WellFormed
  <1>6. op.addr.region = "tcm" => op.addr \in TcmAddrs
    BY <1>4, OpKinds DEF NoAddr, TcmAddrs
  <1> QED BY <1>1, <1>2, <1>5, <1>6, Zenon DEF InDdr

(***************************************************************************)
(* The data cache, edge by edge.                                           *)
(***************************************************************************)

\* The cache's share of a clock edge.
LEMMA CacheEdge ==
  ASSUME CoreTypes, Next
  PROVE  \E a_idx \in Sets, mem_ready \in {FALSE, mem_req_valid} :
           /\ DCacheTick(dcache_req, a_idx, mem_ready, lines[mem_req_addr])
           /\ lines' = IF mem_ready /\ mem_req_write
                       THEN [lines EXCEPT ![mem_req_addr] = wb_line] ELSE lines
           /\ TcmDTick(dcache_req)
           /\ global_mem_stall /\ op.kind # "none" => a_idx = op.addr.set
  <1>1. PICK trap_taken, a_idx, mem_ready, imem_ready, answers :
          /\ Tick(op', pc', trap_taken, a_idx, mem_ready, imem_ready, answers)
          /\ IF global_mem_stall THEN op' = op ELSE op' \in NextOps(trap_taken)
          /\ a_idx \in dc_addr_next(op')
          /\ mem_ready \in {FALSE, mem_req_valid}
    BY NextTick, ZenonT(30)
  <1>2. op' \in {NoOp} \cup work.ops
    BY <1>1, Zenon DEF CoreTypes, NextOps
  <1>3. a_idx \in Sets
    <2>1. op' \in work.ops => op'.addr.set \in Sets
      BY WorkloadsAssumption, Zenon DEF CoreTypes, WellFormed
    <2>2. a_idx \in IndexOfOp(op')
      BY <1>1, Zenon DEF dc_addr_next
    <2>3. NoOp.kind = "none"
      BY Zenon DEF NoOp
    <2> QED BY <1>2, <2>1, <2>2, <2>3, Zenon DEF IndexOfOp
  <1>4. global_mem_stall /\ op.kind # "none" => a_idx = op.addr.set
    BY <1>1, Zenon DEF dc_addr_next, IndexOfOp
  <1>5. DCacheTick(dcache_req, a_idx, mem_ready, lines[mem_req_addr])
    BY <1>1, Zenon DEF Tick
  <1>6. lines' = IF mem_ready /\ mem_req_write
                 THEN [lines EXCEPT ![mem_req_addr] = wb_line] ELSE lines
    BY <1>1, Zenon DEF Tick
  <1>7. TcmDTick(dcache_req)
    BY <1>1, Zenon DEF Tick
  <1> QED BY <1>1, <1>3, <1>4, <1>5, <1>6, <1>7, ZenonT(30)

\* What a request writes is a word.
LEMMA WdataWord ==
  ASSUME CoreTypes, amo_old_value \in Word
  PROVE  dcache_req.wdata \in Word
  <1>1. op.wdata \in Values
    BY OpKinds, MemoryAssumption DEF NoOp, WellFormed
  <1>2. Filled(op.wdata) \in Word
    BY <1>1, Zenon DEF Filled, Word
  <1>3. amo_new_value \in Word
    BY <1>1, Zenon DEF amo_new_value, Word
  <1> QED BY <1>2, <1>3, Zenon DEF dcache_req

\* The arrays and the registers keep their types.
LEMMA DcTypesStep ==
  ASSUME CoreTypes, DcTypes, amo_old_value \in Word, Next
  PROVE  DcTypes'
  <1> DEFINE r == dcache_req
  <1>1. PICK a_idx \in Sets, mem_ready \in {FALSE, mem_req_valid} :
           /\ DCacheTick(r, a_idx, mem_ready, lines[mem_req_addr])
           /\ lines' = IF mem_ready /\ mem_req_write
                       THEN [lines EXCEPT ![mem_req_addr] = wb_line] ELSE lines
    BY CacheEdge, Zenon
  <1>2. r.wdata \in Word
    BY WdataWord, Zenon
  <1>3. InDdr(r) => r.addr \in DdrAddrs
    BY ReqShape, Zenon
  <1> HIDE DEF r
  <1>4. mem_req_addr \in LineAddrs
    BY Zenon DEF DcTypes, mem_req_addr, LineAddrs
  <1>5. lines[mem_req_addr] \in [Banks -> Word]
    BY <1>4, Zenon DEF DcTypes
  <1>6. lines' \in [LineAddrs -> [Banks -> Word]]
    BY <1>1, <1>4, Zenon DEF DcTypes
  <1>7. d' \in [Sets -> [Banks -> Word]]
    <2>1. d' = DataNext(r, mem_ready, lines[mem_req_addr])
      BY <1>1, Zenon DEF DCacheTick
    <2>2. CASE fill_en(mem_ready)
      BY <1>5, <2>1, <2>2, Zenon DEF DataNext, DcTypes
    <2>3. CASE ~fill_en(mem_ready) /\ wr_hit(r)
      <3>1. r.addr.set \in Sets /\ r.addr.bank \in Banks
        BY <1>3, <2>3, Zenon DEF wr_hit, bram_ready, DdrAddrs
      <3> DEFINE w == [l \in Lanes |-> IF l \in r.wmask THEN r.wdata[l]
                                       ELSE d[r.addr.set][r.addr.bank][l]]
      <3>2. d[r.addr.set][r.addr.bank] \in Word
        BY <3>1, Zenon DEF DcTypes
      <3>3. w \in Word
        BY <1>2, <3>2, Zenon DEF Word
      <3>4. d' = [d EXCEPT ![r.addr.set][r.addr.bank] = w]
        BY <2>1, <2>3, Zenon DEF DataNext
      <3> HIDE DEF w
      <3> QED BY <3>1, <3>3, <3>4, Zenon DEF DcTypes
    <2>4. CASE ~fill_en(mem_ready) /\ ~wr_hit(r)
      BY <2>1, <2>4, Zenon DEF DataNext, DcTypes
    <2> QED BY <2>2, <2>3, <2>4, Zenon
  <1>8. q' \in [Banks -> Word]
    <2>1. q' = ReadLine(a_idx, r, mem_ready)
      BY <1>1, Zenon DEF DCacheTick
    <2>2. d[a_idx] \in [Banks -> [Lanes -> Values \cup {Junk}]]
      BY <1>1, Zenon DEF DcTypes, Word
    <2> QED BY <2>1, <2>2, ZenonT(30) DEF ReadLine, Word
  <1>9. tagv' \in [Sets -> TagWords] /\ q_tagv' \in TagWords
    <2>1. Invalid \in TagWords
      BY MemoryAssumption, Zenon DEF Invalid, TagWords
    <2>2. TagvNext(mem_ready) \in [Sets -> TagWords]
      BY <2>1, Zenon DEF TagvNext, DcTypes, TagWords
    <2> QED BY <1>1, <2>2, Zenon DEF DCacheTick, DcTypes
  <1>10. dirty' \in [Sets -> BOOLEAN]
    BY <1>1, Zenon DEF DCacheTick, DirtyNext, DcTypes
  <1>11. dState' \in DStates
    BY <1>1, Zenon DEF DCacheTick, StateNext, DcTypes, DStates
  <1>12. sweep_cnt' \in Sets
    <2>1. sweep_cnt \in 0 .. NUM_SETS - 1 /\ NUM_SETS \in Nat \ {0}
      BY DCacheAssumption, Zenon DEF DcTypes, Sets
    <2>2. (sweep_cnt + 1) % NUM_SETS \in 0 .. NUM_SETS - 1
      BY <2>1
    <2> QED BY <1>1, <2>1, <2>2, ZenonT(30) DEF DCacheTick, SweepNext, Sets
  <1>13. miss_idx' \in Sets /\ miss_tag' \in Tags
    BY <1>1, <1>3, Zenon DEF DCacheTick, DcTypes, Misses, DdrAddrs
  <1>14. wb_line' \in [Banks -> Word] /\ wb_tag' \in Tags
    BY <1>1, Zenon DEF DCacheTick, DcTypes, TagWords
  <1>15. q_a_idx' \in Sets
    BY <1>1, Zenon DEF DCacheTick
  <1> QED BY <1>6, <1>7, <1>8, <1>9, <1>10, <1>11, <1>12, <1>13, <1>14, <1>15, ZenonT(30) DEF DcTypes

\* The sweep after reset leaves no valid line behind, and the memory as it is.
LEMMA InitMoves ==
  ASSUME CacheInv, dState = "S_INIT", NEW a_idx \in Sets, NEW mem_ready \in {FALSE, mem_req_valid},
         DCacheTick(dcache_req, a_idx, mem_ready, lines[mem_req_addr]),
         lines' = IF mem_ready /\ mem_req_write
                  THEN [lines EXCEPT ![mem_req_addr] = wb_line] ELSE lines
  PROVE  /\ Swept' /\ Clean' /\ DcRead' /\ Missing'
         /\ \A a \in DdrAddrs : Memory(a)' = Memory(a)
         /\ ~wr_hit(dcache_req)
  <1>1. ~fill_en(mem_ready) /\ ~wr_hit(dcache_req) /\ ~mem_req_write
    BY Zenon DEF fill_en, wr_hit, bram_ready, mem_req_write
  <1>2. d' = d /\ lines' = lines /\ dirty' = dirty
    BY <1>1, Zenon DEF DCacheTick, DataNext, DirtyNext
  <1>3. tagv' = [tagv EXCEPT ![sweep_cnt] = Invalid]
    BY <1>1, Zenon DEF DCacheTick, TagvNext
  <1>4. /\ sweep_cnt \in 0 .. NUM_SETS - 1 /\ NUM_SETS \in Nat \ {0}
        /\ \A s \in Sets : s < sweep_cnt => ~tagv[s].v
        /\ Sets = 0 .. NUM_SETS - 1 /\ tagv \in [Sets -> TagWords]
    BY DCacheAssumption, ZenonT(30) DEF CacheInv, DcTypes, Swept, Sets
  <1>5. \A s \in Sets : s < sweep_cnt + 1 => ~tagv'[s].v
    BY <1>3, <1>4 DEF Invalid
  <1>6. CASE sweep_cnt = NUM_SETS - 1
    <2>1. dState' = "S_RECHECK"
      BY <1>6, ZenonT(30) DEF DCacheTick, StateNext
    <2>2. \A s \in Sets : ~tagv'[s].v
      BY <1>4, <1>5, <1>6
    <2>3. \A a \in DdrAddrs : Memory(a)' = Memory(a)
      BY <1>2, <2>2, Zenon DEF Memory, Held, DdrAddrs
    <2> QED BY <1>1, <2>1, <2>2, <2>3, Zenon DEF Swept, Clean, DcRead, Missing
  <1>7. CASE sweep_cnt # NUM_SETS - 1
    <2>1. dState' = "S_INIT"
      BY <1>7, ZenonT(30) DEF DCacheTick, StateNext
    <2>2. (sweep_cnt + 1) % NUM_SETS = sweep_cnt + 1
      BY <1>4, <1>7, SMTT(30)
    <2>3. sweep_cnt' = sweep_cnt + 1
      BY <2>2, Zenon DEF DCacheTick, SweepNext
    <2>4. \A a \in DdrAddrs : Memory(a)' = Memory(a)
      BY <1>2, <2>1, Zenon DEF Memory, Held
    <2>5. Swept'
      BY <1>5, <2>3, Zenon DEF Swept
    <2> QED BY <1>1, <2>1, <2>4, <2>5, Zenon DEF Clean, DcRead, Missing
  <1> QED BY <1>6, <1>7, Zenon

\* The cycle after a sweep or a fill reads the arrays anew.
LEMMA RecheckMoves ==
  ASSUME CacheInv, dState = "S_RECHECK", NEW a_idx \in Sets,
         NEW mem_ready \in {FALSE, mem_req_valid},
         DCacheTick(dcache_req, a_idx, mem_ready, lines[mem_req_addr]),
         lines' = IF mem_ready /\ mem_req_write
                  THEN [lines EXCEPT ![mem_req_addr] = wb_line] ELSE lines
  PROVE  /\ Swept' /\ Clean' /\ DcRead' /\ Missing'
         /\ \A a \in DdrAddrs : Memory(a)' = Memory(a)
         /\ ~wr_hit(dcache_req)
  <1>1. ~fill_en(mem_ready) /\ ~wr_hit(dcache_req) /\ ~mem_req_write
    BY Zenon DEF fill_en, wr_hit, bram_ready, mem_req_write
  <1>2. /\ d' = d /\ lines' = lines /\ dirty' = dirty /\ tagv' = tagv /\ dState' = "S_IDLE"
        /\ q_a_idx' = a_idx
    BY <1>1, Zenon DEF DCacheTick, DataNext, DirtyNext, TagvNext, StateNext
  <1>3. q_tagv' = tagv[a_idx] /\ ~byp_v'
    BY <1>1, Zenon DEF DCacheTick, TagvNext
  <1>4. q' = [b \in Banks |-> [l \in Lanes |-> d[a_idx][b][l]]]
    BY <1>1, Zenon DEF DCacheTick, ReadLine
  <1>5. \A b \in Banks : Bypassed(b)' = d'[q_a_idx'][b]
    <2> SUFFICES ASSUME NEW b \in Banks PROVE Bypassed(b)' = d[a_idx][b]
      BY <1>2, Zenon
    <2>1. Bypassed(b)' = [l \in Lanes |-> d[a_idx][b][l]]
      BY <1>3, <1>4, Zenon DEF Bypassed, byp_use
    <2>2. d[a_idx][b] \in Word
      BY Zenon DEF CacheInv, DcTypes
    <2> QED BY <2>1, <2>2, Zenon DEF Word
  <1>6. DcRead'
    BY <1>2, <1>3, <1>5, Zenon DEF DcRead
  <1>7. Clean' /\ Swept' /\ Missing'
    BY <1>2, ZenonT(30) DEF CacheInv, Clean, LineIn, Swept, Missing
  <1>8. \A a \in DdrAddrs : Memory(a)' = Memory(a)
    BY <1>2, Zenon DEF Memory, Held
  <1> QED BY <1>1, <1>6, <1>7, <1>8, Zenon

\* What a request that is answered by the edge makes of a word.
Stored(w) == [l \in Lanes |-> IF l \in dcache_req.wmask THEN dcache_req.wdata[l] ELSE w[l]]

\* A hit reads the word its address holds.
LEMMA HitReads ==
  ASSUME CoreTypes, CacheInv, bram_ready(dcache_req)
  PROVE  /\ op.addr \in DdrAddrs /\ Held(op.addr)
         /\ bram_rdata(dcache_req) = Memory(op.addr)
         /\ q_a_idx = op.addr.set
  <1>1. dState = "S_IDLE" /\ InDdr(dcache_req) /\ hit(dcache_req) /\ dcache_req.addr = op.addr
    BY ReqShape, Zenon DEF bram_ready
  <1>2. op.addr \in DdrAddrs
    BY <1>1, ReqShape, Zenon
  <1>3. q_a_idx = op.addr.set /\ q_tagv.v /\ q_tagv.tag = op.addr.tag
    BY <1>1, Zenon DEF hit, spec_ok
  <1>4. q_tagv = tagv[q_a_idx] /\ \A b \in Banks : Bypassed(b) = d[q_a_idx][b]
    BY <1>1, Zenon DEF CacheInv, DcRead
  <1>5. op.addr.bank \in Banks
    BY <1>2, Zenon DEF DdrAddrs
  <1>6. Held(op.addr)
    BY <1>1, <1>3, <1>4, Zenon DEF Held
  <1>7. bram_rdata(dcache_req) = Bypassed(op.addr.bank)
    BY <1>1, Zenon DEF bram_rdata, Bypassed
  <1> QED BY <1>2, <1>3, <1>4, <1>5, <1>6, <1>7, Zenon DEF Memory

\* A store that hits changes the word of its address and no other, and the bypass
\* makes up for the array output that the same edge leaves undefined.
LEMMA HitMoves ==
  ASSUME CoreTypes, CacheInv, wr_hit(dcache_req), NEW a_idx \in Sets,
         NEW mem_ready \in {FALSE, mem_req_valid},
         DCacheTick(dcache_req, a_idx, mem_ready, lines[mem_req_addr]),
         lines' = IF mem_ready /\ mem_req_write
                  THEN [lines EXCEPT ![mem_req_addr] = wb_line] ELSE lines
  PROVE  /\ Swept' /\ Clean' /\ DcRead' /\ Missing'
         /\ \A a \in DdrAddrs : Memory(a)' = IF a = op.addr THEN Stored(Memory(a)) ELSE Memory(a)
  <1> DEFINE s == op.addr.set
             b0 == op.addr.bank
             w == Stored(d[s][b0])
  <1>1. dState = "S_IDLE" /\ InDdr(dcache_req) /\ hit(dcache_req) /\ dcache_req.addr = op.addr
        /\ bram_ready(dcache_req)
    BY ReqShape, Zenon DEF wr_hit, bram_ready
  <1>2. ~fill_en(mem_ready) /\ ~mem_req_write
    BY <1>1, Zenon DEF fill_en, mem_req_write
  <1>3. op.addr \in DdrAddrs /\ Held(op.addr) /\ q_a_idx = op.addr.set
    BY <1>1, HitReads, Zenon
  <1>4. s \in Sets /\ b0 \in Banks /\ tagv[s].v /\ tagv[s].tag = op.addr.tag
    BY <1>3, Zenon DEF DdrAddrs, Held
  <1>5. /\ lines' = lines /\ tagv' = tagv /\ dState' = "S_IDLE" /\ q_a_idx' = a_idx
        /\ q_tagv' = tagv[a_idx]
        /\ dirty' = [dirty EXCEPT ![s] = TRUE]
    BY <1>1, <1>2, Zenon DEF DCacheTick, DirtyNext, TagvNext, StateNext
  <1>6. d' = [d EXCEPT ![s][b0] = w]
    BY <1>1, <1>2, Zenon DEF DCacheTick, DataNext, Stored
  <1>7. /\ byp_v' = (s = a_idx) /\ byp_word' = b0 /\ byp_be' = dcache_req.wmask
        /\ byp_data' = dcache_req.wdata
    BY <1>1, <1>2, Zenon DEF DCacheTick
  <1>8. q' = [b \in Banks |-> [l \in Lanes |->
                IF a_idx = s /\ b = b0 /\ l \in dcache_req.wmask THEN Junk ELSE d[a_idx][b][l]]]
    BY <1>1, <1>2, Zenon DEF DCacheTick, ReadLine
  <1>9. d \in [Sets -> [Banks -> Word]] /\ dirty \in [Sets -> BOOLEAN]
    BY Zenon DEF CacheInv, DcTypes
  <1>10. d'[s][b0] = w /\ \A t \in Sets, b \in Banks : (t # s \/ b # b0) => d'[t][b] = d[t][b]
    <2> HIDE DEF w
    <2> QED BY <1>4, <1>6, <1>9, Zenon
  <1>11. \A t \in Sets : t # s => d'[t] = d[t]
    <2> HIDE DEF w
    <2> QED BY <1>4, <1>6, <1>9, Zenon
  <1>12. Clean'
    <2> SUFFICES ASSUME NEW t \in Sets, tagv[t].v, ~dirty'[t]
                 PROVE  d'[t] = lines[LineIn(t)]
      BY <1>5, Zenon DEF Clean, LineIn
    <2>1. t # s /\ ~dirty[t]
      BY <1>4, <1>5, <1>9, Zenon
    <2>2. d[t] = lines[LineIn(t)]
      BY <1>1, <2>1, Zenon DEF CacheInv, Clean
    <2> QED BY <1>11, <2>1, <2>2, Zenon
  <1>13. \A b \in Banks : Bypassed(b)' = d'[a_idx][b]
    <2> SUFFICES ASSUME NEW b \in Banks PROVE Bypassed(b)' = d'[a_idx][b]
      BY Zenon
    <2>0. Bypassed(b)' = [l \in Lanes |-> IF (s = a_idx /\ b0 = b) /\ l \in dcache_req.wmask
                                          THEN dcache_req.wdata[l] ELSE q'[b][l]]
      BY <1>7, Zenon DEF Bypassed, byp_use
    <2>1. CASE a_idx = s /\ b = b0
      <3>1. Bypassed(b)' = [l \in Lanes |-> IF l \in dcache_req.wmask
                                            THEN dcache_req.wdata[l] ELSE d[s][b0][l]]
        BY <1>8, <2>0, <2>1, Zenon
      <3>2. Bypassed(b)' = w
        BY <3>1, Zenon DEF Stored
      <3> QED BY <1>10, <2>1, <3>2, Zenon
    <2>2. CASE a_idx # s \/ b # b0
      <3>1. Bypassed(b)' = [l \in Lanes |-> d[a_idx][b][l]]
        BY <1>8, <2>0, <2>2, Zenon
      <3>2. d[a_idx][b] \in Word
        BY <1>9, Zenon
      <3>3. d'[a_idx][b] = d[a_idx][b]
        BY <1>10, <2>2, Zenon
      <3> QED BY <3>1, <3>2, <3>3, Zenon DEF Word
    <2> QED BY <2>1, <2>2, Zenon
  <1>14. DcRead' /\ Swept' /\ Missing'
    BY <1>5, <1>13, Zenon DEF DcRead, Swept, Missing
  <1>15. ASSUME NEW a \in DdrAddrs
         PROVE  Memory(a)' = IF a = op.addr THEN Stored(Memory(a)) ELSE Memory(a)
    <2>0. a.set \in Sets /\ a.bank \in Banks
      BY Zenon DEF DdrAddrs
    <2>1. CASE a = op.addr
      <3>1. Memory(a) = d[s][b0] /\ Memory(a)' = d'[s][b0]
        BY <1>1, <1>3, <1>4, <1>5, <2>1, ZenonT(30) DEF Memory, Held
      <3> QED BY <1>10, <2>1, <3>1, ZenonT(30)
    <2>2. CASE a # op.addr
      <3>1. Held(a) => a.set # s \/ a.bank # b0
        BY <1>3, <1>4, <2>2 DEF Held, DdrAddrs
      <3>2. Held(a)' <=> Held(a)
        BY <1>1, <1>5, Zenon DEF Held
      <3> QED BY <1>5, <1>10, <2>0, <2>2, <3>1, <3>2, ZenonT(30) DEF Memory
    <2> QED BY <2>1, <2>2, Zenon
  <1> QED BY <1>12, <1>14, <1>15, Zenon

\* Without a store that hits, an idle cache only reads, or starts a miss.
LEMMA IdleMoves ==
  ASSUME CoreTypes, CacheInv, dState = "S_IDLE", ~wr_hit(dcache_req), NEW a_idx \in Sets,
         NEW mem_ready \in {FALSE, mem_req_valid},
         DCacheTick(dcache_req, a_idx, mem_ready, lines[mem_req_addr]),
         lines' = IF mem_ready /\ mem_req_write
                  THEN [lines EXCEPT ![mem_req_addr] = wb_line] ELSE lines,
         InDdr(dcache_req) /\ ~bram_ready(dcache_req) =>
           op' = op /\ dcache_req' = dcache_req /\ a_idx = op.addr.set
  PROVE  /\ Swept' /\ Clean' /\ DcRead' /\ Missing'
         /\ \A a \in DdrAddrs : Memory(a)' = Memory(a)
  <1>1. ~fill_en(mem_ready) /\ ~mem_req_write /\ dcache_req.addr = op.addr
    BY ReqShape, Zenon DEF fill_en, mem_req_write
  <1>2. /\ d' = d /\ lines' = lines /\ dirty' = dirty /\ tagv' = tagv
        /\ q_a_idx' = a_idx /\ dState' \in {"S_IDLE", "S_RECHECK", "S_CAP"}
    BY <1>1, Zenon DEF DCacheTick, DataNext, DirtyNext, TagvNext, StateNext
  <1>3. q_tagv' = tagv[a_idx] /\ ~byp_v'
    BY <1>1, Zenon DEF DCacheTick, TagvNext
  <1>4. q' = [b \in Banks |-> [l \in Lanes |-> d[a_idx][b][l]]]
    BY <1>1, Zenon DEF DCacheTick, ReadLine
  <1>5. ASSUME NEW b \in Banks
        PROVE  Bypassed(b)' = d[a_idx][b] /\ q'[b] = d[a_idx][b]
    <2>1. Bypassed(b)' = [l \in Lanes |-> d[a_idx][b][l]] /\ q'[b] = [l \in Lanes |-> d[a_idx][b][l]]
      BY <1>3, <1>4, Zenon DEF Bypassed, byp_use
    <2>2. d[a_idx][b] \in Word
      BY Zenon DEF CacheInv, DcTypes
    <2> QED BY <2>1, <2>2, Zenon DEF Word
  <1>6. q' = d[a_idx]
    <2>1. d[a_idx] \in [Banks -> Word]
      BY Zenon DEF CacheInv, DcTypes
    <2>2. q' = [b \in Banks |-> d[a_idx][b]]
      BY <1>4, <1>5, Zenon
    <2> QED BY <2>1, <2>2, Zenon
  <1>7. DcRead'
    BY <1>2, <1>3, <1>5, Zenon DEF DcRead
  <1>8. Clean' /\ Swept'
    BY <1>2, Zenon DEF CacheInv, Clean, LineIn, Swept
  <1>9. ASSUME dState' = "S_CAP" PROVE Missing'
    <2>1. InDdr(dcache_req) /\ ~hit(dcache_req) /\ spec_ok(dcache_req)
      BY <1>9, ZenonT(30) DEF DCacheTick, StateNext
    <2>2. miss_idx' = op.addr.set /\ miss_tag' = op.addr.tag
      BY <1>1, <2>1, ZenonT(30) DEF DCacheTick, Misses
    <2>3. op' = op /\ dcache_req' = dcache_req /\ a_idx = op.addr.set
      BY <2>1, Zenon DEF bram_ready
    <2>4. InDdr(dcache_req)'
      BY <2>1, <2>3, Zenon DEF InDdr
    <2>5. tagv[op.addr.set].v => tagv[op.addr.set].tag # op.addr.tag
      BY <1>1, <2>1, Zenon DEF CacheInv, DcRead, hit, spec_ok
    <2> QED BY <1>2, <1>3, <1>6, <1>9, <2>2, <2>3, <2>4, <2>5, ZenonT(30) DEF Missing
  <1>10. dState' # "S_CAP" => Missing'
    BY <1>2, Zenon DEF Missing
  <1>11. \A a \in DdrAddrs : Memory(a)' = Memory(a)
    BY <1>2, Zenon DEF Memory, Held
  <1> QED BY <1>7, <1>8, <1>9, <1>10, <1>11, ZenonT(30)

\* A miss first looks at the line in its place, and saves it if it is dirty.
LEMMA CapMoves ==
  ASSUME CoreTypes, CacheInv, dState = "S_CAP", NEW a_idx \in Sets,
         NEW mem_ready \in {FALSE, mem_req_valid},
         DCacheTick(dcache_req, a_idx, mem_ready, lines[mem_req_addr]),
         lines' = IF mem_ready /\ mem_req_write
                  THEN [lines EXCEPT ![mem_req_addr] = wb_line] ELSE lines,
         op' = op, dcache_req' = dcache_req
  PROVE  /\ Swept' /\ Clean' /\ DcRead' /\ Missing'
         /\ \A a \in DdrAddrs : Memory(a)' = Memory(a)
         /\ ~wr_hit(dcache_req)
  <1>1. ~fill_en(mem_ready) /\ ~mem_req_write /\ dcache_req.addr = op.addr
        /\ ~wr_hit(dcache_req) /\ ~Misses(dcache_req)
    BY ReqShape, ZenonT(30) DEF fill_en, mem_req_write, wr_hit, bram_ready, Misses
  <1>2. /\ d' = d /\ lines' = lines /\ dirty' = dirty /\ tagv' = tagv
        /\ miss_idx' = miss_idx /\ miss_tag' = miss_tag /\ wb_line' = q /\ wb_tag' = q_tagv.tag
        /\ dState' = IF wb_needed(dcache_req) THEN "S_WB" ELSE "S_FILL"
    BY <1>1, ZenonT(30) DEF DCacheTick, DataNext, DirtyNext, TagvNext, StateNext
  <1>3. /\ InDdr(dcache_req) /\ miss_idx = op.addr.set /\ miss_tag = op.addr.tag
        /\ tagv[miss_idx].v => tagv[miss_idx].tag # miss_tag
        /\ q = d[miss_idx] /\ q_tagv = tagv[miss_idx] /\ miss_idx \in Sets
    BY Zenon DEF CacheInv, Missing, DcTypes
  <1>4. InDdr(dcache_req)'
    BY <1>3, ZenonT(30) DEF InDdr
  <1>5. wb_needed(dcache_req) <=> tagv[miss_idx].v /\ dirty[miss_idx]
    BY <1>1, <1>3, ZenonT(30) DEF wb_needed
  <1>6. ~wb_needed(dcache_req) /\ tagv[miss_idx].v => d[miss_idx] = lines[LineIn(miss_idx)]
    BY <1>3, <1>5, Zenon DEF CacheInv, Clean
  <1>7. Missing'
    BY <1>2, <1>3, <1>4, <1>5, <1>6, ZenonT(30) DEF Missing, LineIn
  <1>8. Clean' /\ Swept' /\ DcRead'
    BY <1>2, Zenon DEF CacheInv, Clean, LineIn, Swept, DcRead
  <1>9. \A a \in DdrAddrs : Memory(a)' = Memory(a)
    BY <1>2, ZenonT(30) DEF Memory, Held
  <1> QED BY <1>1, <1>7, <1>8, <1>9, ZenonT(30)

\* Writing the old line back changes what no address holds.
LEMMA WbMoves ==
  ASSUME CoreTypes, CacheInv, dState = "S_WB", NEW a_idx \in Sets,
         NEW mem_ready \in {FALSE, mem_req_valid},
         DCacheTick(dcache_req, a_idx, mem_ready, lines[mem_req_addr]),
         lines' = IF mem_ready /\ mem_req_write
                  THEN [lines EXCEPT ![mem_req_addr] = wb_line] ELSE lines,
         op' = op, dcache_req' = dcache_req
  PROVE  /\ Swept' /\ Clean' /\ DcRead' /\ Missing'
         /\ \A a \in DdrAddrs : Memory(a)' = Memory(a)
         /\ ~wr_hit(dcache_req)
  <1>1. ~fill_en(mem_ready) /\ mem_req_write /\ dcache_req.addr = op.addr
        /\ ~wr_hit(dcache_req) /\ ~Misses(dcache_req)
    BY ReqShape, ZenonT(30) DEF fill_en, mem_req_write, wr_hit, bram_ready, Misses
  <1>2. /\ d' = d /\ dirty' = dirty /\ tagv' = tagv
        /\ miss_idx' = miss_idx /\ miss_tag' = miss_tag /\ wb_line' = wb_line /\ wb_tag' = wb_tag
        /\ dState' = IF mem_ready THEN "S_FILL" ELSE "S_WB"
    BY <1>1, ZenonT(30) DEF DCacheTick, DataNext, DirtyNext, TagvNext, StateNext
  <1>3. /\ InDdr(dcache_req) /\ miss_idx = op.addr.set /\ miss_tag = op.addr.tag
        /\ tagv[miss_idx].tag # miss_tag
        /\ tagv[miss_idx].v /\ wb_tag = tagv[miss_idx].tag /\ wb_line = d[miss_idx]
        /\ miss_idx \in Sets
    BY ZenonT(30) DEF CacheInv, Missing, DcTypes
  <1>4. InDdr(dcache_req)'
    BY <1>3, Zenon DEF InDdr
  <1>5. mem_req_addr = LineIn(miss_idx) /\ LineIn(miss_idx) \in LineAddrs
    BY <1>3, ZenonT(30) DEF mem_req_addr, LineIn, CacheInv, DcTypes, LineAddrs, TagWords
  <1>6. lines' = IF mem_ready THEN [lines EXCEPT ![LineIn(miss_idx)] = d[miss_idx]] ELSE lines
    BY <1>1, <1>3, <1>5, ZenonT(30)
  <1>7. /\ mem_ready => lines'[LineIn(miss_idx)] = d[miss_idx]
        /\ \A l \in LineAddrs : l # LineIn(miss_idx) => lines'[l] = lines[l]
    BY <1>5, <1>6, ZenonT(30) DEF CacheInv, DcTypes
  <1>8. Missing'
    BY <1>2, <1>3, <1>4, <1>7, ZenonT(30) DEF Missing, LineIn
  <1>9. Clean'
    <2> SUFFICES ASSUME NEW s \in Sets, tagv[s].v, ~dirty[s]
                 PROVE  d[s] = lines'[LineIn(s)]
      BY <1>2, Zenon DEF Clean, LineIn
    <2>1. d[s] = lines[LineIn(s)]
      BY Zenon DEF CacheInv, Clean
    <2>2. LineIn(s) \in LineAddrs
      BY Zenon DEF LineIn, CacheInv, DcTypes, LineAddrs, TagWords
    <2>3. LineIn(s) = LineIn(miss_idx) => s = miss_idx
      BY Zenon DEF LineIn
    <2> QED BY <1>6, <1>7, <2>1, <2>2, <2>3, ZenonT(30)
  <1>10. Swept' /\ DcRead'
    BY <1>2, ZenonT(30) DEF Swept, DcRead
  <1>11. ASSUME NEW a \in DdrAddrs PROVE Memory(a)' = Memory(a)
    <2> DEFINE l == [tag |-> a.tag, set |-> a.set]
    <2>1. Held(a)' <=> Held(a)
      BY <1>2, Zenon DEF Held
    <2>2. l \in LineAddrs /\ a.set \in Sets
      BY Zenon DEF DdrAddrs, LineAddrs
    <2>3. l = LineIn(miss_idx) => Held(a)
      BY <1>3, Zenon DEF LineIn, Held
    <2> QED BY <1>2, <1>7, <2>1, <2>2, <2>3, SMTT(30) DEF Memory
  <1> QED BY <1>1, <1>8, <1>9, <1>10, <1>11, ZenonT(30)

\* A fill replaces a line that the memory has, by the line of the miss.
LEMMA FillMoves ==
  ASSUME CoreTypes, CacheInv, dState = "S_FILL", NEW a_idx \in Sets,
         NEW mem_ready \in {FALSE, mem_req_valid},
         DCacheTick(dcache_req, a_idx, mem_ready, lines[mem_req_addr]),
         lines' = IF mem_ready /\ mem_req_write
                  THEN [lines EXCEPT ![mem_req_addr] = wb_line] ELSE lines,
         op' = op, dcache_req' = dcache_req
  PROVE  /\ Swept' /\ Clean' /\ DcRead' /\ Missing'
         /\ \A a \in DdrAddrs : Memory(a)' = Memory(a)
         /\ ~wr_hit(dcache_req)
  <1> DEFINE l0 == [tag |-> miss_tag, set |-> miss_idx]
  <1>1. /\ (fill_en(mem_ready) <=> mem_ready) /\ ~mem_req_write /\ dcache_req.addr = op.addr
        /\ ~wr_hit(dcache_req) /\ ~Misses(dcache_req)
    BY ReqShape, Zenon DEF fill_en, mem_req_write, wr_hit, bram_ready, Misses
  <1>2. /\ lines' = lines
        /\ miss_idx' = miss_idx /\ miss_tag' = miss_tag
        /\ dState' = IF mem_ready THEN "S_RECHECK" ELSE "S_FILL"
    BY <1>1, Zenon DEF DCacheTick, StateNext
  <1>3. /\ InDdr(dcache_req) /\ miss_idx = op.addr.set /\ miss_tag = op.addr.tag
        /\ tagv[miss_idx].v => /\ tagv[miss_idx].tag # miss_tag
                               /\ d[miss_idx] = lines[LineIn(miss_idx)]
        /\ miss_idx \in Sets
    BY Zenon DEF CacheInv, Missing, DcTypes
  <1>4. InDdr(dcache_req)'
    BY <1>3, Zenon DEF InDdr
  <1>5. Swept' /\ DcRead'
    BY <1>2, Zenon DEF Swept, DcRead
  <1>6. CASE ~mem_ready
    <2>1. d' = d /\ tagv' = tagv /\ dirty' = dirty
      BY <1>1, <1>6, Zenon DEF DCacheTick, DataNext, TagvNext, DirtyNext
    <2>2. Missing' /\ Clean'
      BY <1>2, <1>3, <1>4, <1>6, <2>1, ZenonT(30) DEF Missing, LineIn, Clean, CacheInv
    <2>3. \A a \in DdrAddrs : Memory(a)' = Memory(a)
      BY <1>2, <1>6, <2>1, ZenonT(30) DEF Memory, Held
    <2> QED BY <1>1, <1>5, <2>2, <2>3, Zenon
  <1>7. CASE mem_ready
    <2>1. mem_req_addr = l0
      BY Zenon DEF mem_req_addr
    <2>2. /\ d' = [d EXCEPT ![miss_idx] = lines[l0]]
          /\ tagv' = [tagv EXCEPT ![miss_idx] = [v |-> TRUE, tag |-> miss_tag]]
          /\ dirty' = [dirty EXCEPT ![miss_idx] = FALSE]
      BY <1>1, <1>7, <2>1, ZenonT(30) DEF DCacheTick, DataNext, TagvNext, DirtyNext
    <2>3. d \in [Sets -> [Banks -> Word]] /\ tagv \in [Sets -> TagWords] /\ dirty \in [Sets -> BOOLEAN]
      BY Zenon DEF CacheInv, DcTypes
    <2>4. /\ d'[miss_idx] = lines[l0]
          /\ tagv'[miss_idx].v /\ tagv'[miss_idx].tag = miss_tag
          /\ \A s \in Sets : s # miss_idx => /\ d'[s] = d[s] /\ tagv'[s] = tagv[s]
                                             /\ dirty'[s] = dirty[s]
      BY <1>3, <2>2, <2>3, ZenonT(30)
    <2>5. Clean'
      <3> SUFFICES ASSUME NEW s \in Sets, tagv'[s].v, ~dirty'[s]
                   PROVE  d'[s] = lines[[tag |-> tagv'[s].tag, set |-> s]]
        BY <1>2, Zenon DEF Clean, LineIn
      <3>1. CASE s = miss_idx
        BY <2>4, <3>1, ZenonT(30)
      <3>2. CASE s # miss_idx
        BY <2>4, <3>2, ZenonT(30) DEF CacheInv, Clean, LineIn
      <3> QED BY <3>1, <3>2, Zenon
    <2>6. Missing'
      BY <1>2, <1>7, Zenon DEF Missing
    <2>7. ASSUME NEW a \in DdrAddrs PROVE Memory(a)' = Memory(a)
      <3>0. a.set \in Sets /\ dState' # "S_INIT"
        BY <1>2, Zenon DEF DdrAddrs
      <3>1. CASE a.set # miss_idx
        BY <1>2, <2>4, <3>0, <3>1, Zenon DEF Memory, Held
      <3>2. CASE a.set = miss_idx /\ a.tag = miss_tag
        <4>1. ~Held(a) /\ Held(a)'
          BY <1>3, <2>4, <3>0, <3>2, ZenonT(30) DEF Held
        <4> QED BY <2>4, <3>2, <4>1, ZenonT(30) DEF Memory
      <3>3. CASE a.set = miss_idx /\ a.tag # miss_tag
        <4>1. ~Held(a)'
          BY <2>4, <3>3, Zenon DEF Held
        <4>2. Held(a) => d[a.set] = lines[[tag |-> a.tag, set |-> a.set]]
          BY <1>3, <3>3, ZenonT(30) DEF Held, LineIn
        <4> QED BY <1>2, <4>1, <4>2, ZenonT(30) DEF Memory
      <3> QED BY <3>1, <3>2, <3>3, Zenon
    <2> QED BY <1>1, <1>5, <2>5, <2>6, <2>7, ZenonT(30)
  <1> QED BY <1>6, <1>7, Zenon

\* The cache is transparent: an edge changes the word of the store it answers,
\* whatever it moves between its arrays and the memory (dcache_bram.v).
LEMMA CacheStep ==
  ASSUME CoreTypes, AmoInv, HandshakeInv, CacheInv, amo_old_value \in Word, Next
  PROVE  /\ CacheInv'
         /\ \A a \in DdrAddrs :
              Memory(a)' = IF wr_hit(dcache_req) /\ a = op.addr THEN Stored(Memory(a)) ELSE Memory(a)
  <1>1. PICK a_idx \in Sets, mem_ready \in {FALSE, mem_req_valid} :
           /\ DCacheTick(dcache_req, a_idx, mem_ready, lines[mem_req_addr])
           /\ lines' = IF mem_ready /\ mem_req_write
                       THEN [lines EXCEPT ![mem_req_addr] = wb_line] ELSE lines
           /\ global_mem_stall /\ op.kind # "none" => a_idx = op.addr.set
    BY CacheEdge, Zenon
  <1>2. DcTypes'
    BY DcTypesStep, Zenon DEF CacheInv
  <1>3. ASSUME InDdr(dcache_req), ~bram_ready(dcache_req)
        PROVE  op' = op /\ dcache_req' = dcache_req /\ a_idx = op.addr.set
    <2>1. dcache_req.valid /\ op.addr.region = "ddr" /\ op.kind # "none" /\ dcache_req.addr = op.addr
      BY <1>3, ReqShape, Zenon
    <2>2. ~dcache_ready(dcache_req)
      BY <1>3, <2>1, Zenon DEF dcache_ready
    <2> QED BY <1>1, <2>1, <2>2, ReqHolds, ZenonT(30)
  <1>4. dState \in {"S_CAP", "S_WB", "S_FILL"} => op' = op /\ dcache_req' = dcache_req
    BY <1>3, ZenonT(30) DEF CacheInv, Missing, bram_ready
  <1>5. CASE wr_hit(dcache_req)
    BY <1>1, <1>2, <1>5, HitMoves, ZenonT(30) DEF CacheInv
  <1>6. CASE ~wr_hit(dcache_req)
    <2>1. CASE dState = "S_INIT"
      BY <1>1, <1>2, <1>6, <2>1, InitMoves, ZenonT(30) DEF CacheInv
    <2>2. CASE dState = "S_RECHECK"
      BY <1>1, <1>2, <1>6, <2>2, RecheckMoves, ZenonT(30) DEF CacheInv
    <2>3. CASE dState = "S_IDLE"
      BY <1>1, <1>2, <1>3, <1>6, <2>3, IdleMoves, ZenonT(30) DEF CacheInv
    <2>4. CASE dState = "S_CAP"
      BY <1>1, <1>2, <1>4, <1>6, <2>4, CapMoves, ZenonT(30) DEF CacheInv
    <2>5. CASE dState = "S_WB"
      BY <1>1, <1>2, <1>4, <1>6, <2>5, WbMoves, ZenonT(30) DEF CacheInv
    <2>6. CASE dState = "S_FILL"
      BY <1>1, <1>2, <1>4, <1>6, <2>6, FillMoves, ZenonT(30) DEF CacheInv
    <2>7. dState \in DStates
      BY Zenon DEF CacheInv, DcTypes
    <2> QED BY <2>1, <2>2, <2>3, <2>4, <2>5, <2>6, <2>7, ZenonT(30) DEF DStates
  <1> QED BY <1>5, <1>6, ZenonT(30)

=============================================================================
