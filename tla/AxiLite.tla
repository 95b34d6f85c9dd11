------------------------------ MODULE AxiLite -------------------------------
(***************************************************************************)
(* The way of a load or store to a register of the accelerator:            *)
(* axi_lite_bridge.v turns the request pulse of cpu.v into an AXI4-Lite    *)
(* transaction, and the register port of MmAccel.scala answers it.  A step *)
(* is one clock edge.                                                      *)
(*                                                                         *)
(* Of the registers, DEST_ADDR stands for those that keep what is written, *)
(* and RESULT_IDX and RESULT for those whose access has an effect: reading *)
(* RESULT moves the index on.  The accelerator is idle, so no write is     *)
(* ignored.                                                                *)
(***************************************************************************)
EXTENDS Integers

CONSTANT Results   \* accumulators: index -> value

VARIABLES
  bState, d_req_prev, d_ready, d_rdata,
  axi_awvalid, axi_wvalid, axi_aw, axi_w, aw_done, w_done, axi_bready,
  axi_arvalid, axi_ar, axi_rready,
  wState, awready, bvalid,           \* awreadyReg and wreadyReg are one register twice
  rState, arready, rvalid, raddr,
  destAddr, resultIdx

bridgeVars == <<bState, d_req_prev, d_ready, d_rdata, axi_awvalid, axi_wvalid, axi_aw, axi_w,
                aw_done, w_done, axi_bready, axi_arvalid, axi_ar, axi_rready>>
slaveVars == <<wState, awready, bvalid, rState, arready, rvalid, raddr, destAddr, resultIdx>>

Registers == {"DEST_ADDR", "RESULT_IDX", "RESULT"}

BridgeInit ==
  /\ bState = "IDLE" /\ d_req_prev = FALSE /\ d_ready = FALSE /\ d_rdata = 0
  /\ axi_awvalid = FALSE /\ axi_wvalid = FALSE /\ axi_aw = "DEST_ADDR" /\ axi_w = 0
  /\ aw_done = FALSE /\ w_done = FALSE /\ axi_bready = FALSE
  /\ axi_arvalid = FALSE /\ axi_ar = "DEST_ADDR" /\ axi_rready = FALSE

SlaveInit ==
  /\ wState = "wIdle" /\ awready = FALSE /\ bvalid = FALSE
  /\ rState = "rIdle" /\ arready = FALSE /\ rvalid = FALSE /\ raddr = "DEST_ADDR"
  /\ destAddr = 0 /\ resultIdx = 0

-----------------------------------------------------------------------------
(* The register port of the accelerator. *)

\* A port that takes the write again while its ready has not been seen.
doWrite_again == axi_awvalid /\ axi_wvalid

doWrite == axi_awvalid /\ axi_wvalid /\ wState = "wIdle"

\* Both ready signals rise the cycle after the register was written.
WriteChannel ==
  /\ awready' = doWrite
  /\ bvalid' = IF wState = "wIdle" THEN bvalid \/ doWrite ELSE bvalid /\ ~axi_bready
  /\ wState' = IF wState = "wIdle" THEN IF doWrite THEN "wResp" ELSE "wIdle"
               ELSE IF axi_bready THEN "wIdle" ELSE "wResp"

readDone == rState = "rResp" /\ axi_rready

ReadChannel ==
  /\ arready' = (rState = "rIdle" /\ axi_arvalid)
  /\ rvalid' = IF rState = "rIdle" THEN rvalid \/ axi_arvalid ELSE rvalid /\ ~axi_rready
  /\ raddr' = IF rState = "rIdle" /\ axi_arvalid THEN axi_ar ELSE raddr
  /\ rState' = IF rState = "rIdle" THEN IF axi_arvalid THEN "rResp" ELSE "rIdle"
               ELSE IF axi_rready THEN "rIdle" ELSE "rResp"

rdata == CASE raddr = "DEST_ADDR" -> destAddr
           [] raddr = "RESULT_IDX" -> resultIdx
           [] raddr = "RESULT" -> Results[resultIdx]

NextIdx(i) == IF i + 1 \in DOMAIN Results THEN i + 1 ELSE 0

\* A write to RESULT_IDX overrides the step that a read of RESULT makes.
RegisterWrites ==
  /\ destAddr' = IF doWrite /\ axi_aw = "DEST_ADDR" THEN axi_w ELSE destAddr
  /\ resultIdx' = IF doWrite /\ axi_aw = "RESULT_IDX" THEN axi_w
                  ELSE IF readDone /\ raddr = "RESULT" THEN NextIdx(resultIdx)
                  ELSE resultIdx

SlaveTick == WriteChannel /\ ReadChannel /\ RegisterWrites

-----------------------------------------------------------------------------
(* The bridge, given the request of the core. *)

awGo == axi_awvalid /\ awready
wGo == axi_wvalid /\ awready

BridgeIdle(req) ==
  LET edge == req.valid /\ ~d_req_prev
      write == edge /\ req.write
      read == edge /\ ~req.write
  IN /\ bState = "IDLE"
     /\ bState' = IF write THEN "WRITE_ADDR_DATA" ELSE IF read THEN "READ_ADDR" ELSE "IDLE"
     /\ axi_aw' = IF write THEN req.addr ELSE axi_aw
     /\ axi_w' = IF write THEN req.wdata ELSE axi_w
     /\ axi_awvalid' = (write \/ axi_awvalid) /\ axi_wvalid' = (write \/ axi_wvalid)
     /\ aw_done' = (aw_done /\ ~write) /\ w_done' = (w_done /\ ~write)
     /\ axi_ar' = IF read THEN req.addr ELSE axi_ar
     /\ axi_arvalid' = (read \/ axi_arvalid)
     /\ d_ready' = FALSE
     /\ UNCHANGED <<axi_bready, axi_rready, d_rdata>>

BridgeWrite ==
  LET both == (aw_done \/ awGo) /\ (w_done \/ wGo) IN
  /\ bState = "WRITE_ADDR_DATA"
  /\ axi_awvalid' = (axi_awvalid /\ ~awGo) /\ aw_done' = (aw_done \/ awGo)
  /\ axi_wvalid' = (axi_wvalid /\ ~wGo) /\ w_done' = (w_done \/ wGo)
  /\ axi_bready' = (both \/ axi_bready)
  /\ bState' = IF both THEN "WRITE_RESP" ELSE bState
  /\ d_ready' = FALSE
  /\ UNCHANGED <<axi_aw, axi_w, axi_ar, axi_arvalid, axi_rready, d_rdata>>

BridgeResp ==
  LET go == bvalid /\ axi_bready IN
  /\ bState = "WRITE_RESP"
  /\ axi_bready' = (axi_bready /\ ~go) /\ d_ready' = go
  /\ bState' = IF go THEN "IDLE" ELSE bState
  /\ UNCHANGED <<axi_aw, axi_w, axi_awvalid, axi_wvalid, aw_done, w_done, axi_ar, axi_arvalid,
                 axi_rready, d_rdata>>

BridgeReadAddr ==
  LET go == axi_arvalid /\ arready IN
  /\ bState = "READ_ADDR"
  /\ axi_arvalid' = (axi_arvalid /\ ~go) /\ axi_rready' = (go \/ axi_rready)
  /\ bState' = IF go THEN "READ_DATA" ELSE bState
  /\ d_ready' = FALSE
  /\ UNCHANGED <<axi_aw, axi_w, axi_awvalid, axi_wvalid, aw_done, w_done, axi_ar, axi_bready, d_rdata>>

BridgeReadData ==
  LET go == rvalid /\ axi_rready IN
  /\ bState = "READ_DATA"
  /\ axi_rready' = (axi_rready /\ ~go) /\ d_ready' = go
  /\ d_rdata' = IF go THEN rdata ELSE d_rdata
  /\ bState' = IF go THEN "IDLE" ELSE bState
  /\ UNCHANGED <<axi_aw, axi_w, axi_awvalid, axi_wvalid, aw_done, w_done, axi_ar, axi_arvalid, axi_bready>>

BridgeTick(req) ==
  /\ BridgeIdle(req) \/ BridgeWrite \/ BridgeResp \/ BridgeReadAddr \/ BridgeReadData
  /\ d_req_prev' = req.valid
=============================================================================
