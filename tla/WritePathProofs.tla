-------------------------- MODULE WritePathProofs ---------------------------
(***************************************************************************)
(* Proofs about the write path, for every number of beats per line, every  *)
(* timeout limit, every tile shape and stride and every set of addresses:  *)
(* first the transactions (engine, arbiter, write-back, slave), then the   *)
(* result store of the accelerator with its FIFO and its bursts.           *)
(***************************************************************************)
EXTENDS WritePath, TLAPS

(***************************************************************************)
(* The transaction invariant: the engine, the arbiter, the data cache and  *)
(* the slave agree about the request being served.  It needs nothing of    *)
(* the slave's manners.                                                    *)
(***************************************************************************)
WrTypes ==
  /\ wr_state \in WrStates /\ wr_beat \in Beats /\ wr_sent \in Nat
  /\ wr_addr_s \in Nat /\ wr_lines_s \in Nat \ {0} /\ wr_tmo \in Nat
  /\ wr_retrying \in BOOLEAN /\ wr_fifo_ahead \in BOOLEAN
  /\ wr_resume_hold \in BOOLEAN /\ wr_served \in BOOLEAN /\ wr_next \in BOOLEAN

PathTypes ==
  /\ w_state \in WArbStates /\ w_addr \in Nat /\ w_lines \in Nat \ {0}
  /\ d_wb \in BOOLEAN /\ d_addr \in Nat
  /\ s_line \in Nat /\ s_beat \in Beats /\ s_left \in Nat

DmaTypes ==
  /\ dmaBusy \in BOOLEAN /\ dmaDone \in BOOLEAN /\ destContig \in BOOLEAN
  /\ destAddr \in Nat /\ dmaAddr \in Nat /\ dmaRowBase \in Nat /\ dmaSent \in Nat
  /\ fillGrp \in 0 .. NGroups - 1 /\ fillLeft \in Nat

\* The engine is working on the request the arbiter has latched.
SameRequest ==
  /\ w_state # "W_IDLE" /\ ~wr_retrying /\ ~wr_served
  /\ wr_addr_s = w_addr /\ wr_lines_s = w_lines

EngineIdle ==
  wr_state = "WR_IDLE" =>
    /\ w_state = "W_IDLE" => ~wr_retrying
    /\ w_state # "W_IDLE" => ~wr_served
    /\ wr_retrying => wr_sent < w_lines

EngineAddr ==
  wr_state = "WR_ADDR" => SameRequest /\ wr_sent < wr_lines_s /\ wr_beat = 0

\* The slave's burst and the engine's counters agree.
EngineData ==
  wr_state = "WR_DATA" =>
    /\ SameRequest /\ wr_sent < wr_lines_s
    /\ s_beat = wr_beat
    /\ s_line = wr_addr_s + wr_sent
    /\ s_left = wr_lines_s - wr_sent

EngineEnd ==
  wr_state \in {"WR_RESP", "WR_DONE"} => SameRequest /\ wr_sent = wr_lines_s

EngineInv == EngineIdle /\ EngineAddr /\ EngineData /\ EngineEnd

\* The engine has taken up the arbiter's request, and may be between two bursts.
Started == wr_state # "WR_IDLE" \/ wr_retrying

\* A write-back holds still until it is acknowledged, and the engine sends the
\* line it took at the start, also after a retry.
WriteBackInv ==
  w_state = "W_D" =>
    /\ d_wb /\ d_addr \in DLines /\ w_addr = d_addr /\ w_lines = 1
    /\ w_line_latched = dcache_wline
    /\ Started => wline_first = dcache_wline

Stored(a, b, line) == <<a, b>> \in DOMAIN mem /\ mem[<<a, b>>] = <<line, b>>

\* The beats of a write-back that the slave has taken.
WriteBackBeats ==
  w_state = "W_D" =>
    /\ wr_state = "WR_DATA" =>
         \A b \in Beats : b < wr_beat => Stored(d_addr, b, dcache_wline)
    /\ wr_state \in {"WR_RESP", "WR_DONE"} =>
         \A b \in Beats : Stored(d_addr, b, dcache_wline)

TxInv ==
  /\ WrTypes /\ PathTypes /\ DmaTypes
  /\ d_wb => d_addr \in DLines
  /\ EngineInv /\ WriteBackInv /\ WriteBackBeats

(***************************************************************************)
(* What one edge of the arbiter does, in terms of its state before.        *)
(***************************************************************************)
ArbEdge == WArbTick(d_wb, dmaDrive, d_addr, dcache_wline,
                    dmaAddr, wBurstLines, accel_wline, wr_ready)

\* A granted request is kept until the engine's pulse (the W_D and W_A branches).
LEMMA ArbHolds ==
  ASSUME ArbEdge, w_state # "W_IDLE"
  PROVE  /\ w_addr' = w_addr /\ w_lines' = w_lines
         /\ w_line_latched' = w_line_latched
         /\ wr_state # "WR_DONE" => w_state' = w_state
         /\ wr_state = "WR_DONE" => w_state' = "W_IDLE"
  BY Zenon DEF ArbEdge, WArbTick, WArbGrantD, WArbGrantA, WArbWait, WArbRetire,
         w_grant_d, w_grant_a, wArbVars, wr_ready

\* An idle arbiter grants at most one request and latches it (the W_IDLE branch).
LEMMA ArbGrants ==
  ASSUME ArbEdge, w_state = "W_IDLE"
  PROVE  \/ /\ w_state' = "W_IDLE" /\ w_addr' = w_addr /\ w_lines' = w_lines
         \/ /\ w_state' = "W_D" /\ d_wb /\ w_addr' = d_addr /\ w_lines' = 1
            /\ w_line_latched' = dcache_wline
         \/ /\ w_state' = "W_A" /\ dmaDrive /\ w_addr' = dmaAddr
            /\ w_lines' = IF wBurstLines = 0 THEN 1 ELSE wBurstLines
            /\ w_line_latched' = accel_wline
  BY Zenon DEF ArbEdge, WArbTick, WArbGrantD, WArbGrantA, WArbWait, WArbRetire,
         w_grant_d, w_grant_a, wArbVars

\* The data cache keeps its request up until the acknowledgement (S_WB).
LEMMA WriteBackHolds ==
  ASSUME DCacheWriteBack, d_wb \in BOOLEAN, d_wb
  PROVE  /\ d_addr' = d_addr /\ d_tag' = d_tag
         /\ ~(w_state = "W_D" /\ wr_state = "WR_DONE") => d_wb'
  BY Zenon DEF DCacheWriteBack, dcache_wr_ready, wr_ready

(***************************************************************************)
(* What the slave does with a beat.                                        *)
(***************************************************************************)

\* An accepted beat is stored where the slave's burst stands, and no other
\* address changes.
LEMMA BeatLands ==
  ASSUME mem' = Put(<<s_line, s_beat>>, m_axi_wdata(arb_wline(accel_wline)))
  PROVE  /\ <<s_line, s_beat>> \in DOMAIN mem'
         /\ mem'[<<s_line, s_beat>>] = m_axi_wdata(arb_wline(accel_wline))
         /\ \A x : x # <<s_line, s_beat>> =>
              /\ x \in DOMAIN mem <=> x \in DOMAIN mem'
              /\ x \in DOMAIN mem => mem'[x] = mem[x]
  BY Zenon DEF Put

(***************************************************************************)
(* The transaction invariant is preserved by a clock edge.                 *)
(***************************************************************************)
\* A step is a clock edge for some inputs (Next).
LEMMA NextEdge ==
  ASSUME Next
  PROVE  \E awready, wready, bvalid, lost, start, softRst, contig \in BOOLEAN :
         \E dest \in Dests :
           Edge(awready, wready, bvalid, lost, start, softRst, contig, dest)
  <1>1. \A c, v : v \in Input(c) => v \in BOOLEAN
    BY Zenon DEF Input
  <1>2. PICK awready \in Input(m_axi_awvalid), wready \in Input(m_axi_wvalid),
             bvalid \in Input(m_axi_bready), start \in Input(StoreReady),
             softRst \in Input(ResetAllowed), dest \in Dests :
          \E lost \in Input(wready), contig \in Input(start) :
            Edge(awready, wready, bvalid, lost, start, softRst, contig, dest)
    BY Zenon DEF Next
  <1>3. PICK lost \in Input(wready), contig \in Input(start) :
          Edge(awready, wready, bvalid, lost, start, softRst, contig, dest)
    BY <1>2, Zenon
  <1>4. /\ awready \in BOOLEAN /\ wready \in BOOLEAN /\ bvalid \in BOOLEAN /\ start \in BOOLEAN
        /\ softRst \in BOOLEAN /\ lost \in BOOLEAN /\ contig \in BOOLEAN
    BY <1>1, Zenon
  <1>5. \E start_, softRst_, contig_ \in BOOLEAN : \E dest_ \in Dests :
          Edge(awready, wready, bvalid, lost, start_, softRst_, contig_, dest_)
    BY <1>3, <1>4, Zenon
  <1>6. \E bvalid_, lost_, start_, softRst_, contig_ \in BOOLEAN : \E dest_ \in Dests :
          Edge(awready, wready, bvalid_, lost_, start_, softRst_, contig_, dest_)
    BY <1>4, <1>5, ZenonT(30)
  <1>7. \E wready_, bvalid_, lost_, start_, softRst_, contig_ \in BOOLEAN : \E dest_ \in Dests :
          Edge(awready, wready_, bvalid_, lost_, start_, softRst_, contig_, dest_)
    BY <1>4, <1>6, Zenon
  <1>8. awready \in BOOLEAN
    BY <1>4, Zenon
  <1> QED BY <1>7, <1>8, Zenon

\* The engine's registers keep their ranges.
LEMMA WrTypesStep ==
  ASSUME TxInv, Next
  PROVE  WrTypes'
  <1> PICK awready, wready, bvalid, lost, start, softRst, contig \in BOOLEAN :
      \E dest \in Dests :
        Edge(awready, wready, bvalid, lost, start, softRst, contig, dest)
    BY NextEdge, Zenon
  <1>1. WrTick(wr_req_valid, w_addr, w_lines, arb_wline(accel_wline),
              awready, wready, bvalid)
    BY Zenon DEF Edge
  <1>a. wr_state' \in WrStates
    BY <1>1, Zenon
    DEF WrTick, WrLostResponse, WrTimeout, WrIdle, WrStart, WrAddr, WrDataWait,
        WrBeat, WrResp, WrDone, TxInv, WrTypes, WrStates
  <1>d. wr_sent' \in {0, wr_sent, wr_sent + 1}
    BY <1>1, Zenon
    DEF WrTick, WrLostResponse, WrTimeout, WrIdle, WrStart, WrAddr, WrDataWait,
        WrBeat, WrResp, WrDone
  <1>e. wr_tmo' \in {0, wr_tmo + 1}
    BY <1>1, Zenon
    DEF WrTick, WrLostResponse, WrTimeout, WrIdle, WrStart, WrAddr, WrDataWait,
        WrBeat, WrResp, WrDone, WrTmo
  <1>b. wr_sent' \in Nat /\ wr_tmo' \in Nat
    BY <1>d, <1>e DEF TxInv, WrTypes
  <1>c. wr_beat' = 0 \/ wr_beat' = wr_beat \/ wr_beat' = NextWrBeat
    BY <1>1, Zenon
    DEF WrTick, WrLostResponse, WrTimeout, WrIdle, WrStart, WrAddr, WrDataWait,
        WrBeat, WrResp, WrDone
  <1>2. wr_beat' \in Beats
    BY <1>c, WrBeatsAssumption DEF NextWrBeat, TxInv, WrTypes, Beats
  <1>3. wr_addr_s' \in Nat /\ wr_lines_s' \in Nat \ {0}
    BY <1>1, Zenon
    DEF WrTick, WrLostResponse, WrTimeout, WrIdle, WrStart, WrAddr, WrDataWait,
        WrBeat, WrResp, WrDone, TxInv, WrTypes, PathTypes
  <1>4. /\ wr_retrying' \in BOOLEAN /\ wr_fifo_ahead' \in BOOLEAN
        /\ wr_resume_hold' \in BOOLEAN /\ wr_served' \in BOOLEAN
        /\ wr_next' \in BOOLEAN
    BY <1>1, Zenon
    DEF WrTick, WrLostResponse, WrTimeout, WrIdle, WrStart, WrAddr, WrDataWait,
        WrBeat, WrResp, WrDone, WrServed, TxInv, WrTypes
  <1> QED BY <1>a, <1>b, <1>2, <1>3, <1>4, Zenon DEF WrTypes

\* The fill pointer wraps inside the tile (fillGrp).
LEMMA FillGrpWraps ==
  ASSUME fillGrp \in 0 .. NGroups - 1
  PROVE  (fillGrp + 1) % NGroups \in 0 .. NGroups - 1
  BY DmaAssumption

\* The store engine's registers keep their ranges.
LEMMA DmaTypesStep ==
  ASSUME TxInv, Next
  PROVE  DmaTypes'
  <1>1. PICK start, softRst, contig \in BOOLEAN, dest \in Dests :
          DmaTick(start, dest, contig, softRst, accel_wnext(wr_next),
                  accel_wr_ready(wr_ready), <<"A", tile, fillGrp>>)
    BY NextEdge DEF Edge
  <1>2. dest \in Nat
    BY PathAssumption, Zenon
  <1>3. dmaBusy' \in BOOLEAN /\ dmaDone' \in BOOLEAN /\ destContig' \in BOOLEAN
    BY <1>1, Zenon DEF DmaTick, DmaSoftReset, DmaStart, DmaBurstDone, TxInv, DmaTypes
  <1>4. destAddr' \in Nat /\ dmaAddr' \in Nat /\ dmaRowBase' \in Nat
    BY <1>1, <1>2, DmaAssumption
    DEF DmaTick, DmaSoftReset, DmaStart, DmaBurstDone, TxInv, DmaTypes
  <1>5. dmaSent' \in Nat
    BY <1>1, DmaAssumption
    DEF DmaTick, DmaSoftReset, DmaStart, DmaBurstDone, wBurstLines, TxInv, DmaTypes
  <1>6. fillGrp' \in {0, fillGrp, (fillGrp + 1) % NGroups}
    BY <1>1, Zenon DEF DmaTick, DmaSoftReset, DmaStart, Fill
  <1>7. fillGrp' \in 0 .. NGroups - 1
    BY <1>6, FillGrpWraps, DmaAssumption DEF TxInv, DmaTypes
  <1>8. fillLeft' \in Nat
    BY <1>1, DmaAssumption
    DEF DmaTick, DmaSoftReset, DmaStart, Fill, fillFire, TxInv, DmaTypes
  <1> QED BY <1>3, <1>4, <1>5, <1>7, <1>8, Zenon DEF DmaTypes

\* The registers of the arbiter, of the data cache and of the slave keep theirs.
LEMMA PathTypesStep ==
  ASSUME TxInv, Next
  PROVE  PathTypes' /\ (d_wb => d_addr \in DLines)'
  <1>1. PICK awready, wready, bvalid, lost \in BOOLEAN :
          /\ SlaveWrite(awready, wready, bvalid, lost)
          /\ wready => s_left > 0
    BY NextEdge DEF Edge
  <1>2. ArbEdge /\ DCacheWriteBack
    BY NextEdge DEF Edge, ArbEdge
  <1>a. d_wb \in BOOLEAN /\ d_addr \in Nat /\ (d_wb => d_addr \in DLines)
    BY Zenon DEF TxInv, PathTypes
  <1>b. d_wb' \in BOOLEAN
    BY <1>2, <1>a, Zenon DEF DCacheWriteBack, dVars
  <1>c. d_addr' \in DLines \/ (d_addr' = d_addr /\ (d_wb' => d_wb))
    BY <1>2, <1>a, Zenon DEF DCacheWriteBack, dVars
  <1>3. /\ d_wb' \in BOOLEAN /\ d_addr' \in Nat
        /\ d_wb' => d_addr' \in DLines
    BY <1>a, <1>b, <1>c, PathAssumption, Zenon
  <1>4. w_state' \in WArbStates
    BY <1>2, ArbHolds, ArbGrants, Zenon DEF TxInv, PathTypes, WArbStates
  <1>5. wBurstLines \in Nat \ {0}
    BY DmaAssumption, Zenon DEF wBurstLines
  <1>6. w_addr' \in Nat /\ w_lines' \in Nat \ {0}
    BY <1>2, <1>5, ArbHolds, ArbGrants DEF TxInv, PathTypes, DmaTypes
  <1>7. wr_base \in Nat /\ wr_remaining \in Nat
    BY DEF TxInv, WrTypes, wr_base, wr_remaining
  <1>8. s_line' \in Nat /\ s_left' \in Nat
    BY <1>1, <1>7 DEF SlaveWrite, TxInv, PathTypes
  <1>9. s_beat' \in Beats
    BY <1>1, WrBeatsAssumption DEF SlaveWrite, TxInv, PathTypes, Beats
  <1> QED BY <1>3, <1>4, <1>6, <1>8, <1>9, Zenon DEF PathTypes

\* Engine, arbiter and slave keep agreeing on the request being served.
LEMMA EngineStep ==
  ASSUME TxInv, Next
  PROVE  EngineInv'
  <1>1. PICK awready, wready, bvalid, lost \in BOOLEAN :
          /\ awready => m_axi_awvalid
          /\ WrTick(wr_req_valid, w_addr, w_lines, arb_wline(accel_wline),
                    awready, wready, bvalid)
          /\ SlaveWrite(awready, wready, bvalid, lost)
    BY NextEdge DEF Edge
  <1>2. ArbEdge
    BY NextEdge DEF Edge, ArbEdge
  <1>3. w_state # "W_IDLE" =>
          /\ w_addr' = w_addr /\ w_lines' = w_lines
          /\ wr_state # "WR_DONE" => w_state' = w_state
          /\ wr_state = "WR_DONE" => w_state' = "W_IDLE"
    BY <1>2, ArbHolds, Zenon
  <1>t. /\ wr_beat \in Nat /\ wr_beat <= BEATS_PER_LINE - 1 /\ wr_sent \in Nat
        /\ wr_addr_s \in Nat /\ wr_lines_s \in Nat \ {0} /\ w_lines \in Nat \ {0}
        /\ s_left \in Nat /\ BEATS_PER_LINE \in Nat
        /\ wr_served \in BOOLEAN /\ wr_retrying \in BOOLEAN
    BY WrBeatsAssumption DEF TxInv, WrTypes, PathTypes, Beats
  <1>i. EngineIdle /\ EngineAddr /\ EngineData /\ EngineEnd
    BY Zenon DEF TxInv, EngineInv
  <1>4. CASE WrLostResponse
    BY <1>3, <1>t, <1>i, <1>4, ZenonT(30) DEF WrLostResponse, wr_expired, wr_bresp_only, EngineInv,
       EngineIdle, EngineAddr, EngineData, EngineEnd, SameRequest
  <1>5. CASE WrTimeout
    BY <1>3, <1>t, <1>i, <1>5 DEF WrTimeout, wr_expired, wr_eligible, wr_bresp_only,
       EngineInv, EngineIdle, EngineAddr, EngineData, EngineEnd, SameRequest,
       TxInv, WrTypes, WrStates
  <1>6. CASE WrIdle(wr_req_valid)
    BY <1>3, <1>t, <1>i, <1>6, Zenon DEF WrIdle, WrServed, wr_req_valid,
       EngineInv, EngineIdle, EngineAddr, EngineData, EngineEnd, SameRequest
  <1>7. CASE WrStart(wr_req_valid, w_addr, w_lines, arb_wline(accel_wline))
    BY <1>3, <1>t, <1>i, <1>7 DEF WrStart, WrServed, wr_req_valid,
       EngineInv, EngineIdle, EngineAddr, EngineData, EngineEnd, SameRequest
  <1>8. CASE WrAddr(wr_req_valid, awready)
    <2>1. awready => s_line' = wr_base /\ s_beat' = 0 /\ s_left' = wr_remaining
      BY <1>1, Zenon DEF SlaveWrite
    <2> QED BY <1>3, <1>t, <1>i, <1>8, <2>1, Zenon DEF WrAddr, WrServed, wr_req_valid,
       wr_base, wr_remaining,
       EngineInv, EngineIdle, EngineAddr, EngineData, EngineEnd, SameRequest
  <1>9. CASE WrDataWait(wr_req_valid, wready, arb_wline(accel_wline))
    <2>1. UNCHANGED <<s_line, s_beat, s_left>>
      BY <1>1, <1>9, ZenonT(30) DEF SlaveWrite, WrDataWait, m_axi_awvalid
    <2> QED BY <1>3, <1>t, <1>i, <1>9, <2>1, Zenon DEF WrDataWait, WrServed, wr_req_valid,
       EngineInv, EngineIdle, EngineAddr, EngineData, EngineEnd, SameRequest
  <1>10. CASE WrBeat(wr_req_valid, wready, arb_wline(accel_wline))
    <2>1. IF s_beat < BEATS_PER_LINE - 1
            THEN s_beat' = s_beat + 1 /\ UNCHANGED <<s_line, s_left>>
            ELSE s_beat' = 0 /\ s_line' = s_line + 1 /\ s_left' = s_left - 1
      BY <1>1, <1>10, Zenon DEF SlaveWrite, WrBeat, m_axi_awvalid, m_axi_wvalid
    <2> QED BY <1>3, <1>t, <1>i, <1>10, <2>1 DEF WrBeat, WrServed, wr_req_valid,
       NextWrBeat, m_axi_wlast,
       EngineInv, EngineIdle, EngineAddr, EngineData, EngineEnd, SameRequest
  <1>11. CASE WrResp(wr_req_valid, bvalid)
    BY <1>3, <1>t, <1>i, <1>11, Zenon DEF WrResp, WrServed, wr_req_valid,
       EngineInv, EngineIdle, EngineAddr, EngineData, EngineEnd, SameRequest
  <1>12. CASE WrDone(wr_req_valid)
    BY <1>3, <1>t, <1>i, <1>12, Zenon DEF WrDone, WrServed, wr_req_valid,
       EngineInv, EngineIdle, EngineAddr, EngineData, EngineEnd, SameRequest
  <1> QED BY <1>1, <1>4, <1>5, <1>6, <1>7, <1>8, <1>9, <1>10, <1>11, <1>12, Zenon
      DEF WrTick

\* A write-back being served stays what it was when it was granted.
LEMMA WriteBackStep ==
  ASSUME TxInv, Next
  PROVE  WriteBackInv'
  <1>1. PICK awready, wready, bvalid \in BOOLEAN :
          WrTick(wr_req_valid, w_addr, w_lines, arb_wline(accel_wline),
                 awready, wready, bvalid)
    BY NextEdge DEF Edge
  <1>2. ArbEdge /\ DCacheWriteBack
    BY NextEdge DEF Edge, ArbEdge
  <1>3. d_wb \in BOOLEAN /\ (d_wb => d_addr \in DLines)
    BY Zenon DEF TxInv, PathTypes
  <1> SUFFICES ASSUME w_state' = "W_D" PROVE WriteBackInv'
    BY Zenon DEF WriteBackInv
  <1>4. CASE w_state = "W_IDLE"
    <2>1. /\ d_wb /\ w_addr' = d_addr /\ w_lines' = 1
          /\ w_line_latched' = dcache_wline
      BY <1>2, <1>4, ArbGrants, Zenon
    <2>2. d_addr' = d_addr /\ d_tag' = d_tag /\ d_wb'
      BY <1>2, <1>3, <1>4, <2>1, WriteBackHolds, Zenon
    <2>3. ~Started'
      <3>1. wr_state \in {"WR_IDLE"} /\ ~wr_retrying
        BY <1>4, Zenon DEF TxInv, EngineInv, EngineIdle, EngineAddr, EngineData, EngineEnd,
           SameRequest, WrTypes, WrStates
      <3> QED BY <1>1, <1>4, <3>1, Zenon
        DEF WrTick, WrLostResponse, WrTimeout, WrIdle, WrStart, WrAddr, WrDataWait,
            WrBeat, WrResp, WrDone, wr_expired, wr_eligible, wr_req_valid, Started
    <2> QED BY <1>3, <2>1, <2>2, <2>3, Zenon DEF WriteBackInv, dcache_wline
  <1>5. CASE w_state # "W_IDLE"
    <2>1. w_state = "W_D" /\ wr_state # "WR_DONE"
      BY <1>2, <1>5, ArbHolds, Zenon
    <2>2. /\ w_addr' = w_addr /\ w_lines' = w_lines
          /\ w_line_latched' = w_line_latched
      BY <1>2, <1>5, ArbHolds, Zenon
    <2>3. /\ d_wb /\ w_addr = d_addr /\ w_lines = 1
          /\ w_line_latched = dcache_wline
          /\ Started => wline_first = dcache_wline
      BY <2>1, Zenon DEF TxInv, WriteBackInv
    <2>4. d_addr' = d_addr /\ d_tag' = d_tag /\ d_wb'
      BY <1>2, <1>3, <2>1, <2>3, WriteBackHolds, Zenon
    <2>5. arb_wline(accel_wline) = w_line_latched
      BY <2>1, Zenon DEF arb_wline
    <2>6. Started' => wline_first' = dcache_wline
      BY <1>1, <2>3, <2>5, Zenon
      DEF WrTick, WrLostResponse, WrTimeout, WrIdle, WrStart, WrAddr, WrDataWait,
          WrBeat, WrResp, WrDone, wr_expired, wr_eligible, Started, TxInv, WrTypes
    <2> QED BY <1>3, <2>2, <2>3, <2>4, <2>6, Zenon DEF WriteBackInv, dcache_wline
  <1> QED BY <1>4, <1>5, Zenon

\* The slave stores a write-back's beats in turn, the frozen line's beats.
LEMMA WriteBackBeatsStep ==
  ASSUME TxInv, Next
  PROVE  WriteBackBeats'
  <1>1. PICK awready, wready, bvalid, lost \in BOOLEAN :
          /\ WrTick(wr_req_valid, w_addr, w_lines, arb_wline(accel_wline),
                    awready, wready, bvalid)
          /\ SlaveWrite(awready, wready, bvalid, lost)
          /\ wready => m_axi_wvalid
    BY NextEdge DEF Edge
  <1>2. ArbEdge /\ DCacheWriteBack
    BY NextEdge DEF Edge, ArbEdge
  <1> SUFFICES ASSUME w_state' = "W_D" PROVE WriteBackBeats'
    BY Zenon DEF WriteBackBeats
  <1>3. CASE w_state = "W_IDLE"
    <2>1. wr_state \in {"WR_IDLE"} /\ ~wr_retrying
      BY <1>3, Zenon DEF TxInv, EngineInv, EngineIdle, EngineAddr, EngineData, EngineEnd,
         SameRequest, WrTypes, WrStates
    <2>2. wr_state' = "WR_IDLE"
      BY <1>1, <1>3, <2>1, Zenon
      DEF WrTick, WrLostResponse, WrTimeout, WrIdle, WrStart, WrAddr, WrDataWait,
          WrBeat, WrResp, WrDone, wr_expired, wr_eligible, wr_req_valid
    <2> QED BY <2>2, Zenon DEF WriteBackBeats
  <1>4. CASE w_state # "W_IDLE"
    <2>1. w_state = "W_D" /\ wr_state # "WR_DONE"
      BY <1>2, <1>4, ArbHolds, Zenon
    <2>2. d_wb /\ w_addr = d_addr /\ w_lines = 1
      BY <2>1, Zenon DEF TxInv, WriteBackInv
    <2>3. d_addr' = d_addr /\ dcache_wline' = dcache_wline
      BY <1>2, <2>1, <2>2, WriteBackHolds, Zenon DEF TxInv, PathTypes, dcache_wline
    <2>b. wr_beat \in Beats /\ BEATS_PER_LINE \in Nat
      BY WrBeatsAssumption, Zenon DEF TxInv, WrTypes
    <2>4. CASE wr_state = "WR_DATA" /\ wready
      <3>1. /\ s_beat = wr_beat /\ s_line = d_addr
            /\ wr_sent = 0 /\ wr_lines_s = 1
        BY <2>2, <2>4 DEF TxInv, EngineInv, EngineData, SameRequest, WrTypes, PathTypes
      <3>2. wline_first = dcache_wline
        BY <2>1, <2>4, Zenon DEF TxInv, WriteBackInv, Started
      <3>3. m_axi_wdata(arb_wline(accel_wline)) = <<dcache_wline, wr_beat>>
        BY <3>1, <3>2, Zenon DEF m_axi_wdata
      <3>m. mem' = Put(<<s_line, s_beat>>, m_axi_wdata(arb_wline(accel_wline)))
        BY <1>1, <2>4, Zenon DEF SlaveWrite, m_axi_awvalid, m_axi_wvalid
      <3>4. ASSUME NEW b, b = wr_beat PROVE Stored(d_addr, b, dcache_wline)'
        BY <2>3, <3>1, <3>3, <3>4, <3>m, BeatLands, Zenon DEF Stored
      <3>5. ASSUME NEW b \in Beats, b < wr_beat
            PROVE  Stored(d_addr, b, dcache_wline)'
        <4>1. Stored(d_addr, b, dcache_wline)
          BY <2>1, <2>4, <3>5, Zenon DEF TxInv, WriteBackBeats
        <4>2. <<d_addr, b>> # <<s_line, s_beat>>
          BY <2>b, <3>1, <3>5 DEF Beats
        <4> QED BY <2>3, <4>1, <4>2, <3>m, BeatLands, Zenon DEF Stored
      <3>6. \/ wr_state' = "WR_DATA" /\ (wr_beat' = wr_beat + 1 \/ wr_beat' = 0)
            \/ wr_state' = "WR_RESP" /\ wr_beat = BEATS_PER_LINE - 1
            \/ wr_state' = "WR_IDLE"
        BY <1>1, <2>4, Zenon
        DEF WrTick, WrLostResponse, WrTimeout, WrIdle, WrStart, WrAddr, WrDataWait,
            WrBeat, WrResp, WrDone, wr_bresp_only, NextWrBeat, m_axi_wlast
      <3>7. ASSUME NEW b \in Beats, b <= wr_beat
            PROVE  Stored(d_addr, b, dcache_wline)'
        BY <2>b, <3>4, <3>5, <3>7 DEF Beats
      <3> QED BY <2>b, <3>6, <3>7 DEF WriteBackBeats, Beats
    <2>5. CASE ~(wr_state = "WR_DATA" /\ wready)
      <3>1. mem' = mem
        BY <1>1, <2>5, Zenon DEF SlaveWrite, m_axi_wvalid
      <3>2. \A b : Stored(d_addr, b, dcache_wline)' <=> Stored(d_addr, b, dcache_wline)
        BY <2>3, <3>1, Zenon DEF Stored
      <3>3. \/ wr_state' = "WR_DATA" /\ wr_state = "WR_DATA" /\ wr_beat' = wr_beat
            \/ wr_state' = "WR_DATA" /\ wr_state = "WR_ADDR" /\ wr_beat' = 0
            \/ wr_state' \in {"WR_RESP", "WR_DONE"} /\ wr_state = "WR_RESP"
            \/ wr_state' \in {"WR_IDLE", "WR_ADDR"}
        BY <1>1, <2>1, <2>5, Zenon
        DEF WrTick, WrLostResponse, WrTimeout, WrIdle, WrStart, WrAddr, WrDataWait,
            WrBeat, WrResp, WrDone, wr_bresp_only, TxInv, EngineInv, EngineAddr
      <3> QED BY <2>1, <2>b, <3>2, <3>3 DEF WriteBackBeats, TxInv, Beats
    <2> QED BY <2>4, <2>5, Zenon
  <1> QED BY <1>3, <1>4, Zenon

(***************************************************************************)
(* What follows for every slave.                                           *)
(***************************************************************************)

\* Reset establishes the transaction invariant.
LEMMA TxInit ==
  ASSUME Init PROVE TxInv
  <1>a. 0 \in Beats
    BY WrBeatsAssumption DEF Beats
  <1>1. 0 \in 0 .. NGroups - 1
    BY DmaAssumption
  <1>b. wr_beat \in Beats /\ s_beat \in Beats
    BY <1>a, Zenon DEF Init, WrInit
  <1>c. wr_state \in WrStates /\ w_state \in WArbStates
    BY Zenon DEF Init, WrInit, WrStates, WArbInit, WArbStates
  <1>d. /\ wr_sent \in Nat /\ wr_addr_s \in Nat /\ wr_lines_s \in Nat \ {0}
        /\ wr_tmo \in Nat /\ w_addr \in Nat /\ w_lines \in Nat \ {0}
        /\ d_addr \in Nat /\ s_line \in Nat /\ s_left \in Nat
    BY DEF Init, WrInit, WArbInit
  <1>2. WrTypes
    BY <1>b, <1>c, <1>d, Zenon DEF Init, WrInit, WrTypes
  <1>3. PathTypes
    BY <1>b, <1>c, <1>d, Zenon DEF Init, PathTypes
  <1>4. DmaTypes
    BY <1>1, Zenon DEF Init, DmaInit, DmaTypes
  <1> QED BY <1>2, <1>3, <1>4, Zenon
    DEF Init, WrInit, WArbInit, TxInv, EngineInv, EngineIdle, EngineAddr, EngineData,
        EngineEnd, WriteBackInv, WriteBackBeats

\* In every reachable state engine, arbiter, data cache and slave agree on the
\* request being served.
THEOREM TransactionsAgree == Spec => []TxInv
  <1>1. Init => TxInv
    BY TxInit, Zenon
  <1>2. TxInv /\ [Next]_vars => TxInv'
    <2> SUFFICES ASSUME TxInv, [Next]_vars PROVE TxInv'
      BY Zenon
    <2>1. CASE Next
      BY <2>1, WrTypesStep, DmaTypesStep, PathTypesStep, EngineStep, WriteBackStep,
         WriteBackBeatsStep, ZenonT(30) DEF TxInv
    <2>2. CASE UNCHANGED vars
      BY <2>2 DEF vars, wrVars, wArbVars, dmaVars, dVars, slaveVars, TxInv, WrTypes,
         PathTypes, DmaTypes, EngineInv, EngineIdle, EngineAddr, EngineData, EngineEnd,
         SameRequest, WriteBackInv, WriteBackBeats, Stored, Started, dcache_wline
    <2> QED BY <2>1, <2>2, Zenon
  <1> QED BY <1>1, <1>2, PTL DEF Spec

\* WLAST is raised on exactly the beat the slave counts as the last of the burst,
\* whatever was abandoned and resumed before.
THEOREM LastBeatIsLast == Spec => []LastIsLast
  <1>1. TxInv => LastIsLast
    BY WrBeatsAssumption
    DEF TxInv, WrTypes, PathTypes, EngineInv, EngineData, SameRequest, LastIsLast,
        m_axi_wvalid, m_axi_wlast, Beats
  <1> QED BY <1>1, TransactionsAgree, PTL

\* A write-back the data cache sees acknowledged is in memory, for every pattern
\* of timeouts, retries and lost responses.
THEOREM WriteBacksLand == Spec => []WriteBackLands
  <1>1. TxInv => WriteBackLands
    BY Zenon DEF TxInv, WriteBackBeats, WriteBackLands, dcache_wr_ready, wr_ready, Holds, Stored
  <1> QED BY <1>1, TransactionsAgree, PTL

(***************************************************************************)
(* The store invariant, for a slave that may make a line wait after its    *)
(* wr_next but does not let it time out there.                             *)
(***************************************************************************)

\* The line being sent has left the FIFO: its wr_next is over, and the slave keeps
\* the last beat waiting.
Overtaken == IF wr_fifo_ahead /\ ~wr_next THEN 1 ELSE 0

\* Lines of the running burst that have left the FIFO.
BurstPopped ==
  IF w_state = "W_A" /\ Started
    THEN IF wr_sent < w_lines THEN wr_sent + Overtaken ELSE w_lines - 1
    ELSE 0

Popped == dmaSent + BurstPopped

\* The requester is ahead of the engine exactly while the last beat of a line that
\* is not the last waits, for as long as it does; no timeout finds it ahead, so
\* no line is replayed.
AheadInv ==
  /\ ~wr_resume_hold
  /\ wr_next => wr_fifo_ahead
  /\ wr_fifo_ahead => wr_tmo < TIMEOUT_LIMIT
  /\ wr_fifo_ahead <=> /\ wr_state = "WR_DATA" /\ wr_beat = BEATS_PER_LINE - 1
                       /\ wr_sent + 1 < wr_lines_s

TileLines == {"A"} \X {0, 1} \X Nat

\* The FIFO and the fill register hold the lines of this tile in order, from the
\* first that has not been popped to the last that has been read out.
FifoInv ==
  /\ lineFifo \in Seq(TileLines) /\ fillReg \in Seq(TileLines) /\ Len(fillReg) <= 1
  /\ tile \in {0, 1}
  /\ dmaBusy =>
       /\ Popped + Len(lineFifo) + Len(fillReg) + fillLeft = NGroups
       /\ \A i \in 1 .. Len(lineFifo) : lineFifo[i] = <<"A", tile, Popped + i - 1>>
       /\ Len(fillReg) = 1 => fillReg[1] = <<"A", tile, Popped + Len(lineFifo)>>
       /\ fillLeft > 0 => fillGrp = NGroups - fillLeft
       \* Reading out never waits, so the FIFO stays ahead of the bursts.
       /\ fillLeft = NGroups \/ fillLeft = 0 \/ Len(fillReg) = 1

\* Where the store is: whole bursts are behind it, the next one fits.
StoreInv ==
  /\ dmaBusy =>
       /\ ~dmaDone
       /\ destAddr \in Dests
       /\ dmaSent + wBurstLines <= NGroups
       /\ destContig => dmaSent = 0 /\ dmaAddr = destAddr
       /\ ~destContig =>
            /\ dmaSent % PerRow = 0 
            /\ dmaRowBase = destAddr + ((dmaSent \div PerRow) * DestStride)
            /\ dmaAddr = dmaRowBase
  /\ dmaDone => destAddr \in Dests

\* The burst being served is the one the store asks for, with its lines.
BurstInv ==
  w_state = "W_A" =>
    /\ dmaBusy /\ Len(lineFifo) > 0
    /\ w_addr = dmaAddr /\ w_lines = wBurstLines
    /\ w_lines = 1 => w_line_latched = <<"A", tile, dmaSent>>
    /\ w_lines = 1 /\ Started => wline_first = <<"A", tile, dmaSent>>
    /\ w_lines > 1 /\ wr_state = "WR_DATA" /\ wr_beat # 0 =>
         wline_hold = <<"A", tile, dmaSent + wr_sent>>

\* Lines of the tile that are complete in memory.
Landed ==
  IF dmaDone THEN NGroups
  ELSE dmaSent + IF w_state = "W_A" /\ Started THEN wr_sent ELSE 0

TileBeats ==
  dmaBusy \/ dmaDone =>
    /\ \A g \in 0 .. NGroups - 1 : g < Landed =>
         Holds(ResultAddr(destAddr, destContig, g), <<"A", tile, g>>)
    /\ w_state = "W_A" /\ wr_state = "WR_DATA" =>
         \A b \in Beats : b < wr_beat =>
           Stored(s_line, b, <<"A", tile, dmaSent + wr_sent>>)

\* Nobody writes a dirty line of a result buffer back while the store runs: what
\* the driver owes the accelerator, which writes memory behind the cache.
Separate ==
  \A dest \in Dests, contig \in BOOLEAN, g \in 0 .. NGroups - 1 :
    ResultAddr(dest, contig, g) \notin DLines

TileInv == AheadInv /\ FifoInv /\ StoreInv /\ BurstInv /\ TileBeats

(***************************************************************************)
(* Division, for the rows of a strided destination.                        *)
(***************************************************************************)

\* Multiplying by a positive number keeps the order, with room to spare.
LEMMA Multiples ==
  ASSUME NEW p \in Nat \ {0}, NEW a \in Int, NEW b \in Int, a < b
  PROVE  p * a + p <= p * b
  <1>1. p * (b - a) >= p * 1
    OBVIOUS
  <1> QED BY <1>1

\* Quotient and remainder are unique.
LEMMA DivisionUnique ==
  ASSUME NEW p \in Nat \ {0}, NEW q \in Nat, NEW r \in 0 .. p - 1,
         NEW q2 \in Nat, NEW r2 \in 0 .. p - 1, p * q + r = p * q2 + r2
  PROVE  q = q2 /\ r = r2
  <1>1. CASE q < q2
    <2>1. p * q + p <= p * q2
      BY <1>1, Multiples
    <2> QED BY <2>1
  <1>2. CASE q2 < q
    <2>1. p * q2 + p <= p * q
      BY <1>2, Multiples
    <2> QED BY <2>1
  <1>3. CASE q = q2
    BY <1>3
  <1> QED BY <1>1, <1>2, <1>3

\* Division computes the quotient and the remainder.
LEMMA Division ==
  ASSUME NEW a \in Nat, NEW p \in Nat \ {0}
  PROVE  a \div p \in Nat /\ a % p \in 0 .. p - 1 /\ a = p * (a \div p) + (a % p)
  OBVIOUS

\* So a number's quotient and remainder can be read off a decomposition.
LEMMA DivisionOf ==
  ASSUME NEW p \in Nat \ {0}, NEW q \in Nat, NEW r \in 0 .. p - 1
  PROVE  (p * q + r) \div p = q /\ (p * q + r) % p = r
  <1> DEFINE a == p * q + r
  <1>1. a \in Nat
    <2>1. p * q \in Nat
      OBVIOUS
    <2> QED BY <2>1
  <1>2. a \div p \in Nat /\ a % p \in 0 .. p - 1 /\ a = p * (a \div p) + (a % p)
    BY <1>1, Division, Zenon
  <1> QED BY <1>2, DivisionUnique, SMTT(30)

\* Group k of the row that starts at group s, and the row after it.
LEMMA RowOf ==
  ASSUME NEW s \in Nat, s % PerRow = 0, NEW k \in 0 .. PerRow - 1
  PROVE  (s + k) \div PerRow = s \div PerRow /\ (s + k) % PerRow = k
  <1>1. PerRow \in Nat \ {0}
    BY DmaAssumption, Zenon
  <1> DEFINE q == s \div PerRow
  <1>2. q \in Nat /\ s = PerRow * q
    BY <1>1, Division
  <1> HIDE DEF q
  <1>3. (PerRow * q + k) \div PerRow = q /\ (PerRow * q + k) % PerRow = k
    BY <1>1, <1>2, DivisionOf, Zenon
  <1> QED BY <1>2, <1>3, Zenon DEF q

\* A whole row further on is the next row (dmaRowBase + DestStride).
LEMMA NextRow ==
  ASSUME NEW s \in Nat, s % PerRow = 0
  PROVE  (s + PerRow) \div PerRow = (s \div PerRow) + 1 /\ (s + PerRow) % PerRow = 0
  <1>1. PerRow \in Nat \ {0} /\ 0 \in 0 .. PerRow - 1
    BY DmaAssumption
  <1>2. s \div PerRow \in Nat /\ s = PerRow * (s \div PerRow)
    BY <1>1, Division
  <1> DEFINE q == s \div PerRow
  <1>3. q + 1 \in Nat /\ s + PerRow = PerRow * (q + 1) + 0
    BY <1>1, <1>2
  <1>4. (PerRow * (q + 1) + 0) \div PerRow = q + 1 /\ (PerRow * (q + 1) + 0) % PerRow = 0
    BY <1>1, <1>3, DivisionOf, ZenonT(30)
  <1> QED BY <1>3, <1>4, Zenon

\* A row that starts inside the tile ends inside it (NGroups is whole rows).
LEMMA RowFits ==
  ASSUME NEW s \in Nat, s % PerRow = 0, s < NGroups
  PROVE  s + PerRow <= NGroups
  <1>1. PerRow \in Nat \ {0} /\ NGroups \in Nat /\ NGroups % PerRow = 0
    BY DmaAssumption, Zenon
  <1>2. s \div PerRow \in Nat /\ s = PerRow * (s \div PerRow)
    BY <1>1, Division
  <1>3. NGroups \div PerRow \in Nat /\ NGroups = PerRow * (NGroups \div PerRow)
    BY <1>1, Division
  <1>4. s \div PerRow < NGroups \div PerRow
    <2>1. SUFFICES ASSUME NGroups \div PerRow <= s \div PerRow PROVE FALSE
      BY <1>2, <1>3
    <2>2. PerRow * (NGroups \div PerRow) <= PerRow * (s \div PerRow)
      BY <1>1, <1>2, <1>3, <2>1
    <2>3. NGroups <= s
      BY <1>2, <1>3, <2>2, Zenon
    <2> QED BY <1>1, <2>3
  <1>5. PerRow * (s \div PerRow) + PerRow <= PerRow * (NGroups \div PerRow)
    BY <1>1, <1>2, <1>3, <1>4, Multiples
  <1> QED BY <1>2, <1>3, <1>5, Zenon

\* Later groups go to higher addresses, so no two groups of a tile share one.
LEMMA AddrOrder ==
  ASSUME NEW dest \in Nat, NEW contig \in BOOLEAN, NEW g \in Nat, NEW h \in Nat, g < h
  PROVE  /\ ResultAddr(dest, contig, g) \in Nat
         /\ ResultAddr(dest, contig, h) \in Nat
         /\ ResultAddr(dest, contig, g) < ResultAddr(dest, contig, h)
  <1>1. PerRow \in Nat \ {0} /\ DestStride \in Nat \ {0} /\ DestStride >= PerRow
    BY DmaAssumption
  <1> DEFINE q == g \div PerRow
             u == h \div PerRow
  <1>2. q \in Nat /\ g % PerRow \in 0 .. PerRow - 1 /\ g = PerRow * q + (g % PerRow)
    BY <1>1, Division, Zenon
  <1>3. u \in Nat /\ h % PerRow \in 0 .. PerRow - 1 /\ h = PerRow * u + (h % PerRow)
    BY <1>1, Division, Zenon
  <1> HIDE DEF q, u
  <1>4. q * DestStride \in Nat /\ u * DestStride \in Nat
    BY <1>1, <1>2, <1>3
  <1>5. (q * DestStride) + (g % PerRow) < (u * DestStride) + (h % PerRow)
    <2>1. CASE q < u
      <3>1. DestStride * q + DestStride <= DestStride * u
        BY <1>1, <1>2, <1>3, <2>1, Multiples
      <3> QED BY <1>1, <1>2, <1>3, <3>1
    <2>2. CASE q = u
      BY <1>1, <1>2, <1>3, <1>4, <2>2
    <2>3. CASE u < q
      <3>1. PerRow * u + PerRow <= PerRow * q
        BY <1>1, <1>2, <1>3, <2>3, Multiples
      <3> QED BY <1>1, <1>2, <1>3, <3>1
    <2> QED BY <1>2, <1>3, <2>1, <2>2, <2>3
  <1>6. CASE contig
    BY <1>6 DEF ResultAddr
  <1>7. CASE ~contig
    BY <1>2, <1>3, <1>4, <1>5, <1>7 DEF ResultAddr, q, u
  <1> QED BY <1>6, <1>7, Zenon

(***************************************************************************)
(* The store invariant is preserved by a clock edge.                       *)
(***************************************************************************)

\* A line whose wr_next is out may wait, but its last beat is taken before the
\* engine gives up: the requester is not ahead in any other state.
LEMMA AheadStep ==
  ASSUME TxInv, AheadInv, Next, ~TimeoutsInsideLine
  PROVE  AheadInv'
  <1>1. PICK awready, wready, bvalid \in BOOLEAN :
          /\ WrTick(wr_req_valid, w_addr, w_lines, arb_wline(accel_wline),
                    awready, wready, bvalid)
          /\ LastChance => wready
    BY NextEdge DEF Edge
  <1>t. /\ wr_beat \in Nat /\ wr_beat <= BEATS_PER_LINE - 1 /\ wr_sent \in Nat
        /\ wr_lines_s \in Nat \ {0} /\ BEATS_PER_LINE \in Nat /\ BEATS_PER_LINE >= 2
        /\ wr_tmo \in Nat /\ TIMEOUT_LIMIT \in Nat /\ TIMEOUT_LIMIT >= 1
        /\ wr_fifo_ahead \in BOOLEAN /\ wr_next \in BOOLEAN
    BY WrBeatsAssumption, WrTimeoutAssumption DEF TxInv, WrTypes, Beats
  <1>2. CASE wr_state = "WR_DATA"
    <2>1. wr_fifo_ahead => ~wr_expired
      BY <1>t DEF AheadInv, wr_expired
    <2>2. \/ WrTimeout /\ ~wr_fifo_ahead
          \/ WrDataWait(wr_req_valid, wready, arb_wline(accel_wline))
          \/ WrBeat(wr_req_valid, wready, arb_wline(accel_wline))
      BY <1>1, <1>2, <2>1, Zenon
      DEF WrTick, WrLostResponse, WrTimeout, WrIdle, WrStart, WrAddr, WrResp, WrDone,
          wr_bresp_only
    <2>3. CASE WrTimeout /\ ~wr_fifo_ahead
      BY <1>t, <2>3, Zenon DEF AheadInv, WrTimeout
    <2>4. CASE WrDataWait(wr_req_valid, wready, arb_wline(accel_wline))
      <3>1. /\ ~wr_next' /\ wr_fifo_ahead' = wr_fifo_ahead /\ ~wready
            /\ wr_resume_hold' = wr_resume_hold
            /\ UNCHANGED <<wr_state, wr_beat, wr_sent, wr_lines_s>>
        BY <2>4, Zenon DEF WrDataWait
      <3>2. wr_tmo' \in {0, wr_tmo + 1}
        BY <2>4, Zenon DEF WrDataWait, WrTmo
      <3>3. wr_fifo_ahead => wr_tmo + 1 < TIMEOUT_LIMIT
        BY <1>1, <1>2, <1>t, <3>1 DEF LastChance, m_axi_wvalid
      <3>4. wr_fifo_ahead' => wr_tmo' < TIMEOUT_LIMIT
        BY <1>t, <3>1, <3>2, <3>3
      <3> QED BY <1>t, <3>1, <3>4, Zenon DEF AheadInv
    <2>5. CASE WrBeat(wr_req_valid, wready, arb_wline(accel_wline))
      <3> DEFINE ask == wr_beat = BEATS_PER_LINE - 2 /\ wr_sent + 1 < wr_lines_s
      <3>1. wr_next' = ask /\ wr_lines_s' = wr_lines_s /\ wr_beat' = NextWrBeat
        BY <2>5, Zenon DEF WrBeat
      <3>2. wr_sent' = IF wr_beat = BEATS_PER_LINE - 1 THEN wr_sent + 1 ELSE wr_sent
        BY <2>5, Zenon DEF WrBeat
      <3>3. wr_state' = IF wr_beat = BEATS_PER_LINE - 1 /\ wr_sent = wr_lines_s - 1
                          THEN "WR_RESP" ELSE "WR_DATA"
        BY <2>5, Zenon DEF WrBeat, m_axi_wlast
      <3>4. wr_tmo' = 0 /\ wr_tmo' < TIMEOUT_LIMIT
        <4>1. wr_tmo' = 0
          BY <2>5, Zenon DEF WrBeat, WrTmo
        <4> QED BY <1>t, <4>1
      <3>5. wr_fifo_ahead => wr_beat = BEATS_PER_LINE - 1
        BY <1>2, Zenon DEF AheadInv
      <3>6. wr_fifo_ahead' = ask
        BY <1>t, <2>5, <3>5, Zenon DEF WrBeat
      <3>7. wr_resume_hold' = FALSE
        BY <2>5, ZenonT(30) DEF WrBeat, AheadInv
      <3>8. ask <=> /\ wr_state' = "WR_DATA" /\ wr_beat' = BEATS_PER_LINE - 1
                    /\ wr_sent' + 1 < wr_lines_s'
        BY <1>t, <3>1, <3>2, <3>3 DEF NextWrBeat
      <3> QED BY <1>t, <3>1, <3>4, <3>6, <3>7, <3>8, Zenon DEF AheadInv
    <2> QED BY <2>2, <2>3, <2>4, <2>5, Zenon
  <1>3. CASE wr_state # "WR_DATA"
    <2>1. ~wr_next /\ ~wr_fifo_ahead /\ ~wr_resume_hold
      BY <1>3, <1>t, Zenon DEF AheadInv
    <2>2. /\ wr_next' = FALSE /\ wr_fifo_ahead' = FALSE /\ wr_resume_hold' = FALSE
          /\ wr_state' = "WR_DATA" => wr_beat' = wr_beat /\ wr_state = "WR_ADDR"
      BY <1>1, <1>3, <1>t, <2>1, ZenonT(30)
      DEF WrTick, WrLostResponse, WrTimeout, WrIdle, WrStart, WrAddr, WrDataWait, WrBeat,
          WrResp, WrDone, TxInv, WrTypes
    <2>3. wr_state' = "WR_DATA" => wr_beat' = 0
      BY <2>2, Zenon DEF TxInv, EngineInv, EngineAddr
    <2> QED BY <1>t, <2>2, <2>3 DEF AheadInv
  <1> QED BY <1>2, <1>3, Zenon

\* The line that leaves the FIFO at this edge: inside a burst or at its end.
Pops == w_state = "W_A" /\ (wr_next \/ wr_state = "WR_DONE")

\* BurstPopped counts the lines that left the FIFO: one at each wr_next inside a
\* burst, none at a grant, a retry, a beat or a timeout.
LEMMA BurstPoppedStep ==
  ASSUME TxInv, AheadInv, Next, ~TimeoutsInsideLine
  PROVE  /\ ~(w_state = "W_A" /\ wr_state = "WR_DONE") =>
              BurstPopped' = BurstPopped + IF Pops THEN 1 ELSE 0
         /\ w_state = "W_A" /\ wr_state = "WR_DONE" =>
              BurstPopped' = 0 /\ BurstPopped = w_lines - 1
         /\ w_state # "W_A" => BurstPopped = 0
         /\ BurstPopped' \in Nat /\ BurstPopped \in Nat
  <1>1. PICK awready, wready, bvalid \in BOOLEAN :
          WrTick(wr_req_valid, w_addr, w_lines, arb_wline(accel_wline),
                 awready, wready, bvalid)
    BY NextEdge DEF Edge
  <1>2. ArbEdge
    BY NextEdge DEF Edge, ArbEdge
  <1>t. /\ wr_beat \in Nat /\ wr_beat <= BEATS_PER_LINE - 1 /\ wr_sent \in Nat
        /\ w_lines \in Nat \ {0} /\ BEATS_PER_LINE \in Nat /\ BEATS_PER_LINE >= 2
        /\ wr_tmo \in Nat /\ TIMEOUT_LIMIT \in Nat /\ TIMEOUT_LIMIT >= 1
        /\ wr_fifo_ahead \in BOOLEAN /\ wr_next \in BOOLEAN
        /\ wr_state \in WrStates /\ wr_retrying \in BOOLEAN
    BY WrBeatsAssumption, WrTimeoutAssumption DEF TxInv, WrTypes, PathTypes, Beats
  <1>o. /\ Overtaken \in {0, 1}
        /\ wr_state # "WR_DATA" => Overtaken = 0 /\ ~wr_next
    BY <1>t, Zenon DEF Overtaken, AheadInv
  <1>o2. Overtaken \in Nat
    BY <1>o
  <1>n. BurstPopped \in Nat
    BY <1>t, <1>o2 DEF BurstPopped
  \* The engine is not ahead outside the data phase, now or after this edge.
  <1>p. AheadInv'
    BY AheadStep, Zenon
  <1>q. wr_state' # "WR_DATA" => Overtaken' = 0
    BY <1>p, Zenon DEF Overtaken, AheadInv
  <1>3. CASE w_state # "W_A"
    <2>1. w_state' = "W_A" => w_state = "W_IDLE"
      BY <1>2, <1>3, ArbHolds, Zenon
    <2>2. w_state = "W_IDLE" => wr_state = "WR_IDLE" /\ ~wr_retrying
      BY <1>t, Zenon DEF TxInv, EngineInv, EngineIdle, EngineAddr, EngineData, EngineEnd,
         SameRequest, WrStates
    <2>3. w_state' = "W_A" => ~Started'
      BY <1>1, <2>1, <2>2, ZenonT(30)
      DEF WrTick, WrLostResponse, WrTimeout, WrIdle, WrStart, WrAddr, WrDataWait,
          WrBeat, WrResp, WrDone, wr_expired, wr_eligible, wr_req_valid, Started
    <2> QED BY <1>3, <1>n, <2>3 DEF BurstPopped, Pops
  <1>4. CASE w_state = "W_A" /\ wr_state = "WR_DONE"
    <2>1. w_state' = "W_IDLE"
      BY <1>2, <1>4, ArbHolds, Zenon
    <2>2. wr_sent = w_lines
      BY <1>4, Zenon DEF TxInv, EngineInv, EngineEnd, SameRequest
    <2> QED BY <1>4, <1>n, <1>t, <2>1, <2>2 DEF BurstPopped, Started
  <1>5. CASE w_state = "W_A" /\ wr_state # "WR_DONE"
    <2>1. w_state' = "W_A" /\ w_lines' = w_lines
      BY <1>2, <1>5, ArbHolds, ZenonT(30)
    <2>2. CASE wr_state = "WR_IDLE"
      <3>1. ~wr_next
        BY <1>t, <2>2, Zenon DEF AheadInv
      <3>2. ~wr_served /\ (wr_retrying => wr_sent < w_lines)
        BY <1>5, <2>2, ZenonT(30) DEF TxInv, EngineInv, EngineIdle
      <3>o. Overtaken = 0
        BY <1>o, <2>2
      <3>3. /\ wr_state' = "WR_ADDR"
            /\ IF wr_retrying THEN wr_sent' = wr_sent ELSE wr_sent' = 0
        BY <1>1, <1>5, <2>2, <3>2, ZenonT(30)
        DEF WrTick, WrLostResponse, WrTimeout, WrIdle, WrStart, WrAddr, WrDataWait,
            WrBeat, WrResp, WrDone, wr_expired, wr_eligible, wr_req_valid
      <3>4. Overtaken' = 0
        BY <1>q, <3>3
      <3> QED BY <1>5, <1>t, <1>n, <2>1, <2>2, <3>o, <3>1, <3>2, <3>3, <3>4
        DEF BurstPopped, Started, Pops
    <2>3. CASE wr_state = "WR_DATA"
      <3>1. wr_lines_s = w_lines /\ wr_sent < w_lines
        BY <2>3, ZenonT(30) DEF TxInv, EngineInv, EngineData, SameRequest
      <3>2. wr_fifo_ahead => ~wr_expired
        BY <1>t DEF AheadInv, wr_expired
      <3>n. wr_next => wr_fifo_ahead
        BY Zenon DEF AheadInv
      <3>b. BurstPopped = wr_sent + Overtaken
        BY <1>5, <2>3, <3>1, Zenon DEF BurstPopped, Started
      <3>p. Pops <=> wr_next
        BY <1>5, Zenon DEF Pops
      <3>3. \/ WrTimeout /\ ~wr_fifo_ahead
            \/ WrDataWait(wr_req_valid, wready, arb_wline(accel_wline))
            \/ WrBeat(wr_req_valid, wready, arb_wline(accel_wline))
        BY <1>1, <2>3, <3>2, Zenon
        DEF WrTick, WrLostResponse, WrTimeout, WrIdle, WrStart, WrAddr, WrResp, WrDone,
            wr_bresp_only
      <3>4. CASE WrTimeout /\ ~wr_fifo_ahead
        <4>1. wr_sent' = wr_sent /\ Started' /\ Overtaken' = 0 /\ Overtaken = 0 /\ ~wr_next
          BY <3>4, <3>n, Zenon DEF WrTimeout, Started, Overtaken
        <4>2. BurstPopped' = wr_sent + 0
          BY <2>1, <3>1, <4>1, Zenon DEF BurstPopped
        <4> QED BY <1>5, <1>n, <1>t, <3>b, <3>p, <4>1, <4>2
      <3>5. CASE WrDataWait(wr_req_valid, wready, arb_wline(accel_wline))
        <4>1. /\ wr_sent' = wr_sent /\ Started' /\ ~wr_next'
              /\ wr_fifo_ahead' = wr_fifo_ahead
          BY <3>5, Zenon DEF WrDataWait, Started
        <4>2. Overtaken' = Overtaken + IF wr_next THEN 1 ELSE 0
          BY <1>t, <3>n, <4>1 DEF Overtaken
        <4>3. BurstPopped' = wr_sent + Overtaken'
          BY <2>1, <3>1, <4>1, Zenon DEF BurstPopped
        <4> QED BY <1>5, <1>n, <1>o, <1>t, <3>b, <3>p, <4>2, <4>3
      <3>6. CASE WrBeat(wr_req_valid, wready, arb_wline(accel_wline))
        <4>1. wr_state' \in {"WR_DATA", "WR_RESP"} /\ Started'
          BY <3>6, Zenon DEF WrBeat, Started
        <4>2. wr_sent' = IF wr_beat = BEATS_PER_LINE - 1 THEN wr_sent + 1 ELSE wr_sent
          BY <3>6, Zenon DEF WrBeat
        <4>3. wr_fifo_ahead <=> wr_beat = BEATS_PER_LINE - 1 /\ wr_sent + 1 < w_lines
          BY <2>3, <3>1, ZenonT(30) DEF AheadInv
        \* A beat that puts the requester ahead is the one that pulses wr_next.
        <4>4. Overtaken' = 0
          <5>1. wr_fifo_ahead' => wr_next'
            BY <3>6, <4>3, Zenon DEF WrBeat
          <5> QED BY <5>1, Zenon DEF Overtaken
        <4>5. BurstPopped' = IF wr_sent' < w_lines THEN wr_sent' + 0 ELSE w_lines - 1
          BY <2>1, <4>1, <4>4, Zenon DEF BurstPopped
        <4>6. wr_fifo_ahead => Overtaken = IF wr_next THEN 0 ELSE 1
          BY Zenon DEF Overtaken
        <4>7. ~wr_fifo_ahead => Overtaken = 0
          BY Zenon DEF Overtaken
        <4> QED BY <1>5, <1>t, <1>n, <3>1, <3>n, <3>b, <3>p, <4>2, <4>3, <4>5, <4>6, <4>7
      <3> QED BY <3>3, <3>4, <3>5, <3>6, ZenonT(30)
    <2>4. CASE wr_state \in {"WR_ADDR", "WR_RESP"}
      <3>1. ~wr_next
        BY <1>t, <2>4, Zenon DEF AheadInv
      <3>2. wr_sent' = wr_sent /\ Started'
        BY <1>1, <2>4, Zenon
        DEF WrTick, WrLostResponse, WrTimeout, WrIdle, WrStart, WrAddr, WrDataWait,
            WrBeat, WrResp, WrDone, Started
      <3>3. Overtaken = 0
        BY <1>o, <2>4
      <3>4. wr_sent < w_lines => Overtaken' = 0
        <4>1. wr_state' = "WR_DATA" => wr_beat' = wr_beat /\ wr_beat = 0
          BY <1>1, <2>4, Zenon
          DEF WrTick, WrLostResponse, WrTimeout, WrIdle, WrStart, WrAddr, WrDataWait,
              WrBeat, WrResp, WrDone, TxInv, EngineInv, EngineAddr
        <4>2. wr_state' = "WR_DATA" => ~wr_fifo_ahead'
          BY <1>p, <1>t, <4>1 DEF AheadInv
        <4> QED BY <1>q, <4>2, Zenon DEF Overtaken
      <3> QED BY <1>5, <1>t, <1>n, <2>1, <2>4, <3>1, <3>2, <3>3, <3>4, SMTT(30)
        DEF BurstPopped, Started, Pops
    <2> QED BY <1>5, <1>t, <2>2, <2>3, <2>4, Zenon DEF WrStates
  <1> QED BY <1>3, <1>4, <1>5, ZenonT(30)

\* A queue that loses its head or not, and then takes what the register holds.
LEMMA QueueStep ==
  ASSUME NEW S, NEW f \in Seq(S), NEW r \in Seq(S), Len(r) <= 1,
         NEW p \in {0, 1}, p <= Len(f),
         NEW g, g = (IF p = 1 THEN Tail(f) ELSE f) \o r
  PROVE  /\ g \in Seq(S)
         /\ Len(g) = Len(f) - p + Len(r)
         /\ \A i \in 1 .. Len(g) :
              g[i] = IF i + p <= Len(f) THEN f[i + p] ELSE r[1]
  <1> DEFINE h == IF p = 1 THEN Tail(f) ELSE f
  <1>1. h \in Seq(S) /\ Len(h) = Len(f) - p /\ \A i \in 1 .. Len(h) : h[i] = f[i + p]
    <2>1. CASE p = 1
      <3>1. f # <<>>
        BY <2>1
      <3> QED BY <2>1, <3>1
    <2>2. CASE p = 0
      BY <2>2
    <2> QED BY <2>1, <2>2, Zenon
  <1> HIDE DEF h
  <1>2. g = h \o r
    BY Zenon DEF h
  <1>3. g \in Seq(S) /\ Len(g) = Len(h) + Len(r)
    BY <1>1, <1>2
  <1>4. \A i \in 1 .. Len(g) : g[i] = IF i <= Len(h) THEN h[i] ELSE r[i - Len(h)]
    BY <1>1, <1>2, <1>3, SMTT(30)
  <1>5. ASSUME NEW i \in 1 .. Len(g)
        PROVE  g[i] = IF i + p <= Len(f) THEN f[i + p] ELSE r[1]
    <2>1. CASE i <= Len(h)
      BY <1>1, <1>4, <2>1
    <2>2. CASE ~(i <= Len(h))
      <3>1. i - Len(h) = 1 /\ ~(i + p <= Len(f))
        BY <1>1, <1>3, <2>2
      <3> QED BY <1>4, <2>2, <3>1, Zenon
    <2> QED BY <2>1, <2>2, Zenon
  <1> QED BY <1>1, <1>3, <1>5, Zenon

\* The accelerator's queue at a clock edge: the write port's pulses pop it while
\* a store runs, and it drains by itself while none does.
LEMMA QueueEdge ==
  ASSUME TxInv, FifoInv, Next
  PROVE  /\ lineFifo' \in Seq(TileLines) /\ fillReg' \in Seq(TileLines)
         /\ Len(fillReg') <= 1 /\ tile' \in {0, 1}
         /\ fillReg' = IF fillFire THEN << <<"A", tile, fillGrp>> >> ELSE <<>>
         /\ dmaBusy \/ lineFifo = <<>> =>
              lineFifo' = (IF Pops /\ lineFifo # <<>>
                             THEN Tail(lineFifo) ELSE lineFifo) \o fillReg
  <1>1. PICK start, softRst, contig \in BOOLEAN, dest \in Dests :
          DmaTick(start, dest, contig, softRst, accel_wnext(wr_next),
                  accel_wr_ready(wr_ready), <<"A", tile, fillGrp>>)
    BY NextEdge DEF Edge
  <1>2. LineFifo(accel_wnext(wr_next), accel_wr_ready(wr_ready), <<"A", tile, fillGrp>>)
    BY <1>1, Zenon DEF DmaTick
  <1>3. /\ lineFifo \in Seq(TileLines) /\ fillReg \in Seq(TileLines)
        /\ Len(fillReg) <= 1 /\ tile \in {0, 1}
    BY Zenon DEF FifoInv
  <1>4. fillReg' = IF fillFire THEN << <<"A", tile, fillGrp>> >> ELSE <<>>
    BY <1>2, Zenon DEF LineFifo
  <1>5. fillReg' \in Seq(TileLines) /\ Len(fillReg') <= 1
    <2>1. fillGrp \in Nat
      BY DmaAssumption DEF TxInv, DmaTypes
    <2>2. <<"A", tile, fillGrp>> \in TileLines
      BY <1>3, <2>1, Zenon DEF TileLines
    <2>3. CASE fillFire
      BY <1>4, <2>2, <2>3
    <2>4. CASE ~fillFire
      BY <1>4, <2>4, SMTT(30)
    <2> QED BY <2>3, <2>4, Zenon
  <1>6. tile' \in {0, 1}
    BY <1>1, <1>3 DEF DmaTick, DmaSoftReset, DmaStart, DmaBurstDone
  <1>7. lineFifo' \in Seq(TileLines)
    <2> DEFINE h == IF fifoPop(accel_wnext(wr_next), accel_wr_ready(wr_ready))
                       /\ lineFifo # <<>>
                      THEN Tail(lineFifo) ELSE lineFifo
    <2>1. h \in Seq(TileLines)
      BY <1>3
    <2>2. lineFifo' = h \o fillReg
      BY <1>2, Zenon DEF LineFifo
    <2> HIDE DEF h
    <2> QED BY <1>3, <2>1, <2>2
  <1>8. ASSUME dmaBusy \/ lineFifo = <<>>
        PROVE  lineFifo' = (IF Pops /\ lineFifo # <<>>
                             THEN Tail(lineFifo) ELSE lineFifo) \o fillReg
    <2>1. dmaBusy => (fifoPop(accel_wnext(wr_next), accel_wr_ready(wr_ready)) <=> Pops)
      BY Zenon DEF fifoPop, accel_wnext, accel_wr_ready, wr_ready, Pops
    <2> QED BY <1>2, <1>8, <2>1, Zenon DEF LineFifo
  <1> QED BY <1>3, <1>4, <1>5, <1>6, <1>7, <1>8, Zenon

\* What one edge of the store engine does to its registers.
LEMMA DmaEdge ==
  ASSUME TxInv, TileInv, Next
  PROVE  \/ \* SOFT_RST
            ~dmaBusy' /\ ~dmaDone' /\ w_state # "W_A" /\ ~dmaDrive
         \/ \* a start
            /\ ~dmaBusy /\ lineFifo = <<>> /\ fillReg = <<>>
            /\ dmaBusy' /\ ~dmaDone' /\ dmaSent' = 0
            /\ destAddr' \in Dests /\ dmaAddr' = destAddr' /\ dmaRowBase' = destAddr'
            /\ destContig' \in BOOLEAN
            /\ fillGrp' = 0 /\ fillLeft' = NGroups
         \/ \* the end of the last burst
            /\ dmaBusy /\ w_state = "W_A" /\ wr_state = "WR_DONE"
            /\ dmaSent + wBurstLines >= NGroups
            /\ ~dmaBusy' /\ dmaDone'
            /\ UNCHANGED <<destAddr, destContig, tile>>
         \/ \* the end of another burst
            /\ dmaBusy /\ w_state = "W_A" /\ wr_state = "WR_DONE"
            /\ dmaSent + wBurstLines < NGroups
            /\ dmaBusy' /\ ~dmaDone' /\ dmaSent' = dmaSent + wBurstLines
            /\ dmaAddr' = dmaRowBase + DestStride /\ dmaRowBase' = dmaRowBase + DestStride
            /\ UNCHANGED <<destAddr, destContig, tile>> /\ Fill
         \/ \* any other cycle
            /\ ~(w_state = "W_A" /\ wr_state = "WR_DONE")
            /\ UNCHANGED <<dmaBusy, dmaDone, destAddr, destContig, dmaAddr, dmaRowBase,
                           dmaSent, tile>>
            /\ Fill
  <1>1. PICK start, softRst, contig \in BOOLEAN, dest \in Dests :
          /\ DmaTick(start, dest, contig, softRst, accel_wnext(wr_next),
                     accel_wr_ready(wr_ready), <<"A", tile, fillGrp>>)
          /\ start => StoreReady
          /\ softRst => ResetAllowed
    BY NextEdge DEF Edge
  <1>2. w_state = "W_A" => dmaBusy
    BY Zenon DEF TileInv, BurstInv
  <1>3. dmaBusy => ~dmaDone
    BY Zenon DEF TileInv, StoreInv
  <1>t. /\ dmaSent \in Nat /\ wBurstLines \in Nat /\ NGroups \in Nat
        /\ dmaBusy \in BOOLEAN /\ dmaDone \in BOOLEAN
    BY DmaAssumption, Zenon DEF TxInv, DmaTypes, wBurstLines
  <1>4. CASE softRst
    BY <1>1, <1>4, Zenon DEF DmaTick, DmaSoftReset, ResetAllowed
  <1>5. CASE ~softRst /\ start
    BY <1>1, <1>5, Zenon DEF DmaTick, DmaStart, StoreReady
  <1>6. CASE ~softRst /\ ~start /\ dmaBusy /\ accel_wr_ready(wr_ready)
    <2>1. DmaBurstDone /\ Fill
      BY <1>1, <1>6, Zenon DEF DmaTick
    <2>2. w_state = "W_A" /\ wr_state = "WR_DONE"
      BY <1>6, Zenon DEF accel_wr_ready, wr_ready
    <2>3. CASE dmaSent + wBurstLines >= NGroups
      BY <1>6, <2>1, <2>2, <2>3, ZenonT(30) DEF DmaBurstDone
    <2>4. CASE ~(dmaSent + wBurstLines >= NGroups)
      BY <1>3, <1>6, <1>t, <2>1, <2>2, <2>4 DEF DmaBurstDone
    <2> QED BY <2>3, <2>4, Zenon
  <1>7. CASE ~softRst /\ ~start /\ ~(dmaBusy /\ accel_wr_ready(wr_ready))
    <2>1. /\ UNCHANGED <<dmaBusy, dmaDone, destAddr, destContig, dmaAddr, dmaRowBase,
                         dmaSent, tile>>
          /\ Fill
      BY <1>1, <1>7, Zenon DEF DmaTick
    <2>2. ~(w_state = "W_A" /\ wr_state = "WR_DONE")
      BY <1>2, <1>7, Zenon DEF accel_wr_ready, wr_ready
    <2> QED BY <2>1, <2>2, Zenon
  <1> QED BY <1>4, <1>5, <1>6, <1>7, ZenonT(30)

\* Reading the accumulators out never waits for room, so while groups are left
\* one is read in every cycle.
LEMMA FillRuns ==
  ASSUME TxInv, TileInv, dmaBusy
  PROVE  fillFire <=> fillLeft # 0
  <1>1. /\ Popped + Len(lineFifo) + Len(fillReg) + fillLeft = NGroups
        /\ fillLeft = NGroups \/ fillLeft = 0 \/ Len(fillReg) = 1
    BY Zenon DEF TileInv, FifoInv
  <1>2. Len(lineFifo) \in Nat /\ Len(fillReg) \in Nat
    BY DEF TileInv, FifoInv
  <1>3. BurstPopped \in Nat
    BY DEF TxInv, WrTypes, PathTypes, BurstPopped, Overtaken
  <1>4. Popped \in Nat /\ fillLeft \in Nat
    BY <1>3 DEF TxInv, DmaTypes, Popped
  <1> QED BY <1>1, <1>2, <1>4, DmaAssumption, SMTT(30) DEF fillFire

\* Over a cycle in which the store stays busy, the queue moves on by the line that
\* was popped, whether inside a burst or at its end.
LEMMA PoppedStep ==
  ASSUME TxInv, TileInv, Next, ~TimeoutsInsideLine, dmaBusy, dmaBusy'
  PROVE  /\ Popped \in Nat
         /\ Popped' = Popped + (IF Pops THEN 1 ELSE 0)
         /\ tile' = tile /\ Fill
         /\ Pops => Len(lineFifo) > 0
  <1>1. AheadInv
    BY Zenon DEF TileInv
  <1>2. /\ dmaSent \in Nat /\ w_lines \in Nat \ {0} /\ BurstPopped \in Nat
    BY <1>1, BurstPoppedStep, Zenon DEF TxInv, DmaTypes, PathTypes
  <1>3. Pops => Len(lineFifo) > 0
    BY Zenon DEF Pops, TileInv, BurstInv
  <1>4. CASE w_state = "W_A" /\ wr_state = "WR_DONE"
    <2>1. BurstPopped' = 0 /\ BurstPopped = w_lines - 1
      BY <1>1, <1>4, BurstPoppedStep, Zenon
    <2>2. w_lines = wBurstLines
      BY <1>4, Zenon DEF TileInv, BurstInv
    <2>3. dmaSent' = dmaSent + wBurstLines /\ tile' = tile /\ Fill
      BY <1>4, DmaEdge, Zenon
    <2> QED BY <1>2, <1>3, <1>4, <2>1, <2>2, <2>3 DEF Popped, Pops
  <1>5. CASE ~(w_state = "W_A" /\ wr_state = "WR_DONE")
    <2>1. BurstPopped' = BurstPopped + IF Pops THEN 1 ELSE 0
      BY <1>1, <1>5, BurstPoppedStep, Zenon
    <2>2. dmaSent' = dmaSent /\ tile' = tile /\ Fill
      BY <1>5, DmaEdge, Zenon
    <2> QED BY <1>2, <1>3, <2>1, <2>2 DEF Popped
  <1> QED BY <1>4, <1>5, Zenon

\* The queue keeps the lines of the tile in order.
LEMMA FifoStep ==
  ASSUME TxInv, TileInv, Next, ~TimeoutsInsideLine
  PROVE  FifoInv'
  <1>1. FifoInv
    BY Zenon DEF TileInv
  <1>2. /\ lineFifo' \in Seq(TileLines) /\ fillReg' \in Seq(TileLines)
        /\ Len(fillReg') <= 1 /\ tile' \in {0, 1}
        /\ fillReg' = IF fillFire THEN << <<"A", tile, fillGrp>> >> ELSE <<>>
        /\ dmaBusy \/ lineFifo = <<>> =>
             lineFifo' = (IF Pops /\ lineFifo # <<>>
                            THEN Tail(lineFifo) ELSE lineFifo) \o fillReg
    BY <1>1, QueueEdge, Zenon
  <1>3. CASE ~dmaBusy'
    BY <1>2, <1>3, ZenonT(30) DEF FifoInv
  <1>4. CASE dmaBusy' /\ ~dmaBusy
    <2>1. /\ lineFifo = <<>> /\ fillReg = <<>> /\ dmaSent' = 0
          /\ fillGrp' = 0 /\ fillLeft' = NGroups
      BY <1>4, DmaEdge, Zenon
    <2>2. lineFifo' = <<>> /\ fillReg' = <<>>
      BY <1>2, <1>4, <2>1 DEF fillFire
    <2>3. w_state # "W_A"
      BY <1>4, Zenon DEF TileInv, BurstInv
    <2>4. BurstPopped' = 0
      BY <2>3, BurstPoppedStep DEF TileInv, Pops
    <2>5. Popped' = 0
      BY <2>1, <2>4 DEF Popped
    <2>6. NGroups \in Nat /\ Len(lineFifo') = 0 /\ Len(fillReg') = 0
      BY <2>2, DmaAssumption, Zenon
    <2> QED BY <1>2, <2>1, <2>5, <2>6 DEF FifoInv
  <1>5. CASE dmaBusy' /\ dmaBusy
    <2>1. /\ Popped \in Nat
          /\ Popped' = Popped + (IF Pops THEN 1 ELSE 0)
          /\ tile' = tile /\ Fill
          /\ Pops => Len(lineFifo) > 0
      BY <1>5, PoppedStep, Zenon
    <2> DEFINE p == IF Pops THEN 1 ELSE 0
               n == Len(lineFifo)
               r == Len(fillReg)
    <2>a. /\ lineFifo \in Seq(TileLines) /\ fillReg \in Seq(TileLines)
          /\ Len(fillReg) <= 1
      BY <1>1, Zenon DEF FifoInv
    <2>b. n \in Nat /\ r \in {0, 1}
      <3>1. n \in Nat /\ r \in Nat /\ r <= 1
        BY <2>a
      <3> HIDE DEF r
      <3> QED BY <3>1
    <2>2. /\ Popped + n + r + fillLeft = NGroups
          /\ \A i \in 1 .. n : lineFifo[i] = <<"A", tile, Popped + i - 1>>
          /\ r = 1 => fillReg[1] = <<"A", tile, Popped + n>>
          /\ fillLeft > 0 => fillGrp = NGroups - fillLeft
      BY <1>1, <1>5, Zenon DEF FifoInv
    <2>3. p \in {0, 1} /\ p <= n /\ Popped' = Popped + p
      BY <2>1, <2>b
    <2>4. lineFifo' = (IF p = 1 THEN Tail(lineFifo) ELSE lineFifo) \o fillReg
      <3>1. Pops => lineFifo # <<>>
        BY <2>1
      <3> QED BY <1>2, <1>5, <3>1, SMTT(30)
    <2> HIDE DEF p
    <2>5. /\ Len(lineFifo') = n - p + r
          /\ \A i \in 1 .. Len(lineFifo') :
               lineFifo'[i] = IF i + p <= n THEN lineFifo[i + p] ELSE fillReg[1]
      BY <2>a, <2>3, <2>4, QueueStep
    <2>6. fillLeft \in Nat /\ fillGrp \in Nat /\ NGroups \in Nat \ {0}
      BY DmaAssumption DEF TxInv, DmaTypes
    <2>7. fillFire <=> fillLeft # 0
      BY <1>5, FillRuns, Zenon
    <2> HIDE DEF n, r
    <2>8. \A i \in 1 .. Len(lineFifo') :
            lineFifo'[i] = <<"A", tile', Popped' + i - 1>>
      <3> TAKE i \in 1 .. Len(lineFifo')
      <3>i. i \in Nat /\ 1 <= i /\ i <= n - p + r
        BY <2>b, <2>3, <2>5
      <3>1. CASE i + p <= n
        <4>1. lineFifo'[i] = lineFifo[i + p]
          BY <2>5, <3>1, Zenon
        <4>2. i + p \in 1 .. n /\ Popped + (i + p) - 1 = (Popped + p) + i - 1
          BY <2>1, <2>b, <2>3, <3>i, <3>1
        <4>3. lineFifo[i + p] = <<"A", tile, Popped + (i + p) - 1>>
          BY <2>2, <4>2, ZenonT(30)
        <4> QED BY <2>1, <2>3, <4>1, <4>2, <4>3, Zenon
      <3>2. CASE ~(i + p <= n)
        <4>1. lineFifo'[i] = fillReg[1]
          BY <2>5, <3>2, Zenon
        <4>2. r = 1 /\ Popped + n = (Popped + p) + i - 1
          BY <2>1, <2>b, <2>3, <3>i, <3>2
        <4> QED BY <2>1, <2>2, <2>3, <4>1, <4>2, SMTT(30)
      <3> QED BY <3>1, <3>2, Zenon
    <2>9. CASE fillLeft = 0
      <3>1. fillLeft' = 0 /\ fillReg' = <<>>
        BY <1>2, <2>1, <2>7, <2>9, Zenon DEF Fill
      <3>2. Len(fillReg') = 0
        BY <3>1, Zenon
      <3>a. (Popped + p) + (n - p + r) + 0 + 0 = NGroups
        BY <2>1, <2>2, <2>b, <2>3, <2>6, <2>9
      <3>3. Popped' + Len(lineFifo') + 0 + 0 = NGroups
        BY <2>3, <2>5, <3>a, Zenon
      <3> QED BY <1>2, <2>8, <3>1, <3>2, <3>3 DEF FifoInv
    <2>10. CASE fillLeft # 0
      <3>1. /\ fillLeft' = fillLeft - 1 /\ fillGrp' = (fillGrp + 1) % NGroups
            /\ fillReg' = << <<"A", tile, fillGrp>> >>
        BY <1>2, <2>1, <2>7, <2>10, Zenon DEF Fill
      <3>2. Len(fillReg') = 1 /\ fillReg'[1] = <<"A", tile, fillGrp>>
        BY <3>1, Zenon
      <3>a. /\ (Popped + p) + (n - p + r) + 1 + (fillLeft - 1) = NGroups
            /\ fillGrp = (Popped + p) + (n - p + r)
        BY <2>1, <2>2, <2>b, <2>3, <2>6, <2>10
      <3>3. Popped' + Len(lineFifo') + 1 + (fillLeft - 1) = NGroups
        BY <2>3, <2>5, <3>a, Zenon
      <3>4. fillGrp = Popped' + Len(lineFifo')
        BY <2>3, <2>5, <3>a, Zenon
      <3>5. fillLeft - 1 > 0 => fillGrp' = NGroups - (fillLeft - 1)
        <4>1. SUFFICES ASSUME fillLeft - 1 > 0
                       PROVE  (fillGrp + 1) % NGroups = NGroups - (fillLeft - 1)
          BY <3>1, ZenonT(30)
        <4>2. fillGrp + 1 = NGroups - (fillLeft - 1) /\ fillGrp + 1 < NGroups
          BY <2>2, <2>6, <4>1
        <4>3. (fillGrp + 1) % NGroups = fillGrp + 1
          BY <2>6, <4>2
        <4> QED BY <4>2, <4>3, Zenon
      <3> QED BY <1>2, <2>1, <2>8, <3>1, <3>2, <3>3, <3>4, <3>5, Zenon DEF FifoInv
    <2> QED BY <2>9, <2>10, Zenon
  <1> QED BY <1>3, <1>4, <1>5, Zenon

\* Rows of a strided tile follow each other at the stride, the next burst fits.
LEMMA StoreStep ==
  ASSUME TxInv, TileInv, Next
  PROVE  StoreInv'
  <1>t. /\ dmaSent \in Nat /\ dmaRowBase \in Nat /\ destAddr \in Nat
        /\ PerRow \in Nat \ {0} /\ NGroups \in Nat \ {0} /\ DestStride \in Nat
        /\ NGroups % PerRow = 0
    BY DmaAssumption, Zenon DEF TxInv, DmaTypes
  <1>1. CASE ~dmaBusy' /\ ~dmaDone'
    BY <1>1, Zenon DEF StoreInv
  <1>2. CASE ~dmaBusy' /\ dmaDone'
    <2>1. dmaBusy \/ dmaDone
      BY <1>2, DmaEdge, Zenon
    <2>2. destAddr' = destAddr
      BY <1>2, DmaEdge, Zenon
    <2> QED BY <1>2, <2>1, <2>2, Zenon DEF StoreInv, TileInv
  <1>3. CASE dmaBusy' /\ ~dmaBusy
    <2>1. /\ ~dmaDone' /\ dmaSent' = 0 /\ destContig' \in BOOLEAN
          /\ destAddr' \in Dests /\ dmaAddr' = destAddr' /\ dmaRowBase' = destAddr'
      BY <1>3, DmaEdge, Zenon
    <2>2. 0 % PerRow = 0 /\ 0 \div PerRow = 0
      BY <1>t
    <2>3. PerRow <= NGroups
      BY <1>t, <2>2, RowFits
    <2>4. dmaSent' + wBurstLines' <= NGroups
      BY <1>t, <2>1, <2>3 DEF wBurstLines
    <2>5. destAddr' = destAddr' + ((0 \div PerRow) * DestStride)
      <3>1. destAddr' \in Nat
        BY <2>1, PathAssumption, Zenon
      <3>2. \A d \in Nat : d = d + (0 * DestStride)
        BY <1>t
      <3> QED BY <2>2, <3>1, <3>2, Zenon
    <2> QED BY <2>1, <2>2, <2>4, <2>5, Zenon DEF StoreInv
  <1>4. CASE dmaBusy' /\ dmaBusy /\ w_state = "W_A" /\ wr_state = "WR_DONE"
    <2>1. /\ dmaSent + wBurstLines < NGroups
          /\ ~dmaDone' /\ dmaSent' = dmaSent + wBurstLines
          /\ dmaAddr' = dmaRowBase + DestStride /\ dmaRowBase' = dmaRowBase + DestStride
          /\ UNCHANGED <<destAddr, destContig, tile>>
      BY <1>4, DmaEdge, Zenon
    <2>2. /\ destAddr \in Dests
          /\ destContig => dmaSent = 0
          /\ ~destContig =>
               /\ dmaSent % PerRow = 0
               /\ dmaRowBase = destAddr + ((dmaSent \div PerRow) * DestStride)
      BY <1>4, Zenon DEF TileInv, StoreInv
    <2>3. ~destContig /\ wBurstLines = PerRow
      BY <1>t, <2>1, <2>2 DEF wBurstLines
    <2>4. /\ (dmaSent + PerRow) % PerRow = 0
          /\ (dmaSent + PerRow) \div PerRow = (dmaSent \div PerRow) + 1
      BY <1>t, <2>2, <2>3, NextRow, Zenon
    <2>5. (dmaSent + PerRow) + PerRow <= NGroups
      <3> DEFINE u == dmaSent + PerRow
      <3>1. u \in Nat /\ u % PerRow = 0 /\ u < NGroups
        BY <1>t, <2>1, <2>3, <2>4
      <3> HIDE DEF u
      <3>2. u + PerRow <= NGroups
        BY <3>1, RowFits, Zenon
      <3> QED BY <3>2, Zenon DEF u
    <2>6. dmaRowBase + DestStride
            = destAddr + (((dmaSent + PerRow) \div PerRow) * DestStride)
      <3> DEFINE q == dmaSent \div PerRow
      <3>1. q \in Nat
        BY <1>t, Division, Zenon
      <3>2. dmaRowBase = destAddr + (q * DestStride)
        BY <2>2, <2>3, ZenonT(30)
      <3> HIDE DEF q
      <3>3. (q + 1) * DestStride = (q * DestStride) + DestStride
        BY <1>t, <3>1
      <3>4. q * DestStride \in Nat
        BY <1>t, <3>1
      <3>5. dmaRowBase + DestStride = destAddr + ((q + 1) * DestStride)
        BY <1>t, <3>2, <3>3, <3>4
      <3> QED BY <2>4, <3>5, Zenon DEF q
    <2> QED BY <2>1, <2>2, <2>3, <2>4, <2>5, <2>6, Zenon DEF StoreInv, wBurstLines
  <1>5. CASE dmaBusy' /\ dmaBusy /\ ~(w_state = "W_A" /\ wr_state = "WR_DONE")
    <2>1. UNCHANGED <<dmaBusy, dmaDone, destAddr, destContig, dmaAddr, dmaRowBase, dmaSent>>
      BY <1>5, DmaEdge, Zenon
    <2> QED BY <1>5, <2>1, Zenon DEF StoreInv, TileInv, wBurstLines
  <1>6. dmaBusy' \in BOOLEAN /\ dmaDone' \in BOOLEAN
    BY DmaTypesStep, Zenon DEF DmaTypes
  <1> QED BY <1>1, <1>2, <1>3, <1>4, <1>5, <1>6, Zenon

\* At most one line is wanted before another has followed it into the queue.
LEMMA QueueStaysFilled ==
  ASSUME TxInv, TileInv, Next, ~TimeoutsInsideLine,
         dmaBusy, dmaBusy', Len(lineFifo) > 0,
         ~(w_state = "W_A" /\ wr_state = "WR_DONE")
  PROVE  Len(lineFifo') > 0
  <1> DEFINE p == IF Pops THEN 1 ELSE 0
             n == Len(lineFifo)
             r == Len(fillReg)
  <1>1. /\ lineFifo \in Seq(TileLines) /\ fillReg \in Seq(TileLines)
        /\ Len(fillReg) <= 1
    BY Zenon DEF TileInv, FifoInv
  <1>2. /\ Popped + n + r + fillLeft = NGroups
        /\ fillLeft = NGroups \/ fillLeft = 0 \/ r = 1
    BY Zenon DEF TileInv, FifoInv
  <1>3. lineFifo' = (IF p = 1 THEN Tail(lineFifo) ELSE lineFifo) \o fillReg
    <2>1. lineFifo # <<>>
      OBVIOUS
    <2> QED BY <2>1, QueueEdge, SMTT(30) DEF TileInv
  <1>4. n \in Nat /\ n > 0 /\ r \in Nat /\ r <= 1 /\ p \in {0, 1}
    BY <1>1
  <1>5. Pops => Popped + 1 < NGroups
    <2> SUFFICES ASSUME Pops PROVE Popped + 1 < NGroups
      BY Zenon
    <2>1. w_state = "W_A" /\ wr_next
      BY Zenon DEF Pops
    <2>2. wr_state = "WR_DATA" /\ wr_sent + 1 < wr_lines_s
      BY <2>1, Zenon DEF TileInv, AheadInv
    <2>o. Overtaken = 0
      BY <2>1, Zenon DEF Overtaken
    <2>3. wr_lines_s = w_lines
      BY <2>2, Zenon DEF TxInv, EngineInv, EngineData, SameRequest
    <2>4. w_lines = wBurstLines /\ dmaSent + wBurstLines <= NGroups
      BY <2>1, Zenon DEF TileInv, StoreInv, BurstInv
    <2>5. wr_sent \in Nat /\ w_lines \in Nat \ {0} /\ dmaSent \in Nat /\ NGroups \in Nat
      BY DmaAssumption, Zenon DEF TxInv, WrTypes, PathTypes, DmaTypes
    <2>6. Popped = dmaSent + wr_sent
      BY <2>1, <2>2, <2>3, <2>5, <2>o DEF Popped, BurstPopped, Started
    <2> QED BY <2>2, <2>3, <2>4, <2>5, <2>6
  <1>6. Popped \in Nat /\ fillLeft \in Nat /\ NGroups \in Nat
    BY PoppedStep, DmaAssumption, Zenon DEF TxInv, DmaTypes
  <1>7. p = 1 => Popped + 1 < NGroups
    BY <1>5, SMTT(30)
  <1> HIDE DEF p
  <1>8. Len(lineFifo') = n - p + r
    BY <1>1, <1>3, <1>4, QueueStep
  <1> HIDE DEF n, r
  <1>9. n - p + r > 0
    BY <1>2, <1>4, <1>6, <1>7
  <1> QED BY <1>8, <1>9, Zenon

\* In the data phase of a store, the line the engine sends is the group that
\* belongs at the slave's address: the head of the queue at a line's first beat,
\* the frozen copy after it, the line taken at the start in a burst of one.
LEMMA StoreSends ==
  ASSUME TxInv, TileInv, w_state = "W_A", wr_state = "WR_DATA"
  PROVE  /\ dmaSent + wr_sent \in 0 .. NGroups - 1
         /\ s_line = ResultAddr(destAddr, destContig, dmaSent + wr_sent)
         /\ m_axi_wdata(arb_wline(accel_wline)) = << <<"A", tile, dmaSent + wr_sent>>, wr_beat>>
         /\ w_lines > 1 /\ wr_beat = 0 =>
              arb_wline(accel_wline) = <<"A", tile, dmaSent + wr_sent>>
  <1>t. /\ dmaSent \in Nat /\ wr_sent \in Nat /\ w_lines \in Nat \ {0}
        /\ PerRow \in Nat \ {0} /\ NGroups \in Nat \ {0} /\ destAddr \in Nat
        /\ DestStride \in Nat /\ wr_beat \in Nat
    BY WrBeatsAssumption, DmaAssumption DEF TxInv, WrTypes, PathTypes, DmaTypes, Beats
  <1>1. wr_sent < w_lines /\ wr_lines_s = w_lines /\ s_line = w_addr + wr_sent
    BY Zenon DEF TxInv, EngineInv, EngineData, SameRequest
  <1>2. /\ dmaBusy /\ Len(lineFifo) > 0 /\ w_addr = dmaAddr /\ w_lines = wBurstLines
        /\ w_lines = 1 => wline_first = <<"A", tile, dmaSent>>
        /\ w_lines > 1 /\ wr_beat # 0 => wline_hold = <<"A", tile, dmaSent + wr_sent>>
    BY Zenon DEF TileInv, BurstInv, Started
  <1>3. /\ dmaSent + wBurstLines <= NGroups
        /\ destContig => dmaSent = 0 /\ dmaAddr = destAddr
        /\ ~destContig =>
             /\ dmaSent % PerRow = 0
             /\ dmaAddr = destAddr + ((dmaSent \div PerRow) * DestStride)
    BY <1>2, Zenon DEF TileInv, StoreInv
  <1>4. dmaSent + wr_sent \in 0 .. NGroups - 1
    BY <1>t, <1>1, <1>2, <1>3
  <1>5. s_line = ResultAddr(destAddr, destContig, dmaSent + wr_sent)
    <2>1. CASE destContig
      BY <1>t, <1>1, <1>2, <1>3, <2>1 DEF ResultAddr
    <2>2. CASE ~destContig
      <3>1. wr_sent \in 0 .. PerRow - 1
        BY <1>t, <1>1, <1>2, <2>2, SMTT(30) DEF wBurstLines
      <3>2. /\ (dmaSent + wr_sent) \div PerRow = dmaSent \div PerRow
            /\ (dmaSent + wr_sent) % PerRow = wr_sent
        BY <1>t, <1>3, <2>2, <3>1, RowOf, SMTT(30)
      <3>3. dmaSent \div PerRow \in Nat
        BY <1>t, Division, Zenon
      <3> DEFINE m == (dmaSent \div PerRow) * DestStride
      <3>4. m \in Nat
        BY <1>t, <3>3
      <3>5. s_line = (destAddr + m) + wr_sent
        BY <1>1, <1>2, <1>3, <2>2, Zenon
      <3>6. ResultAddr(destAddr, destContig, dmaSent + wr_sent) = destAddr + (m + wr_sent)
        BY <2>2, <3>2, Zenon DEF ResultAddr
      <3> HIDE DEF m
      <3> QED BY <1>t, <3>4, <3>5, <3>6
    <2> QED BY <2>1, <2>2, Zenon
  <1>6. w_lines > 1 /\ wr_beat = 0 =>
          arb_wline(accel_wline) = <<"A", tile, dmaSent + wr_sent>>
    <2> SUFFICES ASSUME w_lines > 1, wr_beat = 0
                 PROVE  arb_wline(accel_wline) = <<"A", tile, dmaSent + wr_sent>>
      BY ZenonT(30)
    <2>1. lineFifo \in Seq(TileLines) /\ lineFifo # <<>>
      BY <1>2 DEF TileInv, FifoInv
    <2>2. arb_wline(accel_wline) = lineFifo[1]
      BY <2>1 DEF arb_wline, accel_wline
    <2>a. Overtaken = 0
      <3>1. wr_beat # BEATS_PER_LINE - 1
        BY WrBeatsAssumption
      <3> QED BY <3>1, Zenon DEF Overtaken, TileInv, AheadInv
    <2>b. BurstPopped = wr_sent + 0
      BY <1>1, <2>a, ZenonT(30) DEF BurstPopped, Started
    <2>3. Popped = dmaSent + wr_sent
      BY <1>t, <2>b DEF Popped
    <2>4. lineFifo[1] = <<"A", tile, Popped + 1 - 1>>
      BY <1>2, <2>1 DEF TileInv, FifoInv
    <2> QED BY <1>t, <2>2, <2>3, <2>4
  <1>7. m_axi_wdata(arb_wline(accel_wline)) = << <<"A", tile, dmaSent + wr_sent>>, wr_beat>>
    <2>1. CASE w_lines = 1
      <3>1. dmaSent + wr_sent = dmaSent
        BY <1>t, <1>1, <2>1
      <3> QED BY <1>1, <1>2, <2>1, <3>1, Zenon DEF m_axi_wdata
    <2>2. CASE w_lines # 1 /\ wr_beat = 0
      <3>1. ~wr_resume_hold
        BY Zenon DEF TileInv, AheadInv
      <3> QED BY <1>t, <1>1, <1>6, <2>2, <3>1 DEF m_axi_wdata
    <2>3. CASE w_lines # 1 /\ wr_beat # 0
      <3>1. wline_hold = <<"A", tile, dmaSent + wr_sent>>
        BY <1>t, <1>2, <2>3
      <3> QED BY <1>1, <2>3, <3>1, Zenon DEF m_axi_wdata
    <2> QED BY <2>1, <2>2, <2>3, Zenon
  <1> QED BY <1>4, <1>5, <1>6, <1>7, ZenonT(30)

\* The burst stays the one that was granted, and the engine's copies of its lines
\* stay copies of the right lines.
LEMMA BurstStep ==
  ASSUME TxInv, TileInv, Next, ~TimeoutsInsideLine
  PROVE  BurstInv'
  <1>1. PICK awready, wready, bvalid \in BOOLEAN :
          WrTick(wr_req_valid, w_addr, w_lines, arb_wline(accel_wline),
                 awready, wready, bvalid)
    BY NextEdge DEF Edge
  <1>2. ArbEdge
    BY NextEdge DEF Edge, ArbEdge
  <1> SUFFICES ASSUME w_state' = "W_A" PROVE BurstInv'
    BY ZenonT(30) DEF BurstInv
  <1>t. /\ dmaSent \in Nat /\ wBurstLines \in Nat \ {0} /\ NGroups \in Nat
        /\ wr_sent \in Nat /\ wr_beat \in Nat /\ w_lines \in Nat \ {0}
        /\ BEATS_PER_LINE \in Nat /\ BEATS_PER_LINE >= 2
    BY WrBeatsAssumption, DmaAssumption
    DEF TxInv, WrTypes, PathTypes, DmaTypes, Beats, wBurstLines
  <1>3. CASE w_state = "W_IDLE"
    <2>1. /\ dmaDrive /\ w_addr' = dmaAddr /\ w_lines' = wBurstLines
          /\ w_line_latched' = accel_wline
      BY <1>2, <1>3, <1>t, ArbGrants, Zenon
    <2>2. dmaBusy /\ lineFifo # <<>> /\ lineFifo \in Seq(TileLines)
      BY <2>1, Zenon DEF dmaDrive, TileInv, FifoInv
    <2>3. UNCHANGED <<dmaBusy, destContig, dmaAddr, dmaSent, tile>>
      BY <1>3, <2>1, <2>2, DmaEdge, Zenon
    <2>4. Len(lineFifo) > 0
      BY <2>2
    <2>5. Len(lineFifo') > 0
      BY <1>3, <2>2, <2>3, <2>4, QueueStaysFilled, Zenon
    <2>6. Popped = dmaSent
      <3>1. BurstPopped = 0
        BY <1>3, Zenon DEF BurstPopped
      <3> QED BY <1>t, <3>1 DEF Popped
    <2>7. accel_wline = <<"A", tile, dmaSent>>
      <3>1. accel_wline = lineFifo[1]
        BY <2>2, SMTT(30) DEF accel_wline
      <3>2. lineFifo[1] = <<"A", tile, Popped + 1 - 1>>
        BY <2>2, <2>4 DEF TileInv, FifoInv
      <3> QED BY <1>t, <2>6, <3>1, <3>2
    <2>8. ~Started'
      <3>1. wr_state \in {"WR_IDLE"} /\ ~wr_retrying
        BY <1>3, Zenon DEF TxInv, EngineInv, EngineIdle, EngineAddr, EngineData, EngineEnd,
           SameRequest, WrTypes, WrStates
      <3> QED BY <1>1, <1>3, <3>1, Zenon
        DEF WrTick, WrLostResponse, WrTimeout, WrIdle, WrStart, WrAddr, WrDataWait,
            WrBeat, WrResp, WrDone, wr_expired, wr_eligible, wr_req_valid, Started
    <2>9. wr_state' # "WR_DATA"
      BY <2>8, Zenon DEF Started
    <2> QED BY <2>1, <2>2, <2>3, <2>5, <2>7, <2>8, <2>9, Zenon DEF BurstInv, wBurstLines
  <1>4. CASE w_state # "W_IDLE"
    <2>1. /\ w_state = "W_A" /\ wr_state # "WR_DONE"
          /\ w_addr' = w_addr /\ w_lines' = w_lines /\ w_line_latched' = w_line_latched
      BY <1>2, <1>4, ArbHolds, Zenon
    <2>2. /\ dmaBusy /\ Len(lineFifo) > 0
          /\ w_addr = dmaAddr /\ w_lines = wBurstLines
          /\ w_lines = 1 => w_line_latched = <<"A", tile, dmaSent>>
          /\ w_lines = 1 /\ Started => wline_first = <<"A", tile, dmaSent>>
          /\ w_lines > 1 /\ wr_state = "WR_DATA" /\ wr_beat # 0 =>
               wline_hold = <<"A", tile, dmaSent + wr_sent>>
      BY <2>1, Zenon DEF TileInv, BurstInv
    <2>3. UNCHANGED <<dmaBusy, destContig, dmaAddr, dmaSent, tile>>
      BY <2>1, <2>2, DmaEdge, Zenon
    <2>4. Len(lineFifo') > 0
      BY <2>1, <2>2, <2>3, QueueStaysFilled, Zenon
    <2>5. w_lines = 1 /\ Started' => wline_first' = <<"A", tile, dmaSent>>
      <3> SUFFICES ASSUME w_lines = 1, Started'
                   PROVE  wline_first' = <<"A", tile, dmaSent>>
        BY Zenon
      <3>1. arb_wline(accel_wline) = <<"A", tile, dmaSent>>
        BY <2>2 DEF arb_wline
      <3> QED BY <1>1, <2>2, <3>1, Zenon
        DEF WrTick, WrLostResponse, WrTimeout, WrIdle, WrStart, WrAddr, WrDataWait,
            WrBeat, WrResp, WrDone, wr_expired, wr_eligible, Started, TxInv, WrTypes
    <2>6. w_lines > 1 /\ wr_state' = "WR_DATA" /\ wr_beat' # 0 =>
            wline_hold' = <<"A", tile, dmaSent + wr_sent'>>
      <3> SUFFICES ASSUME w_lines > 1, wr_state' = "WR_DATA", wr_beat' # 0
                   PROVE  wline_hold' = <<"A", tile, dmaSent + wr_sent'>>
        BY SMTT(30)
      <3>1. \/ WrDataWait(wr_req_valid, wready, arb_wline(accel_wline)) /\ wr_beat # 0
            \/ WrBeat(wr_req_valid, wready, arb_wline(accel_wline))
        <4>1. wr_state = "WR_ADDR" => wr_beat = 0
          BY Zenon DEF TxInv, EngineInv, EngineAddr
        <4> QED BY <1>1, <4>1, Zenon
          DEF WrTick, WrLostResponse, WrTimeout, WrIdle, WrStart, WrAddr, WrDataWait,
              WrBeat, WrResp, WrDone
      <3>2. wr_state = "WR_DATA" /\ ~wr_resume_hold
        BY <3>1, Zenon DEF WrDataWait, WrBeat, TileInv, AheadInv
      <3>3. wr_beat = 0 => arb_wline(accel_wline) = <<"A", tile, dmaSent + wr_sent>>
        BY <2>1, <3>2, StoreSends, Zenon
      <3>4. wline_hold' = <<"A", tile, dmaSent + wr_sent>>
        BY <1>t, <2>2, <3>1, <3>2, <3>3, Zenon DEF WrDataWait, WrBeat, WrHold
      <3>5. wr_sent' = wr_sent
        BY <1>t, <3>1, Zenon DEF WrDataWait, WrBeat, NextWrBeat
      <3> QED BY <3>4, <3>5, Zenon
    <2> QED BY <2>1, <2>2, <2>3, <2>4, <2>5, <2>6, Zenon DEF BurstInv, wBurstLines
  <1> QED BY <1>3, <1>4, ZenonT(30)

\* Every edge leaves the memory alone or stores one beat of the data phase.
LEMMA MemoryEdge ==
  ASSUME Next
  PROVE  \/ mem' = mem
         \/ /\ wr_state = "WR_DATA"
            /\ mem' = Put(<<s_line, s_beat>>, m_axi_wdata(arb_wline(accel_wline)))
  <1>1. PICK awready, wready, bvalid, lost \in BOOLEAN :
          SlaveWrite(awready, wready, bvalid, lost)
    BY NextEdge DEF Edge
  <1> QED BY <1>1, ZenonT(30) DEF SlaveWrite, m_axi_wvalid

\* A group of the tile that has landed stays: the store goes on at higher
\* addresses and write-backs go elsewhere.
LEMMA LandedStays ==
  ASSUME TxInv, TileInv, Next, Separate, dmaBusy \/ dmaDone,
         NEW g \in 0 .. NGroups - 1, g < Landed, NEW b \in Beats,
         NEW a, a = ResultAddr(destAddr, destContig, g)
  PROVE  <<a, b>> \in DOMAIN mem' /\ mem'[<<a, b>>] = << <<"A", tile, g>>, b>>
  <1>1. Stored(a, b, <<"A", tile, g>>)
    BY Zenon DEF TileInv, TileBeats, Holds, Stored
  <1>2. CASE mem' = mem
    BY <1>1, <1>2, Zenon DEF Stored
  <1>3. CASE /\ wr_state = "WR_DATA"
             /\ mem' = Put(<<s_line, s_beat>>, m_axi_wdata(arb_wline(accel_wline)))
    <2>1. a # s_line
      <3>1. w_state # "W_IDLE" /\ w_state \in WArbStates
        BY <1>3, Zenon DEF TxInv, PathTypes, EngineInv, EngineData, SameRequest
      <3>2. CASE w_state = "W_A"
        <4>1. /\ dmaSent + wr_sent \in Nat
              /\ s_line = ResultAddr(destAddr, destContig, dmaSent + wr_sent)
          BY <1>3, <3>2, StoreSends, DmaAssumption
        <4>2. dmaBusy /\ ~dmaDone
          BY <3>2, Zenon DEF TileInv, BurstInv, StoreInv
        <4>3. Landed = dmaSent + wr_sent
          BY <1>3, <3>2, <4>2, ZenonT(30) DEF Landed, Started
        <4>4. destAddr \in Nat /\ destContig \in BOOLEAN /\ g \in Nat
          BY DmaAssumption DEF TxInv, DmaTypes
        <4>5. a \in Nat /\ s_line \in Nat /\ a < s_line
          BY <4>1, <4>3, <4>4, AddrOrder, Zenon
        <4> QED BY <4>5, SMTT(30)
      <3>3. CASE w_state = "W_D"
        <4>1. d_addr \in DLines /\ w_addr = d_addr /\ w_lines = 1
          BY <3>3, ZenonT(30) DEF TxInv, WriteBackInv
        <4>2. s_line = d_addr
          BY <1>3, <4>1
          DEF TxInv, EngineInv, EngineData, SameRequest, WrTypes, PathTypes
        <4>3. destAddr \in Dests /\ destContig \in BOOLEAN
          BY Zenon DEF TileInv, StoreInv, TxInv, DmaTypes
        <4> QED BY <4>1, <4>2, <4>3, Zenon DEF Separate
      <3> QED BY <3>1, <3>2, <3>3, Zenon DEF WArbStates
    <2>2. <<a, b>> # <<s_line, s_beat>>
      BY <2>1, Zenon
    <2> QED BY <1>1, <1>3, <2>2, BeatLands, Zenon DEF Stored
  <1> QED BY <1>2, <1>3, MemoryEdge, Zenon

\* A group lands with the last beat of its line.
LEMMA LandedStep ==
  ASSUME TxInv, TileInv, Next, dmaBusy \/ dmaDone, dmaBusy' => dmaBusy,
         dmaBusy' \/ dmaDone'
  PROVE  /\ UNCHANGED <<destAddr, destContig, tile>>
         /\ \/ \A g \in 0 .. NGroups - 1 : g < Landed' => g < Landed
            \/ /\ w_state = "W_A" /\ wr_state = "WR_DATA"
               /\ wr_beat = BEATS_PER_LINE - 1
               /\ mem' = Put(<<s_line, s_beat>>, m_axi_wdata(arb_wline(accel_wline)))
               /\ Landed = dmaSent + wr_sent
               /\ Landed' = Landed + 1
  <1>1. PICK awready, wready, bvalid, lost \in BOOLEAN :
          /\ WrTick(wr_req_valid, w_addr, w_lines, arb_wline(accel_wline),
                    awready, wready, bvalid)
          /\ SlaveWrite(awready, wready, bvalid, lost)
    BY NextEdge, SMTT(30) DEF Edge
  <1>2. ArbEdge
    BY NextEdge DEF Edge, ArbEdge
  <1>t. /\ dmaSent \in Nat /\ wr_sent \in Nat /\ w_lines \in Nat \ {0} /\ NGroups \in Nat
        /\ wBurstLines \in Nat /\ wr_state \in WrStates
        /\ dmaBusy \in BOOLEAN /\ dmaDone \in BOOLEAN
    BY DmaAssumption, Zenon DEF TxInv, WrTypes, PathTypes, DmaTypes, wBurstLines
  <1>3. UNCHANGED <<destAddr, destContig, tile>>
    BY DmaEdge, Zenon
  <1>4. CASE w_state = "W_A" /\ wr_state = "WR_DONE"
    <2>1. dmaBusy /\ ~dmaDone /\ w_lines = wBurstLines
      BY <1>4, Zenon DEF TileInv, BurstInv, StoreInv
    <2>2. wr_sent = w_lines
      BY <1>4, Zenon DEF TxInv, EngineInv, EngineEnd, SameRequest
    <2>3. Landed = dmaSent + wBurstLines
      BY <1>4, <2>1, <2>2, Zenon DEF Landed, Started
    <2>4. w_state' = "W_IDLE"
      BY <1>2, <1>4, ArbHolds, ZenonT(30)
    <2>5. CASE dmaDone'
      <3>1. dmaSent + wBurstLines >= NGroups
        BY <1>4, <2>5, DmaEdge, ZenonT(30)
      <3> QED BY <1>t, <1>3, <2>3, <3>1
    <2>6. CASE ~dmaDone'
      <3>1. dmaSent' = dmaSent + wBurstLines
        BY <1>4, <2>6, DmaEdge, Zenon
      <3>2. Landed' = dmaSent + wBurstLines + 0
        BY <2>4, <2>6, <3>1, Zenon DEF Landed
      <3> QED BY <1>t, <1>3, <2>3, <3>2
    <2> QED BY <2>5, <2>6, Zenon
  <1>5. CASE ~(w_state = "W_A" /\ wr_state = "WR_DONE")
    <2>1. UNCHANGED <<dmaBusy, dmaDone, dmaSent>>
      BY <1>5, DmaEdge, Zenon
    <2>2. CASE dmaDone
      <3>1. Landed = NGroups /\ Landed' = NGroups
        BY <2>1, <2>2, Zenon DEF Landed
      <3> QED BY <1>3, <3>1, Zenon
    <2>3. CASE ~dmaDone /\ w_state # "W_A"
      <3>1. w_state' = "W_A" => w_state = "W_IDLE"
        BY <1>2, <2>3, ArbHolds, Zenon
      <3>2. w_state = "W_IDLE" => wr_state = "WR_IDLE" /\ ~wr_retrying
        BY <1>t, Zenon DEF TxInv, EngineInv, EngineIdle, EngineAddr, EngineData, EngineEnd,
           SameRequest, WrStates
      <3>3. w_state' = "W_A" => ~Started'
        BY <1>1, <3>1, <3>2, Zenon
        DEF WrTick, WrLostResponse, WrTimeout, WrIdle, WrStart, WrAddr, WrDataWait,
            WrBeat, WrResp, WrDone, wr_expired, wr_eligible, wr_req_valid, Started
      <3>4. Landed = dmaSent + 0 /\ Landed' = dmaSent + 0
        BY <2>1, <2>3, <3>3, Zenon DEF Landed
      <3> QED BY <1>3, <3>4, Zenon
    <2>4. CASE ~dmaDone /\ w_state = "W_A"
      <3>1. w_state' = "W_A"
        BY <1>2, <1>5, <2>4, ArbHolds, Zenon
      <3>2. CASE WrBeat(wr_req_valid, wready, arb_wline(accel_wline))
        <4>1. wr_state = "WR_DATA" /\ wready /\ Started'
          BY <3>2, Zenon DEF WrBeat, Started
        <4>2. Landed = dmaSent + wr_sent /\ Landed' = dmaSent + wr_sent'
          BY <2>1, <2>4, <3>1, <4>1, Zenon DEF Landed, Started
        <4>3. mem' = Put(<<s_line, s_beat>>, m_axi_wdata(arb_wline(accel_wline)))
          BY <1>1, <4>1, Zenon DEF SlaveWrite, m_axi_awvalid, m_axi_wvalid
        <4>4. wr_sent' = IF wr_beat = BEATS_PER_LINE - 1 THEN wr_sent + 1 ELSE wr_sent
          BY <3>2, ZenonT(30) DEF WrBeat
        <4>5. CASE wr_beat = BEATS_PER_LINE - 1
          BY <1>t, <1>3, <2>4, <4>1, <4>2, <4>3, <4>4, <4>5
        <4>6. CASE wr_beat # BEATS_PER_LINE - 1
          BY <1>3, <4>2, <4>4, <4>6, Zenon
        <4> QED BY <4>5, <4>6, Zenon
      <3>3. CASE ~WrBeat(wr_req_valid, wready, arb_wline(accel_wline))
        <4>1. Started => Started' /\ wr_sent' = wr_sent
          BY <1>1, <1>5, <2>4, <3>3, ZenonT(30)
          DEF WrTick, WrLostResponse, WrTimeout, WrIdle, WrStart, WrAddr, WrDataWait,
              WrResp, WrDone, Started
        <4>2. ~Started /\ Started' => wr_sent' = 0
          BY <1>1, <3>3, Zenon
          DEF WrTick, WrLostResponse, WrTimeout, WrIdle, WrStart, WrAddr, WrDataWait,
              WrResp, WrDone, wr_expired, wr_eligible, Started
        <4>3. CASE Started
          <5>1. Landed = dmaSent + wr_sent /\ Landed' = dmaSent + wr_sent
            BY <2>1, <2>4, <3>1, <4>1, <4>3, ZenonT(30) DEF Landed
          <5> QED BY <1>3, <5>1, Zenon
        <4>4. CASE ~Started
          <5>1. Landed = dmaSent + 0 /\ Landed' = dmaSent + 0
            BY <2>1, <2>4, <3>1, <4>2, <4>4, Zenon DEF Landed
          <5> QED BY <1>3, <5>1, Zenon
        <4> QED BY <4>3, <4>4, Zenon
      <3> QED BY <3>2, <3>3, Zenon
    <2> QED BY <1>t, <2>2, <2>3, <2>4, Zenon
  <1> QED BY <1>4, <1>5, ZenonT(30)

\* Groups that have landed stay, and the line on its way is complete up to the
\* engine's beat.
LEMMA TileBeatsStep ==
  ASSUME TxInv, TileInv, Next, Separate
  PROVE  TileBeats'
  <1>1. PICK awready, wready, bvalid, lost \in BOOLEAN :
          /\ WrTick(wr_req_valid, w_addr, w_lines, arb_wline(accel_wline),
                    awready, wready, bvalid)
          /\ SlaveWrite(awready, wready, bvalid, lost)
    BY NextEdge, SMTT(30) DEF Edge
  <1>2. ArbEdge
    BY NextEdge DEF Edge, ArbEdge
  <1> SUFFICES ASSUME dmaBusy' \/ dmaDone' PROVE TileBeats'
    BY Zenon DEF TileBeats
  <1>t. /\ wr_beat \in Beats /\ BEATS_PER_LINE \in Nat /\ dmaBusy \in BOOLEAN
        /\ dmaDone \in BOOLEAN /\ dmaSent \in Nat /\ wr_sent \in Nat
    BY WrBeatsAssumption, Zenon DEF TxInv, WrTypes, DmaTypes
  <1>3. CASE dmaBusy' /\ ~dmaBusy
    <2>1. ~dmaDone' /\ dmaSent' = 0
      BY <1>3, DmaEdge, Zenon
    <2>2. w_state # "W_A"
      BY <1>3, Zenon DEF TileInv, BurstInv
    <2>3. w_state' # "W_A"
      BY <1>2, <1>3, <2>2, ArbHolds, ArbGrants, Zenon DEF dmaDrive
    <2>4. Landed' = 0 + 0
      BY <2>1, <2>3, Zenon DEF Landed
    <2> QED BY <2>3, <2>4 DEF TileBeats
  <1>4. CASE dmaBusy' => dmaBusy
    <2>a. dmaBusy \/ dmaDone
      BY <1>4, DmaEdge, Zenon
    <2>1. UNCHANGED <<destAddr, destContig, tile>>
      BY <1>4, <2>a, LandedStep, Zenon
    \* The beat stored now, and the ones before it.
    <2>2. ASSUME w_state = "W_A", wr_state = "WR_DATA",
                 mem' = Put(<<s_line, s_beat>>, m_axi_wdata(arb_wline(accel_wline))),
                 NEW b \in Beats, b <= wr_beat
          PROVE  /\ <<s_line, b>> \in DOMAIN mem'
                 /\ mem'[<<s_line, b>>] = << <<"A", tile, dmaSent + wr_sent>>, b>>
      <3>1. s_beat = wr_beat
        BY <2>2, Zenon DEF TxInv, EngineInv, EngineData
      <3>2. CASE b = wr_beat
        BY <2>2, <3>1, <3>2, BeatLands, StoreSends, Zenon
      <3>3. CASE b # wr_beat
        <4>1. b < wr_beat
          BY <1>t, <2>2, <3>3 DEF Beats
        <4>2. dmaBusy
          BY <2>2, Zenon DEF TileInv, BurstInv
        <4>3. Stored(s_line, b, <<"A", tile, dmaSent + wr_sent>>)
          BY <2>2, <4>1, <4>2, Zenon DEF TileInv, TileBeats
        <4>4. <<s_line, b>> # <<s_line, s_beat>>
          BY <3>1, <3>3, Zenon
        <4> QED BY <2>2, <4>3, <4>4, BeatLands, ZenonT(30) DEF Stored
      <3> QED BY <3>2, <3>3, Zenon
    <2>3. ASSUME NEW g \in 0 .. NGroups - 1, g < Landed'
          PROVE  Holds(ResultAddr(destAddr, destContig, g), <<"A", tile, g>>)'
      <3>1. SUFFICES ASSUME NEW b \in Beats, NEW a, a = ResultAddr(destAddr, destContig, g)
                     PROVE  /\ <<a, b>> \in DOMAIN mem'
                            /\ mem'[<<a, b>>] = << <<"A", tile, g>>, b>>
        BY <2>1, Zenon DEF Holds, ResultAddr
      <3>2. CASE g < Landed
        BY <2>a, <3>1, <3>2, LandedStays, Zenon
      <3>3. CASE ~(g < Landed)
        <4>1. /\ w_state = "W_A" /\ wr_state = "WR_DATA"
              /\ wr_beat = BEATS_PER_LINE - 1
              /\ mem' = Put(<<s_line, s_beat>>, m_axi_wdata(arb_wline(accel_wline)))
              /\ Landed = dmaSent + wr_sent /\ Landed' = Landed + 1
          BY <1>4, <2>a, <2>3, <3>3, LandedStep, ZenonT(30)
        <4>2. g = dmaSent + wr_sent
          BY <1>t, <2>3, <3>3, <4>1, DmaAssumption
        <4>3. a = s_line
          BY <3>1, <4>1, <4>2, StoreSends, ZenonT(30)
        <4>4. b <= wr_beat
          BY <1>t, <4>1 DEF Beats
        <4> QED BY <2>2, <4>1, <4>2, <4>3, <4>4, Zenon
      <3> QED BY <3>2, <3>3, Zenon
    <2>4. ASSUME w_state' = "W_A", wr_state' = "WR_DATA", NEW b \in Beats, b < wr_beat'
          PROVE  Stored(s_line, b, <<"A", tile, dmaSent + wr_sent>>)'
      <3>1. \/ WrDataWait(wr_req_valid, wready, arb_wline(accel_wline))
            \/ WrBeat(wr_req_valid, wready, arb_wline(accel_wline))
        <4>1. wr_state = "WR_ADDR" => wr_beat = 0
          BY Zenon DEF TxInv, EngineInv, EngineAddr
        <4>2. wr_beat' # 0
          BY <2>4 DEF Beats
        <4> QED BY <1>1, <2>4, <4>1, <4>2, Zenon
          DEF WrTick, WrLostResponse, WrTimeout, WrIdle, WrStart, WrAddr, WrResp, WrDone
      <3>2. wr_state = "WR_DATA" /\ w_state = "W_A"
        <4>1. wr_state = "WR_DATA"
          BY <3>1, Zenon DEF WrDataWait, WrBeat
        <4>2. w_state # "W_IDLE"
          BY <4>1, Zenon DEF TxInv, EngineInv, EngineData, SameRequest
        <4> QED BY <1>2, <2>4, <4>1, <4>2, ArbHolds, Zenon
      <3>3. dmaBusy /\ dmaSent' = dmaSent
        BY <3>2, DmaEdge, Zenon DEF TileInv, BurstInv
      <3>4. CASE WrDataWait(wr_req_valid, wready, arb_wline(accel_wline))
        <4>1. wr_beat' = wr_beat /\ wr_sent' = wr_sent /\ mem' = mem /\ s_line' = s_line
          BY <1>1, <3>2, <3>4, Zenon DEF WrDataWait, SlaveWrite, m_axi_awvalid
        <4>2. Stored(s_line, b, <<"A", tile, dmaSent + wr_sent>>)
          BY <2>4, <3>2, <3>3, <4>1, Zenon DEF TileInv, TileBeats
        <4> QED BY <2>1, <3>3, <4>1, <4>2, Zenon DEF Stored
      <3>5. CASE WrBeat(wr_req_valid, wready, arb_wline(accel_wline))
        <4>1. wr_beat' = NextWrBeat /\ wready
          BY <3>5, Zenon DEF WrBeat
        <4>2. wr_beat # BEATS_PER_LINE - 1 /\ b <= wr_beat
          BY <1>t, <2>4, <4>1 DEF NextWrBeat, Beats
        <4>3. wr_sent' = wr_sent
          BY <3>5, <4>2, Zenon DEF WrBeat
        <4>4. /\ mem' = Put(<<s_line, s_beat>>, m_axi_wdata(arb_wline(accel_wline)))
              /\ s_beat < BEATS_PER_LINE - 1 => s_line' = s_line
          BY <1>1, <3>2, <4>1, ZenonT(30) DEF SlaveWrite, m_axi_awvalid, m_axi_wvalid
        <4>5. s_beat < BEATS_PER_LINE - 1
          BY <1>t, <3>2, <4>2 DEF TxInv, EngineInv, EngineData, Beats
        <4> QED BY <2>1, <2>2, <3>2, <3>3, <4>2, <4>3, <4>4, <4>5, ZenonT(30) DEF Stored
      <3> QED BY <3>1, <3>4, <3>5, Zenon
    <2> QED BY <2>3, <2>4, Zenon DEF TileBeats
  <1> QED BY <1>3, <1>4, ZenonT(30)

\* Reset establishes the store invariant.
LEMMA TileInit ==
  ASSUME Init PROVE TileInv
  <1>1. AheadInv
    BY WrBeatsAssumption, ZenonT(30) DEF Init, WrInit, AheadInv
  <1>2. FifoInv
    <2>1. <<>> \in Seq(TileLines) /\ Len(<<>>) = 0
      OBVIOUS
    <2> QED BY <2>1 DEF Init, DmaInit, FifoInv
  <1> QED BY <1>1, <1>2, Zenon
    DEF Init, DmaInit, WArbInit, TileInv, StoreInv, BurstInv, TileBeats

\* When the store reports completion the whole tile is in memory, each group at
\* its address, whatever timeouts, retries, lost responses and write-backs came in
\* between.  The slave may make a line wait after its wr_next, while the FIFO has
\* moved on and the engine sends from wline_hold, but does not let it time out there
\* (the run write_resume is that case), and nobody writes a line of the buffer back.
THEOREM StoresLand ==
  ASSUME ~TimeoutsInsideLine, Separate
  PROVE  Spec => []StoreLands
  <1>1. Init => TxInv /\ TileInv
    BY TxInit, TileInit, Zenon
  <1>2. TxInv /\ TileInv /\ [Next]_vars => TileInv'
    <2> SUFFICES ASSUME TxInv, TileInv, [Next]_vars PROVE TileInv'
      BY Zenon
    <2>1. CASE Next
      BY <2>1, AheadStep, FifoStep, StoreStep, BurstStep, TileBeatsStep, Zenon DEF TileInv
    <2>2. CASE UNCHANGED vars
      <3>1. AheadInv'
        BY <2>2, Zenon DEF vars, wrVars, TileInv, AheadInv
      <3>2. FifoInv'
        BY <2>2, Zenon DEF vars, wrVars, wArbVars, dmaVars, TileInv, FifoInv, Popped,
           BurstPopped, Overtaken, Started
      <3>3. StoreInv'
        BY <2>2, Zenon DEF vars, dmaVars, TileInv, StoreInv, wBurstLines
      <3>4. BurstInv'
        BY <2>2, Zenon DEF vars, wrVars, wArbVars, dmaVars, TileInv, BurstInv, Started,
           wBurstLines
      <3>5. TileBeats'
        BY <2>2, ZenonT(30) DEF vars, wrVars, wArbVars, dmaVars, slaveVars, TileInv, TileBeats,
           Landed, Started, Holds, Stored, ResultAddr
      <3> QED BY <3>1, <3>2, <3>3, <3>4, <3>5, Zenon DEF TileInv
    <2> QED BY <2>1, <2>2, Zenon
  <1>3. TxInv /\ TileInv => StoreLands
    BY DmaAssumption DEF TileInv, TileBeats, Landed, StoreLands
  <1> QED BY <1>1, <1>2, <1>3, TransactionsAgree, PTL DEF Spec
=============================================================================
