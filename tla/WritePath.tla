----------------------------- MODULE WritePath ------------------------------
(***************************************************************************)
(* The whole write path: data-cache write-backs and the accelerator's      *)
(* result store, the write arbiter, the write engine and the AXI slave     *)
(* with its memory.  One step is one clock edge of every part.             *)
(***************************************************************************)
EXTENDS WriteEngine, WriteArbiter, ResultDma

CONSTANTS
  DLines,             \* lines the data cache may write back
  Dests,              \* destinations of result tiles
  TimeoutsInsideLine  \* a line may time out after its wr_next

ASSUME PathAssumption ==
  /\ DLines \subseteq Nat /\ Dests \subseteq Nat
  /\ TimeoutsInsideLine \in BOOLEAN

VARIABLES
  d_wb, d_addr, d_tag,     \* data cache: in S_WB, for which line, which contents
  s_line, s_beat, s_left,  \* slave: next line and beat of its burst, lines left
  s_resp,                  \* slave: responses it still owes
  mem                      \* memory: <<line, beat>> -> the beat stored there

dVars == <<d_wb, d_addr, d_tag>>
slaveVars == <<s_line, s_beat, s_left, s_resp, mem>>
vars == <<wrVars, wArbVars, dmaVars, dVars, slaveVars>>

Init ==
  /\ WrInit /\ WArbInit(NoLine) /\ DmaInit
  /\ d_wb = FALSE /\ d_addr = 0 /\ d_tag = 0
  /\ s_line = 0 /\ s_beat = 0 /\ s_left = 0 /\ s_resp = 0
  /\ mem = <<>>

\* The lines on the requesters' data wires.
dcache_wline == <<"D", d_tag, 0>>
accel_wline == IF lineFifo = <<>> THEN NoLine ELSE Head(lineFifo)

\* A write-back holds its request until its ready pulse.
DCacheWriteBack ==
  \/ d_wb /\ d_wb' = ~dcache_wr_ready(wr_ready) /\ UNCHANGED <<d_addr, d_tag>>
  \/ ~d_wb /\ d_wb' = TRUE /\ d_addr' \in DLines /\ d_tag' = 1 - d_tag
  \/ ~d_wb /\ UNCHANGED dVars

\* The sequencer loads and computes a tile before it stores it, which gives the
\* FIFO time to drain what a reset left in it.
StoreReady == ~dmaBusy /\ lineFifo = <<>> /\ fillReg = <<>>

\* SOFT_RST meets no burst of the store on its way.
ResetAllowed == w_state # "W_A" /\ ~dmaDrive

(***************************************************************************)
(* The AXI slave (external).  It accepts address and data in any cycle it  *)
(* likes, stores a beat when it accepts it, owes a response after the last *)
(* one and may lose responses.  A burst the engine abandoned is replaced   *)
(* by the one the engine issues next.                                      *)
(***************************************************************************)
MaxResp == 2

\* The memory after a beat is stored at a.
Put(a, beat) == [x \in DOMAIN mem \cup {a} |-> IF x = a THEN beat ELSE mem[x]]

SlaveWrite(awready, wready, bvalid, lost) ==
  /\ IF m_axi_awvalid /\ awready
       THEN /\ s_line' = wr_base /\ s_beat' = 0 /\ s_left' = wr_remaining
            /\ UNCHANGED mem
       ELSE IF m_axi_wvalid /\ wready
       THEN /\ mem' = Put(<<s_line, s_beat>>, m_axi_wdata(arb_wline(accel_wline)))
            /\ IF s_beat < BEATS_PER_LINE - 1
                 THEN s_beat' = s_beat + 1 /\ UNCHANGED <<s_line, s_left>>
                 ELSE s_beat' = 0 /\ s_line' = s_line + 1 /\ s_left' = s_left - 1
       ELSE UNCHANGED <<s_line, s_beat, s_left, mem>>
  /\ s_resp' = s_resp
               + (IF m_axi_wvalid /\ wready /\ m_axi_wlast /\ ~lost
                    /\ s_resp < MaxResp THEN 1 ELSE 0)
               - (IF m_axi_bready /\ bvalid THEN 1 ELSE 0)

\* The requester has moved past the line on the bus, and one more wait state
\* would let the engine give the burst up.
LastChance == wr_fifo_ahead /\ m_axi_wvalid /\ wr_tmo + 1 >= TIMEOUT_LIMIT

\* One clock edge, for the inputs of the cycle.
Edge(awready, wready, bvalid, lost, start, softRst, contig, dest) ==
  \* Inputs nobody samples in this cycle are held low.
  /\ awready => m_axi_awvalid
  /\ wready => m_axi_wvalid /\ s_left > 0
  /\ bvalid => m_axi_bready /\ s_resp > 0
  /\ lost => wready /\ m_axi_wlast
  /\ contig => start
  \* What the environment may do.
  /\ LastChance /\ ~TimeoutsInsideLine => wready
  /\ start => StoreReady
  /\ softRst => ResetAllowed
  /\ WrTick(wr_req_valid, w_addr, w_lines, arb_wline(accel_wline),
            awready, wready, bvalid)
  /\ WArbTick(d_wb, dmaDrive, d_addr, dcache_wline,
              dmaAddr, wBurstLines, accel_wline, wr_ready)
  /\ DmaTick(start, dest, contig, softRst, accel_wnext(wr_next),
             accel_wr_ready(wr_ready), <<"A", tile, fillGrp>>)
  /\ DCacheWriteBack
  /\ SlaveWrite(awready, wready, bvalid, lost)

\* An input that may be high only if c holds.
Input(c) == IF c THEN BOOLEAN ELSE {FALSE}

Next ==
  \E awready \in Input(m_axi_awvalid), wready \in Input(m_axi_wvalid),
     bvalid \in Input(m_axi_bready), start \in Input(StoreReady),
     softRst \in Input(ResetAllowed), dest \in Dests :
  \E lost \in Input(wready), contig \in Input(start) :
    Edge(awready, wready, bvalid, lost, start, softRst, contig, dest)

Spec == Init /\ [][Next]_vars

\* The clock never stops, and from some time on the slave answers every handshake
\* at once and loses nothing.
FairSpec == Spec /\ WF_vars(Next) /\ <>[][wr_tmo' = 0]_vars

(***************************************************************************)
(* Properties.                                                             *)
(***************************************************************************)

\* The line stored at address a, if all its beats are there.
Holds(a, line) ==
  \A b \in Beats : <<a, b>> \in DOMAIN mem /\ mem[<<a, b>>] = <<line, b>>

\* When the store reports completion, every line of the tile is in memory at
\* its address: no timeout, lost response, write-back in between or row jump
\* made the engine skip a line, repeat one or take a line of another tile.
StoreLands ==
  dmaDone => \A g \in 0 .. NGroups - 1 :
               Holds(ResultAddr(destAddr, destContig, g), <<"A", tile, g>>)

\* When the data cache sees its write-back acknowledged, the line is in memory.
WriteBackLands ==
  dcache_wr_ready(wr_ready) => Holds(d_addr, dcache_wline)

\* The data phase agrees with the announced length: WLAST is raised on exactly
\* the beat the slave counts as the last, also for a burst that resumes a request.
LastIsLast ==
  m_axi_wvalid => (m_axi_wlast <=> s_left = 1 /\ s_beat = BEATS_PER_LINE - 1)

\* Every store finishes and every write-back is acknowledged, once the slave
\* answers again: neither is asked for for ever without an answer.
WritesComplete ==
  /\ []<>(~dmaBusy)
  /\ []<>(d_wb => dcache_wr_ready(wr_ready))
=============================================================================
