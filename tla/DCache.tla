------------------------------- MODULE DCache -------------------------------
(***************************************************************************)
(* The data cache (dcache_bram.v) behind its front end (dcache.v), with    *)
(* the data port of the tightly coupled memory (tcm.v).                    *)
(*                                                                         *)
(* An address is a record: its region ("ddr", "tcm", a device or the      *)
(* timer), its tag, set and bank.  A word is a function from its byte      *)
(* lanes to values.                                                        *)
(***************************************************************************)
EXTENDS Naturals

CONSTANTS
  Tags, Banks, Lanes,
  NUM_SETS,
  Values,   \* of a byte
  Junk      \* a byte nobody wrote, or one read while it was being written

ASSUME DCacheAssumption == NUM_SETS \in Nat \ {0} /\ Junk \notin Values

Sets == 0 .. NUM_SETS - 1
Word == [Lanes -> Values \cup {Junk}]
JunkLine == [b \in Banks |-> [l \in Lanes |-> Junk]]
Invalid == [v |-> FALSE, tag |-> CHOOSE t \in Tags : TRUE]

VARIABLES
  d,                      \* set -> line: the four data arrays
  tagv,                   \* set -> {valid, tag}
  dirty,                  \* set -> BOOLEAN
  dState, sweep_cnt,
  miss_idx, miss_tag, wb_tag, wb_line,
  q, q_tagv, q_a_idx,     \* the arrays' output registers
  byp_v, byp_word, byp_be, byp_data,
  tcm_d_pending, tcm_d_ready, tcm_d_rdata, tcm_d_mem

dcVars == <<d, tagv, dirty, dState, sweep_cnt, miss_idx, miss_tag, wb_tag, wb_line,
            q, q_tagv, q_a_idx, byp_v, byp_word, byp_be, byp_data>>
tcmDVars == <<tcm_d_pending, tcm_d_ready, tcm_d_rdata, tcm_d_mem>>

\* Nothing clears the arrays at power-up, S_INIT sweeps the valid bits: they
\* start with any word, the same in every set.
DCacheInit ==
  /\ d = [s \in Sets |-> JunkLine]
  /\ \E v \in BOOLEAN : tagv = [s \in Sets |-> [v |-> v, tag |-> Invalid.tag]]
  /\ \E v \in BOOLEAN : dirty = [s \in Sets |-> v]
  /\ dState = "S_INIT" /\ sweep_cnt = 0
  /\ miss_idx = 0 /\ miss_tag = Invalid.tag /\ wb_tag = Invalid.tag /\ wb_line = JunkLine
  /\ q = JunkLine /\ q_tagv = Invalid /\ q_a_idx = 0
  /\ byp_v = FALSE /\ byp_word = (CHOOSE b \in Banks : TRUE) /\ byp_be = {}
  /\ byp_data = JunkLine[CHOOSE b \in Banks : TRUE]

TcmDInit ==
  /\ tcm_d_pending = FALSE /\ tcm_d_ready = FALSE
  /\ tcm_d_rdata = [l \in Lanes |-> Junk] /\ tcm_d_mem = [l \in Lanes |-> 0]

-----------------------------------------------------------------------------
\* The request in MEM: req.valid, req.write, req.addr, req.wdata, req.wmask.

InDdr(req) == req.valid /\ req.addr.region # "tcm"

spec_ok(req) == q_a_idx = req.addr.set
hit(req) == q_tagv.v /\ q_tagv.tag = req.addr.tag /\ spec_ok(req)
bram_ready(req) == dState = "S_IDLE" /\ InDdr(req) /\ hit(req)
wr_hit(req) == bram_ready(req) /\ req.write

\* A bypass that forgets which word of the line was stored.
byp_use_any_word(bank) == byp_v

byp_use(bank) == byp_v /\ byp_word = bank

bram_rdata(req) ==
  [l \in Lanes |-> IF byp_use(req.addr.bank) /\ l \in byp_be THEN byp_data[l]
                   ELSE q[req.addr.bank][l]]

mem_req_valid == dState \in {"S_WB", "S_FILL"}
mem_req_write == dState = "S_WB"
mem_req_addr == [tag |-> IF dState = "S_WB" THEN wb_tag ELSE miss_tag, set |-> miss_idx]

fill_en(mem_ready) == dState = "S_FILL" /\ mem_ready
wb_needed(req) == q_tagv.v /\ dirty[req.addr.set]

\* What an array read returns: the stored bytes, but nothing definite of the
\* bytes being written to that set by the same edge.
ReadLine(s, req, mem_ready) ==
  [b \in Banks |-> [l \in Lanes |->
     IF \/ fill_en(mem_ready) /\ s = miss_idx
        \/ wr_hit(req) /\ s = req.addr.set /\ b = req.addr.bank /\ l \in req.wmask
     THEN Junk ELSE d[s][b][l]]]

DataNext(req, mem_ready, mem_rline) ==
  IF fill_en(mem_ready) THEN [d EXCEPT ![miss_idx] = mem_rline]
  ELSE IF wr_hit(req)
  THEN [d EXCEPT ![req.addr.set][req.addr.bank] =
          [l \in Lanes |-> IF l \in req.wmask THEN req.wdata[l] ELSE @[l]]]
  ELSE d

TagvNext(mem_ready) ==
  IF fill_en(mem_ready) THEN [tagv EXCEPT ![miss_idx] = [v |-> TRUE, tag |-> miss_tag]]
  ELSE IF dState = "S_INIT" THEN [tagv EXCEPT ![sweep_cnt] = Invalid]
  ELSE tagv

DirtyNext(req, mem_ready) ==
  IF fill_en(mem_ready) THEN [dirty EXCEPT ![miss_idx] = FALSE]
  ELSE IF wr_hit(req) THEN [dirty EXCEPT ![req.addr.set] = TRUE]
  ELSE dirty

StateNext(req, mem_ready) ==
  CASE dState = "S_INIT" -> IF sweep_cnt = NUM_SETS - 1 THEN "S_RECHECK" ELSE "S_INIT"
    [] dState = "S_IDLE" -> IF ~InDdr(req) \/ hit(req) THEN "S_IDLE"
                            ELSE IF ~spec_ok(req) THEN "S_RECHECK" ELSE "S_CAP"
    [] dState = "S_CAP" -> IF wb_needed(req) THEN "S_WB" ELSE "S_FILL"
    [] dState = "S_WB" -> IF mem_ready THEN "S_FILL" ELSE "S_WB"
    [] dState = "S_FILL" -> IF mem_ready THEN "S_RECHECK" ELSE "S_FILL"
    [] dState = "S_RECHECK" -> "S_IDLE"

SweepNext == IF dState = "S_INIT" THEN (sweep_cnt + 1) % NUM_SETS ELSE sweep_cnt

Misses(req) == dState = "S_IDLE" /\ InDdr(req) /\ ~hit(req) /\ spec_ok(req)

\* One clock edge; a_idx is the set the speculated address of the next cycle
\* names.
DCacheTick(req, a_idx, mem_ready, mem_rline) ==
  /\ d' = DataNext(req, mem_ready, mem_rline)
  /\ tagv' = TagvNext(mem_ready)
  /\ dirty' = DirtyNext(req, mem_ready)
  /\ dState' = StateNext(req, mem_ready)
  /\ sweep_cnt' = SweepNext
  /\ IF Misses(req) THEN miss_idx' = req.addr.set /\ miss_tag' = req.addr.tag
     ELSE UNCHANGED <<miss_idx, miss_tag>>
  /\ IF dState = "S_CAP" THEN wb_line' = q /\ wb_tag' = q_tagv.tag
     ELSE UNCHANGED <<wb_line, wb_tag>>
  /\ q' = ReadLine(a_idx, req, mem_ready)
  /\ q_tagv' \in {tagv[a_idx], TagvNext(mem_ready)[a_idx]}
  /\ q_a_idx' = a_idx
  /\ byp_v' = (wr_hit(req) /\ ~fill_en(mem_ready) /\ req.addr.set = a_idx)
  /\ byp_word' = req.addr.bank /\ byp_be' = req.wmask /\ byp_data' = req.wdata

-----------------------------------------------------------------------------
\* The tightly coupled memory: one request pulse, an answer one edge later.

tcm_d_req(req) == req.valid /\ req.addr.region = "tcm" /\ ~tcm_d_pending

TcmDTick(req) ==
  /\ tcm_d_pending' = IF tcm_d_req(req) THEN TRUE ELSE IF tcm_d_ready THEN FALSE ELSE tcm_d_pending
  /\ tcm_d_ready' = tcm_d_req(req)
  /\ IF tcm_d_req(req)
     THEN /\ tcm_d_rdata' = tcm_d_mem
          /\ tcm_d_mem' = IF req.write
                          THEN [l \in Lanes |-> IF l \in req.wmask THEN req.wdata[l] ELSE tcm_d_mem[l]]
                          ELSE tcm_d_mem
     ELSE UNCHANGED <<tcm_d_rdata, tcm_d_mem>>

dcache_ready(req) == IF req.addr.region = "tcm" THEN tcm_d_ready ELSE bram_ready(req)
dcache_rdata(req) == IF req.addr.region = "tcm" THEN tcm_d_rdata ELSE bram_rdata(req)
=============================================================================
