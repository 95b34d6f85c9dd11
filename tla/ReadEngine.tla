----------------------------- MODULE ReadEngine -----------------------------
(***************************************************************************)
(* The read half of axi_rw_engine: one clock edge per step.                *)
(*                                                                         *)
(* A request names a first line and a number of lines.  The engine issues  *)
(* one AXI burst for it, assembles BEATS_PER_LINE beats into a line and    *)
(* pulses rd_ready once per line.  A burst that makes no progress for      *)
(* TIMEOUT_LIMIT cycles is abandoned and re-issued for the lines that are  *)
(* still missing.                                                          *)
(*                                                                         *)
(* The engine's input wires are the parameters of RdTick.  Addresses are   *)
(* line numbers: the RTL masks the offset bits of rd_addr_s and shifts     *)
(* rd_done_lines by them.                                                  *)
(*                                                                         *)
(* Here and in the other modules a definition X_slip is X with a bug.  It  *)
(* is used only to show that a property notices the bug (see README.md).   *)
(***************************************************************************)
EXTENDS Integers

CONSTANTS
  BEATS_PER_LINE,  \* AXI beats that make up one cache line
  TIMEOUT_LIMIT    \* cycles without progress before a burst is abandoned

\* One beat per line would make the line complete on its first beat; a zero
\* limit would abandon every burst in its first cycle.
ASSUME BeatsAssumption == BEATS_PER_LINE \in Nat /\ BEATS_PER_LINE >= 2
ASSUME TimeoutAssumption == TIMEOUT_LIMIT \in Nat /\ TIMEOUT_LIMIT >= 1

VARIABLES
  rd_state,       \* RD_IDLE, RD_ADDR, RD_DATA or RD_DONE
  rd_beat,        \* beat index within the current line
  rd_done_lines,  \* lines of this request already delivered
  rd_addr_s,      \* first line of the request being served
  rd_lines_s,     \* its number of lines
  rd_retrying,    \* the next start resumes an abandoned request
  rd_tmo,         \* cycles without progress
  rd_served,      \* this request has completed and must not be restarted
  rd_ready,       \* the pulse: rd_rline holds a complete line
  rd_rline        \* the line register, one entry per beat

rdVars == <<rd_state, rd_beat, rd_done_lines, rd_addr_s, rd_lines_s,
            rd_retrying, rd_tmo, rd_served, rd_ready, rd_rline>>

RdStates == {"RD_IDLE", "RD_ADDR", "RD_DATA", "RD_DONE"}
Beats == 0 .. BEATS_PER_LINE - 1

\* The register resets to zeroes, which no beat of the modelled memory is.
NoBeat == <<-1, -1>>

RdInit ==
  /\ rd_state = "RD_IDLE"
  /\ rd_beat = 0
  /\ rd_done_lines = 0
  /\ rd_addr_s = 0
  /\ rd_lines_s = 1
  /\ rd_retrying = FALSE
  /\ rd_tmo = 0
  /\ rd_served = FALSE
  /\ rd_ready = FALSE
  /\ rd_rline = [b \in Beats |-> NoBeat]

rd_base == rd_addr_s + rd_done_lines
rd_remaining == IF rd_done_lines < rd_lines_s THEN rd_lines_s - rd_done_lines ELSE 1
rd_eligible == rd_state \notin {"RD_IDLE", "RD_DONE"}

\* A request for zero lines means one line.
AtLeastOne(lines) == IF lines = 0 THEN 1 ELSE lines

\* AXI outputs the slave samples.
m_axi_arvalid == rd_state = "RD_ADDR"
m_axi_rready == rd_state = "RD_DATA"

\* A retry resumes after the lines already delivered; a new request restarts.
ResumeLine_restarts == 0
ResumeLine == IF rd_retrying THEN rd_done_lines ELSE 0

NextBeat_no_wrap == rd_beat + 1
NextBeat == IF rd_beat = BEATS_PER_LINE - 1 THEN 0 ELSE rd_beat + 1

\* The served flag is raised by completion and lowered when valid drops.
RdServed_on_start(valid) ==
  rd_served' = (rd_state = "RD_DONE" \/ (valid /\ (rd_served \/ rd_state = "RD_IDLE")))
RdServed(valid) ==
  rd_served' = (rd_state = "RD_DONE" \/ (valid /\ rd_served))

RdTmo(progress) ==
  rd_tmo' = IF rd_eligible /\ ~progress THEN rd_tmo + 1 ELSE 0

(***************************************************************************)
(* The clock edge, one disjunct per case of the FSM.                       *)
(***************************************************************************)

\* Abandon the burst; this branch wins over any handshake of the same cycle.
RdTimeout ==
  /\ rd_eligible /\ rd_tmo >= TIMEOUT_LIMIT
  /\ rd_state' = "RD_IDLE"
  /\ rd_beat' = 0
  /\ rd_tmo' = 0
  /\ rd_retrying' = TRUE
  /\ rd_ready' = FALSE
  /\ UNCHANGED <<rd_done_lines, rd_addr_s, rd_lines_s, rd_served, rd_rline>>

\* Nothing to start.
RdIdle(valid) ==
  /\ rd_state = "RD_IDLE" /\ ~(valid /\ ~rd_served)
  /\ RdServed(valid) /\ RdTmo(FALSE)
  /\ rd_ready' = FALSE
  /\ UNCHANGED <<rd_state, rd_beat, rd_done_lines, rd_addr_s, rd_lines_s,
                 rd_retrying, rd_rline>>

\* Latch a request.  A retry keeps the count of lines already delivered.
RdStart(valid, addr, lines) ==
  /\ rd_state = "RD_IDLE" /\ valid /\ ~rd_served
  /\ rd_state' = "RD_ADDR"
  /\ rd_addr_s' = addr
  /\ rd_lines_s' = AtLeastOne(lines)
  /\ rd_beat' = 0
  /\ rd_done_lines' = ResumeLine
  /\ rd_retrying' = FALSE
  /\ RdServed(valid) /\ RdTmo(FALSE)
  /\ rd_ready' = FALSE
  /\ UNCHANGED rd_rline

RdAddr(valid, arready) ==
  /\ rd_state = "RD_ADDR" /\ rd_tmo < TIMEOUT_LIMIT
  /\ rd_state' = IF arready THEN "RD_DATA" ELSE "RD_ADDR"
  /\ RdServed(valid) /\ RdTmo(arready)
  /\ rd_ready' = FALSE
  /\ UNCHANGED <<rd_beat, rd_done_lines, rd_addr_s, rd_lines_s, rd_retrying,
                 rd_rline>>

RdDataWait(valid, rvalid) ==
  /\ rd_state = "RD_DATA" /\ rd_tmo < TIMEOUT_LIMIT /\ ~rvalid
  /\ RdServed(valid) /\ RdTmo(FALSE)
  /\ rd_ready' = FALSE
  /\ UNCHANGED <<rd_state, rd_beat, rd_done_lines, rd_addr_s, rd_lines_s,
                 rd_retrying, rd_rline>>

\* A beat arrives: it fills its slot of the line, and the last beat of a line
\* publishes the line.  RLAST, not the line count, ends the burst.
RdBeat(valid, rvalid, rdata, rlast) ==
  /\ rd_state = "RD_DATA" /\ rd_tmo < TIMEOUT_LIMIT /\ rvalid
  /\ rd_state' = IF rlast THEN "RD_DONE" ELSE "RD_DATA"
  /\ rd_rline' = [rd_rline EXCEPT ![rd_beat] = rdata]
  /\ LET lineDone == rd_beat = BEATS_PER_LINE - 1
     IN /\ rd_beat' = NextBeat
        /\ rd_ready' = lineDone
        /\ rd_done_lines' = IF lineDone THEN rd_done_lines + 1 ELSE rd_done_lines
  /\ RdServed(valid) /\ RdTmo(TRUE)
  /\ UNCHANGED <<rd_addr_s, rd_lines_s, rd_retrying>>

RdDone(valid) ==
  /\ rd_state = "RD_DONE"
  /\ rd_state' = "RD_IDLE"
  /\ rd_beat' = 0
  /\ RdServed(valid) /\ RdTmo(FALSE)
  /\ rd_ready' = FALSE
  /\ UNCHANGED <<rd_done_lines, rd_addr_s, rd_lines_s, rd_retrying, rd_rline>>

RdTick(valid, addr, lines, arready, rvalid, rdata, rlast) ==
  \/ RdTimeout
  \/ RdIdle(valid)
  \/ RdStart(valid, addr, lines)
  \/ RdAddr(valid, arready)
  \/ RdDataWait(valid, rvalid)
  \/ RdBeat(valid, rvalid, rdata, rlast)
  \/ RdDone(valid)
=============================================================================
