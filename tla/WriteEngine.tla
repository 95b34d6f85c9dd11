---------------------------- MODULE WriteEngine -----------------------------
(***************************************************************************)
(* The write half of axi_rw_engine: one clock edge per step.               *)
(*                                                                         *)
(* A request names a first line and a number of lines.  The engine issues  *)
(* one AXI burst for it and takes the lines from the wire wr_wline.  In a  *)
(* burst the requester replaces the line on that wire when wr_next pulses, *)
(* one beat before the engine needs the next line.  A burst that makes no  *)
(* progress for TIMEOUT_LIMIT cycles is abandoned and re-issued for the    *)
(* lines that are still missing.                                           *)
(*                                                                         *)
(* Addresses are line numbers, a line on the data wires is a name, and     *)
(* beat b of line n is <<n, b>>.                                           *)
(***************************************************************************)
EXTENDS Integers

CONSTANTS
  BEATS_PER_LINE,  \* AXI beats that make up one cache line
  TIMEOUT_LIMIT,   \* cycles without progress before a burst is abandoned
  NoLine           \* what the line registers hold after reset

ASSUME WrBeatsAssumption == BEATS_PER_LINE \in Nat /\ BEATS_PER_LINE >= 2
ASSUME WrTimeoutAssumption == TIMEOUT_LIMIT \in Nat /\ TIMEOUT_LIMIT >= 1

VARIABLES
  wr_state,        \* WR_IDLE, WR_ADDR, WR_DATA, WR_RESP or WR_DONE
  wr_beat,         \* beat index within the current line
  wr_sent,         \* lines of this request already accepted
  wr_addr_s,       \* first line address of the request being served
  wr_lines_s,      \* its number of lines
  wline_hold,      \* the line being transmitted, frozen at its first beat
  wline_first,     \* the line of a single-line request
  wr_retrying,     \* the next start resumes an abandoned request
  wr_fifo_ahead,   \* the requester has already moved past the current line
  wr_resume_hold,  \* the current line is replayed from wline_hold
  wr_tmo,          \* cycles without progress
  wr_served,       \* this request has completed and must not be restarted
  wr_next          \* the pulse: present the next line

wrVars == <<wr_state, wr_beat, wr_sent, wr_addr_s, wr_lines_s, wline_hold,
            wline_first, wr_retrying, wr_fifo_ahead, wr_resume_hold, wr_tmo,
            wr_served, wr_next>>

WrStates == {"WR_IDLE", "WR_ADDR", "WR_DATA", "WR_RESP", "WR_DONE"}
Beats == 0 .. BEATS_PER_LINE - 1

WrInit ==
  /\ wr_state = "WR_IDLE" /\ wr_beat = 0 /\ wr_sent = 0
  /\ wr_addr_s = 0 /\ wr_lines_s = 1
  /\ wline_hold = NoLine /\ wline_first = NoLine
  /\ wr_retrying = FALSE /\ wr_fifo_ahead = FALSE /\ wr_resume_hold = FALSE
  /\ wr_tmo = 0 /\ wr_served = FALSE /\ wr_next = FALSE

wr_base == wr_addr_s + wr_sent
wr_remaining == IF wr_sent < wr_lines_s THEN wr_lines_s - wr_sent ELSE 1
wr_eligible == wr_state \notin {"WR_IDLE", "WR_DONE"}
wr_bresp_only == wr_state = "WR_RESP" /\ wr_sent >= wr_lines_s

\* AXI outputs, and the completion pulse.
m_axi_awvalid == wr_state = "WR_ADDR"
m_axi_wvalid == wr_state = "WR_DATA"
m_axi_bready == wr_state = "WR_RESP"
m_axi_wlast_of_remaining == wr_beat = BEATS_PER_LINE - 1 /\ wr_sent = wr_remaining - 1
m_axi_wlast == wr_beat = BEATS_PER_LINE - 1 /\ wr_sent = wr_lines_s - 1
wr_ready == wr_state = "WR_DONE"

m_axi_wdata_live(wr_wline) ==
  << IF wr_lines_s = 1 THEN wline_first ELSE wr_wline, wr_beat >>

\* Single-line requests use the line sampled at the start; a burst uses the
\* live wire for a line's first beat and the frozen copy for the others.
m_axi_wdata(wr_wline) ==
  << CASE wr_lines_s = 1  -> wline_first
       [] wr_lines_s # 1 /\ (wr_resume_hold \/ wr_beat # 0) -> wline_hold
       [] OTHER -> wr_wline,
     wr_beat >>

WrServed_on_start(valid) ==
  wr_served' = (wr_state = "WR_DONE" \/ (valid /\ (wr_served \/ wr_state = "WR_IDLE")))
WrServed(valid) ==
  wr_served' = (wr_state = "WR_DONE" \/ (valid /\ wr_served))

WrTmo(progress) ==
  wr_tmo' = IF wr_eligible /\ ~progress THEN wr_tmo + 1 ELSE 0

\* Freeze the line being transmitted, unless a replay is owed.
WrHold(wr_wline) ==
  wline_hold' = IF wr_state = "WR_DATA" /\ wr_beat = 0 /\ ~wr_resume_hold
                  THEN wr_wline ELSE wline_hold

NextWrBeat_no_wrap == wr_beat + 1
NextWrBeat == IF wr_beat = BEATS_PER_LINE - 1 THEN 0 ELSE wr_beat + 1

(***************************************************************************)
(* The clock edge, one disjunct per case of the FSM.                       *)
(***************************************************************************)
wr_expired == wr_eligible /\ wr_tmo >= TIMEOUT_LIMIT

\* All data was accepted and only the response is missing: complete.
WrLostResponse ==
  /\ wr_expired /\ wr_bresp_only
  /\ wr_state' = "WR_DONE"
  /\ wr_beat' = 0 /\ wr_tmo' = 0 /\ wr_next' = FALSE
  /\ UNCHANGED <<wr_sent, wr_addr_s, wr_lines_s, wline_hold, wline_first,
                 wr_retrying, wr_fifo_ahead, wr_resume_hold, wr_served>>

WrTimeout ==
  /\ wr_expired /\ ~wr_bresp_only
  /\ wr_state' = "WR_IDLE"
  /\ wr_beat' = 0 /\ wr_tmo' = 0 /\ wr_next' = FALSE
  /\ wr_retrying' = TRUE
  /\ wr_resume_hold' = wr_fifo_ahead
  /\ UNCHANGED <<wr_sent, wr_addr_s, wr_lines_s, wline_hold, wline_first,
                 wr_fifo_ahead, wr_served>>

WrIdle(valid) ==
  /\ wr_state = "WR_IDLE" /\ ~(valid /\ ~wr_served)
  /\ WrServed(valid) /\ WrTmo(FALSE) /\ wr_next' = FALSE
  /\ UNCHANGED <<wr_state, wr_beat, wr_sent, wr_addr_s, wr_lines_s, wline_hold,
                 wline_first, wr_retrying, wr_fifo_ahead, wr_resume_hold>>

WrStart(valid, addr, lines, wr_wline) ==
  /\ wr_state = "WR_IDLE" /\ valid /\ ~wr_served
  /\ wr_state' = "WR_ADDR"
  /\ wr_addr_s' = addr
  /\ wr_lines_s' = IF lines = 0 THEN 1 ELSE lines
  /\ wr_beat' = 0
  /\ IF wr_retrying
       THEN UNCHANGED <<wr_sent, wline_first, wr_fifo_ahead>>
       ELSE wr_sent' = 0 /\ wline_first' = wr_wline /\ wr_fifo_ahead' = FALSE
  /\ wr_retrying' = FALSE
  /\ WrServed(valid) /\ WrTmo(FALSE) /\ wr_next' = FALSE
  /\ UNCHANGED <<wline_hold, wr_resume_hold>>

WrAddr(valid, awready) ==
  /\ wr_state = "WR_ADDR" /\ ~wr_expired
  /\ wr_state' = IF awready THEN "WR_DATA" ELSE "WR_ADDR"
  /\ WrServed(valid) /\ WrTmo(awready) /\ wr_next' = FALSE
  /\ UNCHANGED <<wr_beat, wr_sent, wr_addr_s, wr_lines_s, wline_hold,
                 wline_first, wr_retrying, wr_fifo_ahead, wr_resume_hold>>

WrDataWait(valid, wready, wr_wline) ==
  /\ wr_state = "WR_DATA" /\ ~wr_expired /\ ~wready
  /\ WrHold(wr_wline)
  /\ WrServed(valid) /\ WrTmo(FALSE) /\ wr_next' = FALSE
  /\ UNCHANGED <<wr_state, wr_beat, wr_sent, wr_addr_s, wr_lines_s,
                 wline_first, wr_retrying, wr_fifo_ahead, wr_resume_hold>>

\* A beat is accepted.  One beat before the end of a line that is not the last
\* the requester is asked for the next line.
WrBeat(valid, wready, wr_wline) ==
  LET lineDone == wr_beat = BEATS_PER_LINE - 1
      ask == wr_beat = BEATS_PER_LINE - 2 /\ wr_sent + 1 < wr_lines_s
  IN
  /\ wr_state = "WR_DATA" /\ ~wr_expired /\ wready
  /\ wr_state' = IF m_axi_wlast THEN "WR_RESP" ELSE "WR_DATA"
  /\ wr_beat' = NextWrBeat
  /\ wr_sent' = IF lineDone THEN wr_sent + 1 ELSE wr_sent
  /\ wr_fifo_ahead' = (ask \/ (wr_fifo_ahead /\ ~lineDone))
  /\ wr_resume_hold' = (wr_resume_hold /\ ~lineDone)
  /\ wr_next' = ask
  /\ WrHold(wr_wline)
  /\ WrServed(valid) /\ WrTmo(TRUE)
  /\ UNCHANGED <<wr_addr_s, wr_lines_s, wline_first, wr_retrying>>

WrResp(valid, bvalid) ==
  /\ wr_state = "WR_RESP" /\ ~wr_expired
  /\ wr_state' = IF bvalid THEN "WR_DONE" ELSE "WR_RESP"
  /\ WrServed(valid) /\ WrTmo(bvalid) /\ wr_next' = FALSE
  /\ UNCHANGED <<wr_beat, wr_sent, wr_addr_s, wr_lines_s, wline_hold,
                 wline_first, wr_retrying, wr_fifo_ahead, wr_resume_hold>>

WrDone(valid) ==
  /\ wr_state = "WR_DONE"
  /\ wr_state' = "WR_IDLE"
  /\ wr_beat' = 0
  /\ WrServed(valid) /\ WrTmo(FALSE) /\ wr_next' = FALSE
  /\ UNCHANGED <<wr_sent, wr_addr_s, wr_lines_s, wline_hold, wline_first,
                 wr_retrying, wr_fifo_ahead, wr_resume_hold>>

WrTick(valid, addr, lines, wr_wline, awready, wready, bvalid) ==
  \/ WrLostResponse
  \/ WrTimeout
  \/ WrIdle(valid)
  \/ WrStart(valid, addr, lines, wr_wline)
  \/ WrAddr(valid, awready)
  \/ WrDataWait(valid, wready, wr_wline)
  \/ WrBeat(valid, wready, wr_wline)
  \/ WrResp(valid, bvalid)
  \/ WrDone(valid)
=============================================================================
