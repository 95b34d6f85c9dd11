---------------------------- MODULE WriteArbiter ----------------------------
(***************************************************************************)
(* The write side of mem_arbiter_rw: the data cache's write-backs (D) and  *)
(* the accelerator's result store (A) share the write engine, taking       *)
(* turns.  A write-back is one line; a store is a burst.                   *)
(***************************************************************************)
EXTENDS Integers

VARIABLES
  w_state,        \* W_IDLE, or the requester being served: W_D, W_A
  w_last_a,       \* the accelerator went last
  w_addr,         \* first line address of the granted request
  w_lines,        \* its number of lines
  w_line_latched  \* the line on the requester's wires at the grant

wArbVars == <<w_state, w_last_a, w_addr, w_lines, w_line_latched>>

WArbStates == {"W_IDLE", "W_D", "W_A"}

\* noLine is what the line register holds after reset.
WArbInit(noLine) ==
  /\ w_state = "W_IDLE" /\ w_last_a = TRUE
  /\ w_addr = 0 /\ w_lines = 1 /\ w_line_latched = noLine

w_grant_d(d, a) == w_state = "W_IDLE" /\ d /\ (w_last_a \/ ~a)
w_grant_a(d, a) == w_state = "W_IDLE" /\ a /\ ~w_grant_d(d, a)

WArbGrantD(d, a, dAddr, dLine) ==
  /\ w_grant_d(d, a)
  /\ w_state' = "W_D" /\ w_last_a' = FALSE
  /\ w_addr' = dAddr /\ w_lines' = 1 /\ w_line_latched' = dLine

WArbGrantA(d, a, aAddr, aLines, aLine) ==
  /\ w_grant_a(d, a)
  /\ w_state' = "W_A" /\ w_last_a' = TRUE
  /\ w_addr' = aAddr /\ w_lines' = (IF aLines = 0 THEN 1 ELSE aLines)
  /\ w_line_latched' = aLine

\* One pulse retires a transaction, burst or not.
WArbWait(d, a, ready) ==
  /\ IF w_state = "W_IDLE" THEN ~d /\ ~a ELSE ~ready
  /\ UNCHANGED wArbVars

WArbRetire(ready) ==
  /\ w_state # "W_IDLE" /\ ready
  /\ w_state' = "W_IDLE"
  /\ UNCHANGED <<w_last_a, w_addr, w_lines, w_line_latched>>

WArbTick(d, a, dAddr, dLine, aAddr, aLines, aLine, ready) ==
  \/ WArbGrantD(d, a, dAddr, dLine)
  \/ WArbGrantA(d, a, aAddr, aLines, aLine)
  \/ WArbWait(d, a, ready)
  \/ WArbRetire(ready)

(***************************************************************************)
(* The wires the arbiter drives.  A burst takes the live line, because the *)
(* requester replaces it on wr_next; a single line is the latched one.     *)
(***************************************************************************)
wr_req_valid == w_state # "W_IDLE"
arb_wline_live(aLine) == IF w_state = "W_A" \/ w_lines = 1 THEN aLine ELSE w_line_latched
arb_wline(aLine) == IF w_state = "W_A" /\ w_lines > 1 THEN aLine ELSE w_line_latched
dcache_wr_ready(ready) == w_state = "W_D" /\ ready
accel_wr_ready(ready) == w_state = "W_A" /\ ready
accel_wnext(next) == w_state = "W_A" /\ next
=============================================================================
