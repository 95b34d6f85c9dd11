---------------------------- MODULE ReadArbiter -----------------------------
(***************************************************************************)
(* The read side of mem_arbiter_rw: one clock edge per step.               *)
(*                                                                         *)
(* Three requesters share the read engine: the data cache (D), the         *)
(* instruction cache (I) and the accelerator's operand fetch (A).  The     *)
(* caches ask for one line, the accelerator for a burst.  Whoever was      *)
(* granted last has the lowest priority at the next grant.                 *)
(***************************************************************************)
EXTENDS Integers

VARIABLES
  r_state,  \* R_IDLE, or the requester being served: R_D, R_I, R_A
  r_last,   \* the requester granted last: RL_D, RL_I, RL_A
  r_addr,   \* first line of the granted request
  r_lines,  \* its number of lines
  r_count   \* lines of an accelerator burst already returned

rArbVars == <<r_state, r_last, r_addr, r_lines, r_count>>

RArbStates == {"R_IDLE", "R_D", "R_I", "R_A"}
RLast == {"RL_D", "RL_I", "RL_A"}

RArbInit ==
  /\ r_state = "R_IDLE"
  /\ r_last = "RL_D"
  /\ r_addr = 0
  /\ r_lines = 1
  /\ r_count = 0

\* The rotating priority, as the three grant wires compute it.
r_grant_d_fixed(d, i, a) == r_state = "R_IDLE" /\ d
r_grant_d(d, i, a) ==
  /\ r_state = "R_IDLE" /\ d
  /\ \/ r_last = "RL_A"
     \/ r_last = "RL_I" /\ ~a
     \/ r_last = "RL_D" /\ ~a /\ ~i

r_grant_i(d, i, a) ==
  /\ r_state = "R_IDLE" /\ i /\ ~r_grant_d(d, i, a)
  /\ \/ r_last = "RL_D"
     \/ r_last = "RL_A" /\ ~d
     \/ r_last = "RL_I" /\ ~d /\ ~a

r_grant_a(d, i, a) ==
  r_state = "R_IDLE" /\ a /\ ~r_grant_d(d, i, a) /\ ~r_grant_i(d, i, a)

Grant(state, last, addr, lines) ==
  /\ r_state' = state
  /\ r_last' = last
  /\ r_addr' = addr
  /\ r_lines' = IF lines = 0 THEN 1 ELSE lines
  /\ r_count' = 0

(***************************************************************************)
(* The clock edge.  d, i and a are the request wires, dAddr, iAddr, aAddr  *)
(* and aLines what they carry; ready is the engine's rd_ready.             *)
(***************************************************************************)
RArbGrant(d, i, a, dAddr, iAddr, aAddr, aLines) ==
  \/ r_grant_d(d, i, a) /\ Grant("R_D", "RL_D", dAddr, 1)
  \/ r_grant_i(d, i, a) /\ Grant("R_I", "RL_I", iAddr, 1)
  \/ r_grant_a(d, i, a) /\ Grant("R_A", "RL_A", aAddr, aLines)

RArbIdle(d, i, a) ==
  /\ r_state = "R_IDLE" /\ ~d /\ ~i /\ ~a
  /\ r_count' = 0
  /\ UNCHANGED <<r_state, r_last, r_addr, r_lines>>

RArbWait(ready) ==
  /\ r_state # "R_IDLE" /\ ~ready
  /\ UNCHANGED rArbVars

\* One pulse retires a cache; an accelerator burst counts its lines.
RArbLine(ready) ==
  /\ r_state # "R_IDLE" /\ ready
  /\ IF r_state = "R_A" /\ r_count + 1 < r_lines
       THEN r_count' = r_count + 1 /\ UNCHANGED r_state
       ELSE r_state' = "R_IDLE" /\ r_count' = IF r_state = "R_A" THEN 0 ELSE r_count
  /\ UNCHANGED <<r_last, r_addr, r_lines>>

RArbTick(d, i, a, dAddr, iAddr, aAddr, aLines, ready) ==
  \/ RArbGrant(d, i, a, dAddr, iAddr, aAddr, aLines)
  \/ RArbIdle(d, i, a)
  \/ RArbWait(ready)
  \/ RArbLine(ready)

(***************************************************************************)
(* The wires the arbiter drives.                                           *)
(***************************************************************************)
rd_req_valid == r_state # "R_IDLE"
dcache_rd_ready(ready) == r_state = "R_D" /\ ready
icache_ready(ready) == r_state = "R_I" /\ ready
accel_rd_ready(ready) == r_state = "R_A" /\ ready
=============================================================================
