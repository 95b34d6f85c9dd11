------------------------------ MODULE ReadPath ------------------------------
(***************************************************************************)
(* The whole read path: requesters, read arbiter, read engine, AXI slave.  *)
(*                                                                         *)
(* Everything is clocked together, so one step of the system is the        *)
(* conjunction of one clock edge of every part.  The memory behind the     *)
(* slave is read-only here: beat b of line n holds <<n, b>>, so a line      *)
(* that reaches the wrong place, or is put together from the wrong beats,  *)
(* is visible.                                                             *)
(***************************************************************************)
EXTENDS ReadEngine, ReadArbiter, Sequences

CONSTANTS
  DLines,    \* lines the data cache may ask for
  ILines,    \* lines the instruction cache may ask for
  ABases,    \* first lines of the accelerator's panels
  MaxBurst,  \* most lines in a panel
  MaxOwed,   \* most bursts the slave still owes beats of
  SrcStride  \* lines from one lane to the next in a panel that is not packed

ASSUME LinesAssumption ==
  /\ DLines \subseteq Nat /\ ILines \subseteq Nat /\ ABases \subseteq Nat
  /\ MaxBurst \in Nat /\ MaxBurst >= 1 /\ SrcStride \in Nat
  /\ MaxOwed \in Nat /\ MaxOwed >= 1

VARIABLES
  d_req, d_addr,          \* data cache: in S_FILL, and for which line
  i_req, i_addr,          \* instruction cache: in S_FILL, and for which line
  a_req, a_burst,         \* accelerator: ldReq, and whether the panel is packed
  a_base, a_panel,        \* accelerator: panel base and lines in the panel
  a_left,                 \* accelerator: lines of the panel it still expects
  s_owed,                 \* slave: the bursts it still owes beats of, oldest first
  late,                   \* slave: it has answered a retry with an abandoned burst
  bypassed                \* grants a waiting requester has watched go elsewhere

aVars == <<a_req, a_burst, a_base, a_panel, a_left>>
reqVars == <<d_req, d_addr, i_req, i_addr, aVars>>
slaveVars == <<s_owed, late>>
vars == <<rdVars, rArbVars, reqVars, slaveVars, bypassed>>

Requesters == {"D", "I", "A"}

Init ==
  /\ RdInit /\ RArbInit
  /\ d_req = FALSE /\ d_addr = 0
  /\ i_req = FALSE /\ i_addr = 0
  /\ a_req = FALSE /\ a_burst = FALSE /\ a_base = 0 /\ a_panel = 1 /\ a_left = 0
  /\ s_owed = <<>> /\ late = FALSE
  /\ bypassed = [r \in Requesters |-> 0]

(***************************************************************************)
(* The requesters.  A cache raises valid when it enters S_FILL and leaves  *)
(* that state on its ready pulse.                                          *)
(***************************************************************************)
DCacheFill ==
  \/ /\ d_req /\ d_req' = ~dcache_rd_ready(rd_ready) /\ UNCHANGED d_addr
  \/ /\ ~d_req /\ d_req' = TRUE /\ d_addr' \in DLines
  \/ /\ ~d_req /\ UNCHANGED <<d_req, d_addr>>

ICacheFill ==
  \/ /\ i_req /\ i_req' = ~icache_ready(rd_ready) /\ UNCHANGED i_addr
  \/ /\ ~i_req /\ i_req' = TRUE /\ i_addr' \in ILines
  \/ /\ ~i_req /\ UNCHANGED <<i_req, i_addr>>

\* The operand fetch.  A packed panel is one burst: ldReq drops on its first
\* line and the load engine counts the rest.  A panel cut out of a wider matrix
\* is fetched line by line, with ldReq held and the address moved by the stride.
\* The line that completes the A panel may start the B panel in the same cycle.
AccelStart ==
  /\ a_req' = TRUE
  /\ a_burst' \in BOOLEAN
  /\ a_base' \in ABases
  /\ a_panel' \in 1 .. MaxBurst
  /\ a_left' = a_panel'

AccelStop ==
  /\ a_req' = FALSE /\ a_left' = 0
  /\ UNCHANGED <<a_burst, a_base, a_panel>>

ldReq_after_line == ~a_burst

AccelFetch ==
  \/ a_left = 0 /\ (AccelStart \/ AccelStop)
  \/ a_left > 0 /\ ~accel_rd_ready(rd_ready) /\ UNCHANGED aVars
  \/ a_left = 1 /\ accel_rd_ready(rd_ready) /\ (AccelStart \/ AccelStop)
  \/ /\ a_left > 1 /\ accel_rd_ready(rd_ready)
     /\ a_left' = a_left - 1
     /\ a_req' = ldReq_after_line
     /\ UNCHANGED <<a_burst, a_base, a_panel>>

\* The line of memory the load engine will capture next, and the request wires.
a_next == a_base + (IF a_burst THEN 1 ELSE SrcStride) * (a_panel - a_left)
a_addr_panel_base == a_base
a_addr == IF a_burst THEN a_base ELSE a_next
a_lines == IF a_burst THEN a_panel ELSE 1

(***************************************************************************)
(* The AXI slave (external).  It may accept an address and deliver a beat  *)
(* in any cycle, or stay silent as long as it likes.  It serves bursts in  *)
(* the order of their addresses.  The engine does not drain a burst it     *)
(* abandons: when the retry's address arrives the slave has either lost    *)
(* the earlier bursts or still owes their beats, and then these come first.*)
(***************************************************************************)
\* The next line and beat of a burst, and how many of its lines are left.
Burst == [line : Nat, beat : Beats, left : Nat \ {0}]

SlaveAddr ==
  \E owed \in {<<>>, s_owed} :
    /\ Len(owed) < MaxOwed
    /\ s_owed' = Append(owed, [line |-> rd_base, beat |-> 0, left |-> rd_remaining])
    /\ UNCHANGED late

s_rdata == <<s_owed[1].line, s_owed[1].beat>>
s_rlast == s_owed[1].beat = BEATS_PER_LINE - 1 /\ s_owed[1].left = 1

SlaveBeat ==
  /\ \/ /\ s_owed[1].beat < BEATS_PER_LINE - 1
        /\ s_owed' = [s_owed EXCEPT ![1].beat = @ + 1]
     \/ /\ s_owed[1].beat = BEATS_PER_LINE - 1 /\ s_owed[1].left > 1
        /\ s_owed' = [s_owed EXCEPT ![1] = [line |-> @.line + 1, beat |-> 0,
                                            left |-> @.left - 1]]
     \/ s_rlast /\ s_owed' = Tail(s_owed)
  /\ late' = (late \/ Len(s_owed) > 1)

SlaveRead(arready, rvalid) ==
  \/ m_axi_arvalid /\ arready /\ SlaveAddr
  \/ m_axi_rready /\ rvalid /\ SlaveBeat
  \/ ~(m_axi_arvalid /\ arready) /\ ~(m_axi_rready /\ rvalid) /\ UNCHANGED slaveVars

(***************************************************************************)
(* Who is waiting when a grant is made, and is passed over by it.          *)
(***************************************************************************)
Waiting == {r \in Requesters :
              CASE r = "D" -> d_req [] r = "I" -> i_req [] OTHER -> a_req}

Granted(r) == r_state = "R_IDLE" /\
  CASE r = "D" -> r_grant_d(d_req, i_req, a_req)
    [] r = "I" -> r_grant_i(d_req, i_req, a_req)
    [] OTHER   -> r_grant_a(d_req, i_req, a_req)

CountBypass ==
  bypassed' = [r \in Requesters |->
    IF Granted(r) \/ r \notin Waiting THEN 0
    ELSE IF \E q \in Requesters : Granted(q) THEN bypassed[r] + 1
    ELSE bypassed[r]]

Next ==
  \E arready, rvalid \in BOOLEAN :
    \* Inputs nobody samples in this cycle are held low.
    /\ arready => m_axi_arvalid
    /\ rvalid => m_axi_rready /\ s_owed # <<>>
    /\ RdTick(rd_req_valid, r_addr, r_lines, arready, rvalid, s_rdata, s_rlast)
    /\ RArbTick(d_req, i_req, a_req, d_addr, i_addr, a_addr, a_lines, rd_ready)
    /\ DCacheFill /\ ICacheFill /\ AccelFetch
    /\ SlaveRead(arready, rvalid)
    /\ CountBypass

Spec == Init /\ [][Next]_vars

\* The clock never stops, and from some time on the slave answers every
\* handshake at once.
FairSpec == Spec /\ WF_vars(Next) /\ <>[][rd_tmo' = 0]_vars

(***************************************************************************)
(* Properties.                                                             *)
(***************************************************************************)
TypeOK ==
  /\ rd_state \in RdStates /\ rd_beat \in Beats
  /\ rd_done_lines \in Nat /\ rd_addr_s \in Nat /\ rd_lines_s \in Nat \ {0}
  /\ rd_retrying \in BOOLEAN /\ rd_tmo \in Nat
  /\ rd_served \in BOOLEAN /\ rd_ready \in BOOLEAN
  /\ rd_rline \in [Beats -> Int \X Int]
  /\ r_state \in RArbStates /\ r_last \in RLast
  /\ r_addr \in Nat /\ r_lines \in Nat \ {0} /\ r_count \in Nat
  /\ d_req \in BOOLEAN /\ d_addr \in Nat /\ i_req \in BOOLEAN /\ i_addr \in Nat
  /\ a_req \in BOOLEAN /\ a_burst \in BOOLEAN
  /\ a_base \in Nat /\ a_panel \in Nat \ {0} /\ a_left \in 0 .. a_panel
  /\ s_owed \in Seq(Burst) /\ late \in BOOLEAN
  /\ bypassed \in [Requesters -> Nat]

\* Line n of memory, as the line register should hold it.
Line(n) == [b \in Beats |-> <<n, b>>]

\* A line the engine announces is the next line of the request the arbiter is
\* serving: it reaches a requester, it is put together from its own beats, and
\* no timeout, however late in the burst, makes it skip or repeat a line.  This
\* lasts until the slave answers a retry with beats of the burst the engine had
\* abandoned: the engine takes any beat in RD_DATA for its own.
RightLine ==
  rd_ready /\ ~late => /\ r_state # "R_IDLE"
                       /\ rd_rline = Line(r_addr + r_count)

\* A ready pulse only reaches a requester that is waiting for that very line:
\* the data cache in S_FILL, the instruction cache in S_FILL, or the operand
\* fetch with lines of its panel outstanding.
RightRequester ==
  rd_ready =>
    /\ r_state = "R_D" => d_req /\ r_addr = d_addr
    /\ r_state = "R_I" => i_req /\ r_addr = i_addr
    /\ r_state = "R_A" => /\ a_left > 0
                          /\ r_addr + r_count = a_next

\* The rotation is starvation-free with the bound the comment claims by
\* tracing cases: a requester is passed over at most twice before it is served.
BoundedBypass == \A r \in Requesters : bypassed[r] <= 2

\* Whoever waits for a line gets one, however many timeouts came before, once
\* the slave answers again: the arbiter never starves a requester, and a retry
\* is never refused by rd_served.  Only beats of an abandoned burst excuse the
\* engine, since their RLAST ends the retry before its lines are there.
FetchCompletes ==
  /\ d_req ~> dcache_rd_ready(rd_ready) \/ late
  /\ i_req ~> icache_ready(rd_ready) \/ late
  /\ (a_left > 0) ~> accel_rd_ready(rd_ready) \/ late
=============================================================================
