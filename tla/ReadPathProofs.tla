--------------------------- MODULE ReadPathProofs ---------------------------
(***************************************************************************)
(* Proofs about the read path, for every number of beats per line, every   *)
(* timeout limit, every panel size and every set of addresses.             *)
(***************************************************************************)
EXTENDS ReadPath, TLAPS

(***************************************************************************)
(* The inductive invariant.  rd_done_lines runs one line ahead of r_count  *)
(* in the cycle in which rd_ready is up, because the arbiter counts a line *)
(* when it sees the pulse.                                                 *)
(***************************************************************************)
Published == IF rd_ready THEN 1 ELSE 0

\* The engine is working on the request the arbiter has latched.
SameRequest ==
  /\ ~rd_retrying /\ ~rd_served
  /\ rd_addr_s = r_addr /\ rd_lines_s = r_lines
  /\ rd_done_lines = r_count + Published

EngineIdle ==
  rd_state = "RD_IDLE" =>
    /\ ~rd_ready
    /\ r_state = "R_IDLE" => ~rd_retrying
    /\ r_state # "R_IDLE" =>
         /\ ~rd_served
         /\ rd_retrying => rd_done_lines = r_count
         /\ ~rd_retrying => r_count = 0

EngineAddr ==
  rd_state = "RD_ADDR" =>
    r_state # "R_IDLE" /\ SameRequest /\ ~rd_ready /\ rd_beat = 0

\* The burst the slave accepted last, which is the engine's own.
Owed == s_owed[Len(s_owed)]
s_line == Owed.line
s_beat == Owed.beat
s_left == Owed.left

\* The slave's latest burst and the engine's counters agree, and the beats
\* received so far are in their slots.
EngineData ==
  rd_state = "RD_DATA" =>
    /\ r_state # "R_IDLE" /\ SameRequest
    /\ rd_done_lines < rd_lines_s
    /\ s_owed # <<>>
    /\ s_beat = rd_beat
    /\ s_line = rd_addr_s + rd_done_lines
    /\ s_left = rd_lines_s - rd_done_lines
    /\ \A b \in Beats : b < rd_beat => rd_rline[b] = <<s_line, b>>
    /\ rd_ready => rd_beat = 0 /\ rd_tmo = 0

EngineDone ==
  rd_state = "RD_DONE" =>
    r_state # "R_IDLE" /\ SameRequest /\ rd_ready /\ rd_done_lines = rd_lines_s

EngineInv == EngineIdle /\ EngineAddr /\ EngineData /\ EngineDone

ArbInv ==
  /\ r_state # "R_IDLE" => r_count < r_lines
  /\ r_state \in {"R_D", "R_I"} => r_lines = 1

RequesterInv ==
  /\ r_state = "R_D" => d_req /\ r_addr = d_addr
  /\ r_state = "R_I" => i_req /\ r_addr = i_addr
  /\ a_req => a_left > 0
  /\ a_req /\ a_burst /\ r_state # "R_A" => a_left = a_panel
  /\ r_state = "R_A" =>
       /\ a_left > 0
       /\ a_burst => r_addr = a_base /\ r_lines = a_panel /\ r_count = a_panel - a_left
       /\ ~a_burst => a_req /\ r_addr = a_next /\ r_lines = 1

\* What the engine believes about its burst is true until an abandoned burst
\* answers it; the arbiter and the requesters go by rd_ready alone.
IInv == TypeOK /\ (~late => EngineInv) /\ ArbInv /\ RequesterInv /\ RightLine

\* The further back in the rotation, the fewer grants a requester can have
\* watched go by.
BypassInv ==
  /\ r_last \in RLast
  /\ bypassed \in [Requesters -> Nat]
  /\ r_last = "RL_D" => bypassed["D"] = 0 /\ bypassed["A"] <= 1 /\ bypassed["I"] <= 2
  /\ r_last = "RL_I" => bypassed["I"] = 0 /\ bypassed["D"] <= 1 /\ bypassed["A"] <= 2
  /\ r_last = "RL_A" => bypassed["A"] = 0 /\ bypassed["I"] <= 1 /\ bypassed["D"] <= 2

(***************************************************************************)
(* What one edge of the arbiter does, in terms of its state before.        *)
(***************************************************************************)
ArbEdge == RArbTick(d_req, i_req, a_req, d_addr, i_addr, a_addr, a_lines, rd_ready)

\* While a request is granted the arbiter keeps it until its last line is
\* announced, and counts the lines (the R_D, R_I and R_A branches).
LEMMA ArbHolds ==
  ASSUME ArbEdge, r_state # "R_IDLE"
  PROVE  /\ r_addr' = r_addr /\ r_lines' = r_lines
         /\ ~rd_ready => r_state' = r_state /\ r_count' = r_count
         /\ rd_ready /\ r_state = "R_A" /\ r_count + 1 < r_lines =>
              r_state' = r_state /\ r_count' = r_count + 1
         /\ rd_ready /\ ~(r_state = "R_A" /\ r_count + 1 < r_lines) =>
              r_state' = "R_IDLE" /\ r_count' \in {0, r_count}
  BY Zenon DEF ArbEdge, RArbTick, RArbGrant, RArbIdle, RArbWait, RArbLine, rArbVars,
         r_grant_d, r_grant_i, r_grant_a

\* An idle arbiter grants at most one request, and latches what it asks for
\* (the R_IDLE branch).
LEMMA ArbGrants ==
  ASSUME ArbEdge, r_state = "R_IDLE"
  PROVE  /\ r_count' = 0
         /\ \/ r_state' = "R_IDLE" /\ r_addr' = r_addr /\ r_lines' = r_lines
            \/ r_state' = "R_D" /\ d_req /\ r_addr' = d_addr /\ r_lines' = 1
            \/ r_state' = "R_I" /\ i_req /\ r_addr' = i_addr /\ r_lines' = 1
            \/ /\ r_state' = "R_A" /\ a_req /\ r_addr' = a_addr
               /\ r_lines' = IF a_lines = 0 THEN 1 ELSE a_lines
  BY Zenon DEF ArbEdge, RArbTick, RArbGrant, RArbIdle, RArbWait, RArbLine, Grant,
         r_grant_d, r_grant_i, r_grant_a

\* The multiplication by the stride yields a line number.
LEMMA NextLineIsNat ==
  ASSUME TypeOK PROVE a_next \in Nat
  <1>1. /\ a_base \in Nat /\ a_panel \in Nat /\ a_left \in 0 .. a_panel
        /\ SrcStride \in Nat
    BY LinesAssumption, Zenon DEF TypeOK
  <1> QED BY <1>1 DEF a_next

(***************************************************************************)
(* Each part of the invariant is preserved by a clock edge.                *)
(***************************************************************************)

\* The arbiter's share: a burst in progress has lines left, caches ask for one.
LEMMA ArbStep ==
  ASSUME IInv, Next
  PROVE  ArbInv' /\ r_state' \in RArbStates /\ r_addr' \in Nat
         /\ r_lines' \in Nat \ {0} /\ r_count' \in Nat
  <1>1. ArbEdge
    BY Zenon DEF Next, ArbEdge
  <1>2. a_addr \in Nat /\ a_lines \in Nat
    BY NextLineIsNat, Zenon DEF IInv, TypeOK, a_addr, a_lines
  <1>3. CASE r_state = "R_IDLE"
    BY <1>1, <1>2, <1>3, ArbGrants DEF IInv, TypeOK, ArbInv, RArbStates
  <1>4. CASE r_state # "R_IDLE"
    BY <1>1, <1>4, ArbHolds DEF IInv, TypeOK, ArbInv, RArbStates
  <1> QED BY <1>3, <1>4, Zenon

\* The requesters' share: a grant stays matched to the request it was made for.
LEMMA RequesterStep ==
  ASSUME IInv, Next
  PROVE  RequesterInv'
  <1>1. ArbEdge /\ DCacheFill /\ ICacheFill /\ AccelFetch
    BY Zenon DEF Next, ArbEdge
  <1>2. a_next \in Nat
    BY NextLineIsNat, Zenon DEF IInv
  <1>3. CASE r_state = "R_IDLE"
    <2>1. \/ UNCHANGED aVars
          \/ a_left = 0 /\ (AccelStart \/ AccelStop)
      BY <1>1, <1>3, Zenon DEF AccelFetch, accel_rd_ready
    <2>2. r_state' = "R_D" => d_req' /\ r_addr' = d_addr'
      BY <1>1, <1>3, ArbGrants, Zenon DEF DCacheFill, dcache_rd_ready
    <2>3. r_state' = "R_I" => i_req' /\ r_addr' = i_addr'
      BY <1>1, <1>3, ArbGrants, Zenon DEF ICacheFill, icache_ready
    <2>4. CASE UNCHANGED aVars
      BY <1>1, <1>2, <1>3, <2>2, <2>3, <2>4, ArbGrants
         DEF RequesterInv, IInv, TypeOK, aVars, a_next, a_addr, a_lines
    <2>5. CASE a_left = 0 /\ (AccelStart \/ AccelStop)
      <3>1. r_state' # "R_A"
        BY <1>1, <1>3, <2>5, ArbGrants DEF IInv, RequesterInv
      <3> QED
        BY <2>2, <2>3, <2>5, <3>1 DEF RequesterInv, AccelStart, AccelStop
    <2> QED BY <2>1, <2>4, <2>5, Zenon
  <1>4. CASE r_state \in {"R_D", "R_I"}
    <2>1. \/ UNCHANGED aVars
          \/ a_left = 0 /\ (AccelStart \/ AccelStop)
      BY <1>1, <1>4, Zenon DEF AccelFetch, accel_rd_ready
    <2>2. r_state' \in {r_state, "R_IDLE"} /\ r_addr' = r_addr
          /\ (rd_ready => r_state' = "R_IDLE")
      BY <1>1, <1>4, ArbHolds, Zenon
    <2>3. r_state' = "R_D" => d_req' /\ r_addr' = d_addr'
      BY <1>1, <1>4, <2>2, Zenon DEF DCacheFill, dcache_rd_ready, IInv, RequesterInv
    <2>4. r_state' = "R_I" => i_req' /\ r_addr' = i_addr'
      BY <1>1, <1>4, <2>2, ZenonT(30) DEF ICacheFill, icache_ready, IInv, RequesterInv
    <2> QED
      BY <1>4, <2>1, <2>2, <2>3, <2>4
         DEF IInv, RequesterInv, AccelStart, AccelStop, aVars
  <1>5. CASE r_state = "R_A"
    <2>1. CASE ~rd_ready
      <3>1. UNCHANGED aVars /\ r_state' = r_state /\ r_addr' = r_addr
            /\ r_lines' = r_lines /\ r_count' = r_count
        BY <1>1, <1>5, <2>1, ArbHolds
           DEF AccelFetch, accel_rd_ready, IInv, RequesterInv, TypeOK
      <3> QED
        BY <1>5, <3>1, Zenon DEF IInv, RequesterInv, aVars, a_next
    <2>2. CASE rd_ready /\ a_burst /\ a_left > 1
      <3>1. r_count + 1 < r_lines
        BY <1>5, <2>2 DEF IInv, RequesterInv, TypeOK
      <3>2. r_state' = r_state /\ r_count' = r_count + 1 /\ r_addr' = r_addr
            /\ r_lines' = r_lines
        BY <1>1, <1>5, <2>2, <3>1, ArbHolds, Zenon
      <3>3. /\ a_left' = a_left - 1 /\ UNCHANGED <<a_burst, a_base, a_panel>>
            /\ ~a_req'
        <4>1. a_left # 0 /\ a_left # 1
          BY <2>2 DEF IInv, TypeOK
        <4>2. accel_rd_ready(rd_ready)
          BY <1>5, <2>2, Zenon DEF accel_rd_ready
        <4> QED
          BY <1>1, <2>2, <4>1, <4>2, Zenon DEF AccelFetch, ldReq_after_line
      <3> QED
        BY <1>5, <2>2, <3>2, <3>3 DEF IInv, RequesterInv, TypeOK
    <2>3. CASE rd_ready /\ ~a_burst /\ a_left > 1
      <3>1. r_state' = "R_IDLE"
        BY <1>1, <1>5, <2>3, ArbHolds DEF IInv, RequesterInv, TypeOK
      <3>2. a_left' = a_left - 1 /\ ~a_burst'
        BY <1>1, <1>5, <2>3 DEF AccelFetch, accel_rd_ready, ldReq_after_line
      <3> QED
        BY <2>3, <3>1, <3>2 DEF RequesterInv, IInv, TypeOK
    <2>4. CASE rd_ready /\ a_left = 1
      <3>1. r_state' = "R_IDLE"
        BY <1>1, <1>5, <2>4, ArbHolds DEF IInv, RequesterInv, TypeOK
      <3>2. AccelStart \/ AccelStop
        BY <1>1, <1>5, <2>4 DEF AccelFetch, accel_rd_ready
      <3> QED
        BY <3>1, <3>2, LinesAssumption DEF RequesterInv, AccelStart, AccelStop
    <2> QED
      BY SMTT(30), <1>5, <2>1, <2>2, <2>3, <2>4 DEF IInv, RequesterInv, TypeOK
  <1> QED BY <1>3, <1>4, <1>5, Zenon DEF IInv, TypeOK, RArbStates

\* An accepted address becomes the slave's latest burst, whatever it owes besides.
LEMMA SlaveAccepts ==
  ASSUME TypeOK, SlaveAddr
  PROVE  /\ s_owed' \in Seq(Burst) /\ s_owed' # <<>> /\ late' = late
         /\ s_line' = rd_base /\ s_beat' = 0 /\ s_left' = rd_remaining
  <1> DEFINE new == [line |-> rd_base, beat |-> 0, left |-> rd_remaining]
  <1>1. PICK owed \in {<<>>, s_owed} : s_owed' = Append(owed, new) /\ late' = late
    BY Zenon DEF SlaveAddr
  <1>2. new \in Burst
    <2>1. rd_base \in Nat /\ rd_remaining \in Nat \ {0} /\ 0 \in Beats
      BY BeatsAssumption DEF TypeOK, rd_base, rd_remaining, Beats
    <2> QED BY <2>1 DEF Burst
  <1>3. owed \in Seq(Burst)
    <2>1. <<>> \in Seq(Burst)
      OBVIOUS
    <2>2. s_owed \in Seq(Burst)
      BY Zenon DEF TypeOK
    <2> QED BY <1>1, <2>1, <2>2, Zenon
  <1>4. new.line = rd_base /\ new.beat = 0 /\ new.left = rd_remaining
    OBVIOUS
  <1> HIDE DEF new
  <1>5. /\ s_owed' \in Seq(Burst) /\ s_owed' # <<>>
        /\ s_owed'[Len(s_owed')] = new
    BY <1>1, <1>2, <1>3
  <1> QED BY <1>1, <1>4, <1>5, Zenon DEF s_line, s_beat, s_left, Owed

\* A beat advances the oldest burst and the last beat of it retires it.
LEMMA SlaveServes ==
  ASSUME TypeOK, s_owed # <<>>, SlaveBeat
  PROVE  /\ s_owed' \in Seq(Burst) /\ late' = (late \/ Len(s_owed) > 1)
         /\ s_rdata \in Nat \X Beats
  <1>1. s_owed \in Seq(Burst) /\ Len(s_owed) \in Nat \ {0}
    BY DEF TypeOK
  <1>2. s_owed[1] \in Burst
    BY <1>1
  <1>3. /\ s_owed[1].line \in Nat /\ s_owed[1].beat \in Beats
        /\ s_owed[1].left \in Nat \ {0}
    BY <1>2 DEF Burst
  <1>4. CASE /\ s_owed[1].beat < BEATS_PER_LINE - 1
             /\ s_owed' = [s_owed EXCEPT ![1].beat = @ + 1]
    <2>1. s_owed[1].beat + 1 \in Beats
      BY <1>3, <1>4, BeatsAssumption DEF Beats
    <2>2. [s_owed[1] EXCEPT !.beat = s_owed[1].beat + 1] \in Burst
      BY <1>2, <2>1 DEF Burst
    <2>3. s_owed' = [s_owed EXCEPT ![1] = [s_owed[1] EXCEPT !.beat = s_owed[1].beat + 1]]
      BY <1>4, Zenon
    <2> QED BY <1>1, <1>3, <2>2, <2>3 DEF SlaveBeat, s_rdata
  <1>5. CASE /\ s_owed[1].beat = BEATS_PER_LINE - 1 /\ s_owed[1].left > 1
             /\ s_owed' = [s_owed EXCEPT ![1] = [line |-> @.line + 1, beat |-> 0,
                                                 left |-> @.left - 1]]
    <2>1. [line |-> s_owed[1].line + 1, beat |-> 0, left |-> s_owed[1].left - 1] \in Burst
      BY <1>3, <1>5, BeatsAssumption, SMTT(30) DEF Burst, Beats
    <2>2. s_owed' = [s_owed EXCEPT ![1] = [line |-> s_owed[1].line + 1, beat |-> 0,
                                           left |-> s_owed[1].left - 1]]
      BY <1>5, Zenon
    <2> QED BY <1>1, <1>3, <2>1, <2>2 DEF SlaveBeat, s_rdata
  <1>6. CASE s_owed' = Tail(s_owed)
    BY <1>1, <1>3, <1>6 DEF SlaveBeat, s_rdata
  <1> QED BY <1>4, <1>5, <1>6, Zenon DEF SlaveBeat

\* A beat that is not late is a beat of the latest burst, the only one owed.
LEMMA SlaveServesLatest ==
  ASSUME TypeOK, s_owed # <<>>, SlaveBeat, ~late'
  PROVE  /\ s_rdata = <<s_line, s_beat>>
         /\ s_rlast <=> s_beat = BEATS_PER_LINE - 1 /\ s_left = 1
         /\ s_beat # BEATS_PER_LINE - 1 =>
              s_owed' # <<>> /\ s_line' = s_line /\ s_beat' = s_beat + 1 /\ s_left' = s_left
         /\ s_beat = BEATS_PER_LINE - 1 /\ s_left # 1 =>
              s_owed' # <<>> /\ s_line' = s_line + 1 /\ s_beat' = 0 /\ s_left' = s_left - 1
  <1>1. s_owed \in Seq(Burst) /\ Len(s_owed) = 1
    <2>1. s_owed \in Seq(Burst)
      BY Zenon DEF TypeOK
    <2>2. Len(s_owed) \in Nat /\ Len(s_owed) # 0
      BY <2>1
    <2>3. late' = (late \/ Len(s_owed) > 1)
      BY SlaveServes, Zenon
    <2>4. ~(Len(s_owed) > 1)
      BY <2>3, Zenon
    <2>5. Len(s_owed) = 1
      <3>1. \A n \in Nat : n # 0 /\ ~(n > 1) => n = 1
        OBVIOUS
      <3> QED BY <2>2, <2>4, <3>1, Zenon
    <2> QED BY <2>1, <2>5, Zenon
  <1>2. Owed = s_owed[1] /\ Owed \in Burst
    BY <1>1 DEF Owed
  <1>3. s_beat \in Beats /\ s_left \in Nat \ {0}
    BY <1>2 DEF Burst, s_beat, s_left
  <1>4. ASSUME s_beat # BEATS_PER_LINE - 1
        PROVE  s_owed' # <<>> /\ s_line' = s_line /\ s_beat' = s_beat + 1 /\ s_left' = s_left
    <2>1. s_owed' = [s_owed EXCEPT ![1] = [s_owed[1] EXCEPT !.beat = s_owed[1].beat + 1]]
      BY <1>2, <1>4, Zenon DEF SlaveBeat, s_rlast, s_beat
    <2>2. Len(s_owed') = 1 /\ s_owed'[1] = [Owed EXCEPT !.beat = Owed.beat + 1]
      BY <1>1, <1>2, <2>1
    <2>3. Owed' = [Owed EXCEPT !.beat = Owed.beat + 1] /\ s_owed' # <<>>
      BY <2>2 DEF Owed
    <2> QED BY <1>2, <2>3 DEF Burst, s_line, s_beat, s_left
  <1>5. ASSUME s_beat = BEATS_PER_LINE - 1, s_left # 1
        PROVE  s_owed' # <<>> /\ s_line' = s_line + 1 /\ s_beat' = 0 /\ s_left' = s_left - 1
    <2>1. ~(s_beat < BEATS_PER_LINE - 1)
      BY <1>3, <1>5, BeatsAssumption DEF Beats
    <2>2. s_owed' = [s_owed EXCEPT ![1] = [line |-> s_owed[1].line + 1, beat |-> 0,
                                           left |-> s_owed[1].left - 1]]
      BY <1>2, <1>5, <2>1, Zenon DEF SlaveBeat, s_rlast, s_beat, s_left
    <2>3. Len(s_owed') = 1 /\ s_owed'[1] = [line |-> s_line + 1, beat |-> 0, left |-> s_left - 1]
      BY <1>1, <1>2, <2>2 DEF s_line, s_left
    <2>4. /\ Owed' = [line |-> s_line + 1, beat |-> 0, left |-> s_left - 1]
          /\ s_owed' # <<>>
      BY <2>3 DEF Owed
    <2> QED BY <2>4 DEF s_line, s_beat, s_left
  <1> QED
    BY <1>2, <1>4, <1>5, Zenon DEF s_rdata, s_rlast, s_line, s_beat, s_left

\* The slave's bursts keep their type, and a late beat is never forgotten.
LEMMA SlaveType ==
  ASSUME IInv, Next
  PROVE  s_owed' \in Seq(Burst) /\ late' \in BOOLEAN /\ (late => late')
  <1>1. PICK arready, rvalid \in BOOLEAN :
          /\ SlaveRead(arready, rvalid)
          /\ rvalid => m_axi_rready /\ s_owed # <<>>
    BY Zenon DEF Next
  <1>2. TypeOK /\ late \in BOOLEAN
    BY Zenon DEF IInv, TypeOK
  <1>4. CASE SlaveAddr
    BY <1>2, <1>4, SlaveAccepts, Zenon
  <1>5. CASE rvalid /\ SlaveBeat
    BY <1>1, <1>2, <1>5, SlaveServes, Zenon
  <1>6. CASE UNCHANGED slaveVars
    BY <1>2, <1>6, Zenon DEF slaveVars, TypeOK
  <1> QED BY <1>1, <1>4, <1>5, <1>6, Zenon DEF SlaveRead

\* The engine's registers keep their types across every case of its clocked block.
LEMMA EngineType ==
  ASSUME IInv, Next
  PROVE  /\ rd_state' \in RdStates /\ rd_beat' \in Beats
         /\ rd_done_lines' \in Nat /\ rd_addr_s' \in Nat /\ rd_lines_s' \in Nat \ {0}
         /\ rd_retrying' \in BOOLEAN /\ rd_tmo' \in Nat
         /\ rd_served' \in BOOLEAN /\ rd_ready' \in BOOLEAN
         /\ rd_rline' \in [Beats -> Int \X Int]
  <1>1. PICK arready, rvalid \in BOOLEAN :
          /\ RdTick(rd_req_valid, r_addr, r_lines, arready, rvalid, s_rdata, s_rlast)
          /\ SlaveRead(arready, rvalid)
          /\ rvalid => m_axi_rready /\ s_owed # <<>>
    BY Zenon DEF Next
  <1>b. rd_retrying' \in BOOLEAN /\ rd_served' \in BOOLEAN /\ rd_ready' \in BOOLEAN
    BY <1>1, Zenon
       DEF RdTick, RdTimeout, RdIdle, RdStart, RdAddr, RdDataWait, RdBeat, RdDone,
           RdServed, IInv, TypeOK
  <1> USE DEF IInv, TypeOK, RdStates, RdTmo
  <1>2. 0 \in Beats /\ (rd_beat # BEATS_PER_LINE - 1 => rd_beat + 1 \in Beats)
    BY BeatsAssumption DEF Beats
  <1>3. CASE RdTimeout
    BY <1>2, <1>b, <1>3, Zenon DEF RdTimeout
  <1>4. CASE RdIdle(rd_req_valid)
    BY <1>b, <1>4 DEF RdIdle
  <1>5. CASE RdStart(rd_req_valid, r_addr, r_lines)
    BY <1>2, <1>b, <1>5 DEF RdStart, AtLeastOne, ResumeLine
  <1>6. CASE RdAddr(rd_req_valid, arready)
    BY <1>b, <1>6 DEF RdAddr
  <1>7. CASE RdDataWait(rd_req_valid, rvalid)
    BY <1>b, <1>7 DEF RdDataWait
  <1>8. CASE RdBeat(rd_req_valid, rvalid, s_rdata, s_rlast)
    <2>0. s_owed # <<>> /\ SlaveBeat
      BY <1>1, <1>8, Zenon DEF RdBeat, SlaveRead, m_axi_arvalid, m_axi_rready
    <2>a. s_rdata \in Nat \X Beats
      BY <2>0, SlaveServes, Zenon
    <2>1. s_rdata \in Int \X Int
      BY <2>a DEF Beats
    <2>2. rd_rline' \in [Beats -> Int \X Int]
      BY <1>8, <2>1, Zenon DEF RdBeat
    <2> QED
      BY <1>2, <1>b, <1>8, <2>2 DEF RdBeat, NextBeat
  <1>9. CASE RdDone(rd_req_valid)
    BY <1>2, <1>b, <1>9 DEF RdDone
  <1> QED
    BY <1>1, <1>3, <1>4, <1>5, <1>6, <1>7, <1>8, <1>9, Zenon DEF RdTick

\* Every register keeps its type.
LEMMA TypeStep ==
  ASSUME IInv, Next
  PROVE  TypeOK'
  <1>1. DCacheFill /\ ICacheFill /\ AccelFetch /\ CountBypass /\ ArbEdge
    BY Zenon DEF Next, ArbEdge
  <1>2. d_req' \in BOOLEAN /\ i_req' \in BOOLEAN /\ a_req' \in BOOLEAN
    BY <1>1, Zenon
       DEF DCacheFill, ICacheFill, AccelFetch, AccelStart, AccelStop, aVars,
           ldReq_after_line, IInv, TypeOK
  <1>a. d_addr' \in Nat /\ i_addr' \in Nat
    BY <1>1, LinesAssumption, Zenon DEF DCacheFill, ICacheFill, IInv, TypeOK
  <1>3. /\ a_burst' \in BOOLEAN /\ a_base' \in Nat
        /\ a_panel' \in Nat \ {0} /\ a_left' \in 0 .. a_panel'
    <2>1. CASE AccelStart
      BY <2>1, LinesAssumption DEF AccelStart
    <2>2. CASE AccelStop
      BY <2>2 DEF AccelStop, IInv, TypeOK
    <2>3. CASE UNCHANGED aVars
      BY <2>3, Zenon DEF aVars, IInv, TypeOK
    <2>4. CASE /\ a_left > 1 /\ a_left' = a_left - 1
               /\ UNCHANGED <<a_burst, a_base, a_panel>>
      BY <2>4 DEF IInv, TypeOK
    <2> QED BY <1>1, <2>1, <2>2, <2>3, <2>4, Zenon DEF AccelFetch
  <1>4. bypassed' \in [Requesters -> Nat]
    BY <1>1 DEF CountBypass, IInv, TypeOK
  <1>5. r_last' \in RLast
    BY <1>1, Zenon DEF ArbEdge, RArbTick, RArbGrant, RArbIdle, RArbWait, RArbLine,
                Grant, rArbVars, RLast, IInv, TypeOK
  <1> QED
    BY <1>2, <1>a, <1>3, <1>4, <1>5, ArbStep, SlaveType, EngineType, Zenon DEF TypeOK

(***************************************************************************)
(* The engine, the arbiter's counter and the slave's burst stay in step.   *)
(* One step per action of the engine.                                      *)
(***************************************************************************)
\* Engine, arbiter counter and slave burst stay in step, and so does the line register.
LEMMA EngineStep ==
  ASSUME IInv, Next, ~late'
  PROVE  EngineInv' /\ RightLine'
  <1>1. PICK arready, rvalid \in BOOLEAN :
          /\ RdTick(rd_req_valid, r_addr, r_lines, arready, rvalid, s_rdata, s_rlast)
          /\ SlaveRead(arready, rvalid)
          /\ rvalid => m_axi_rready /\ s_owed # <<>>
    BY Zenon DEF Next
  <1>2. ArbEdge
    BY Zenon DEF Next, ArbEdge
  <1>t. /\ rd_state \in RdStates /\ rd_beat \in 0 .. BEATS_PER_LINE - 1
        /\ rd_done_lines \in Nat /\ rd_addr_s \in Nat /\ rd_lines_s \in Nat /\ rd_tmo \in Nat
        /\ r_addr \in Nat /\ r_lines \in Nat \ {0} /\ r_count \in Nat
        /\ r_state \in RArbStates
        /\ rd_ready \in BOOLEAN /\ rd_served \in BOOLEAN /\ rd_retrying \in BOOLEAN
    BY Zenon DEF IInv, TypeOK, Beats
  <1>o. TypeOK /\ ~late
    BY SlaveType, Zenon DEF IInv
  <1>i. EngineInv /\ ArbInv /\ RightLine
    BY <1>o, Zenon DEF IInv
  <1>s. rd_state = "RD_DATA" =>
          /\ s_owed # <<>> /\ s_line \in Nat /\ s_beat \in 0 .. BEATS_PER_LINE - 1
          /\ s_left \in Nat \ {0}
    <2> SUFFICES ASSUME rd_state = "RD_DATA"
                 PROVE  /\ s_owed # <<>> /\ s_line \in Nat
                        /\ s_beat \in 0 .. BEATS_PER_LINE - 1 /\ s_left \in Nat \ {0}
      BY Zenon
    <2>1. s_owed # <<>>
      BY <1>i, Zenon DEF EngineInv, EngineData
    <2>2. Owed \in Burst
      BY <1>o, <2>1 DEF TypeOK, Owed
    <2> QED BY <2>1, <2>2 DEF Burst, Beats, s_line, s_beat, s_left
  \* An idle arbiter means an idle engine.
  <1>d. r_state = "R_IDLE" => rd_state = "RD_IDLE"
    BY <1>t, <1>i, Zenon DEF EngineInv, EngineAddr, EngineData, EngineDone, RdStates
  <1>3. CASE RdTimeout
    <2>1. r_state # "R_IDLE" /\ ~rd_ready /\ ~rd_served /\ rd_done_lines = r_count
      BY <1>3, <1>t, <1>i, TimeoutAssumption
         DEF RdTimeout, rd_eligible, EngineInv, EngineAddr, EngineData, EngineDone,
             SameRequest, Published, RdStates
    <2>2. r_state' = r_state /\ r_count' = r_count
      BY <1>2, <2>1, ArbHolds, Zenon
    <2> QED
      BY <1>3, <2>1, <2>2, Zenon
         DEF RdTimeout, EngineInv, EngineIdle, EngineAddr, EngineData, EngineDone, RightLine
  <1>4. CASE RdIdle(rd_req_valid)
    <2>1. r_state = "R_IDLE" /\ ~rd_retrying
      BY <1>4, <1>i, Zenon DEF RdIdle, rd_req_valid, EngineInv, EngineIdle
    <2>2. rd_state' = "RD_IDLE" /\ ~rd_ready' /\ ~rd_retrying' /\ ~rd_served'
      BY <1>4, <2>1, Zenon DEF RdIdle, RdServed, rd_req_valid
    <2>3. r_count' = 0
      BY <1>2, <2>1, ArbGrants, Zenon
    <2> QED
      BY <2>2, <2>3, Zenon
         DEF EngineInv, EngineIdle, EngineAddr, EngineData, EngineDone, RightLine
  <1>5. CASE RdStart(rd_req_valid, r_addr, r_lines)
    <2>1. r_state # "R_IDLE" /\ ~rd_ready /\ ~rd_served /\ ResumeLine = r_count
      BY <1>5, <1>t, <1>i, Zenon
         DEF RdStart, rd_req_valid, EngineInv, EngineIdle, ResumeLine
    <2>2. /\ r_state' = r_state /\ r_count' = r_count
          /\ r_addr' = r_addr /\ r_lines' = r_lines
      BY <1>2, <2>1, ArbHolds, Zenon
    <2>3. ~rd_served'
      BY <1>5, <2>1, Zenon DEF RdStart, RdServed
    <2> QED
      BY SMTT(30), <1>5, <1>t, <2>1, <2>2, <2>3
         DEF RdStart, AtLeastOne, EngineInv, EngineIdle, EngineAddr, EngineData,
             EngineDone, SameRequest, Published, RightLine
  <1>6. CASE RdAddr(rd_req_valid, arready)
    <2>1. /\ r_state # "R_IDLE" /\ ~rd_ready /\ SameRequest /\ rd_beat = 0
          /\ rd_done_lines = r_count /\ rd_done_lines < rd_lines_s
      BY <1>6, <1>t, <1>i DEF RdAddr, EngineInv, EngineAddr, SameRequest, Published, ArbInv
    <2>2. /\ r_state' = r_state /\ r_count' = r_count
          /\ r_addr' = r_addr /\ r_lines' = r_lines
      BY <1>2, <2>1, ArbHolds, Zenon
    <2>3. ~rd_served'
      BY <1>6, <2>1, Zenon DEF RdAddr, RdServed, SameRequest
    <2>4. /\ ~rd_ready' /\ rd_beat' = 0 /\ SameRequest'
          /\ rd_done_lines' = rd_done_lines /\ rd_lines_s' = rd_lines_s
          /\ rd_addr_s' = rd_addr_s
      BY <1>6, <1>t, <2>1, <2>2, <2>3, Zenon DEF RdAddr, SameRequest, Published
    <2>5. CASE arready
      <3>1. rd_state' = "RD_DATA" /\ SlaveAddr
        BY <1>1, <1>6, <2>5, Zenon DEF RdAddr, SlaveRead, m_axi_arvalid, m_axi_rready
      <3>2. /\ s_beat' = 0 /\ s_line' = rd_addr_s + rd_done_lines
            /\ s_left' = rd_lines_s - rd_done_lines /\ s_owed' # <<>>
        BY <1>o, <2>1, <3>1, SlaveAccepts, Zenon DEF rd_base, rd_remaining
      <3> QED
        BY <2>1, <2>2, <2>4, <3>1, <3>2
           DEF EngineInv, EngineIdle, EngineAddr, EngineData, EngineDone, RightLine, Beats
    <2>6. CASE ~arready
      BY <1>6, <2>1, <2>2, <2>4, <2>6, Zenon
         DEF RdAddr, EngineInv, EngineIdle, EngineAddr, EngineData, EngineDone, RightLine
    <2> QED BY <2>5, <2>6, Zenon
  \* While data flows the arbiter counts the line just published.
  <1>e. ASSUME rd_state = "RD_DATA"
        PROVE  /\ r_state # "R_IDLE" /\ r_state' = r_state
               /\ r_addr' = r_addr /\ r_lines' = r_lines
               /\ r_count' = r_count + Published
    <2>1. r_state # "R_IDLE" /\ rd_done_lines = r_count + Published
          /\ rd_done_lines < r_lines
      BY <1>e, <1>i, Zenon DEF EngineInv, EngineData, SameRequest
    <2>2. rd_ready => r_state = "R_A" /\ r_count + 1 < r_lines
      BY <1>t, <1>i, <2>1 DEF ArbInv, RArbStates, Published
    <2> QED
      BY <1>2, <1>t, <2>1, <2>2, ArbHolds DEF Published
  <1>7. CASE RdDataWait(rd_req_valid, rvalid)
    <2>1. rd_state = "RD_DATA" /\ ~rvalid
      BY <1>7, Zenon DEF RdDataWait
    <2>2. UNCHANGED slaveVars
      BY <1>1, <2>1, Zenon DEF SlaveRead, m_axi_arvalid, m_axi_rready
    <2>3. ~rd_served'
      BY <1>7, <1>i, <2>1, Zenon DEF RdDataWait, RdServed, EngineInv, EngineData, SameRequest
    <2>4. SameRequest' /\ ~rd_ready' /\ rd_state' = "RD_DATA"
      BY SMTT(30), <1>7, <1>e, <1>i, <1>t, <2>1, <2>3
         DEF RdDataWait, EngineInv, EngineData, SameRequest, Published
    <2> QED
      BY <1>7, <1>e, <1>i, <2>1, <2>2, <2>4, Zenon
         DEF RdDataWait, EngineInv, EngineIdle, EngineAddr, EngineData, EngineDone,
             RightLine, slaveVars, s_line, s_beat, s_left, Owed
  <1>8. CASE RdBeat(rd_req_valid, rvalid, s_rdata, s_rlast)
    <2>1. rd_state = "RD_DATA" /\ SlaveBeat
      BY <1>1, <1>8, Zenon DEF RdBeat, SlaveRead, m_axi_arvalid, m_axi_rready
    <2>s. /\ s_rdata = <<s_line, s_beat>>
          /\ s_rlast <=> s_beat = BEATS_PER_LINE - 1 /\ s_left = 1
          /\ s_beat # BEATS_PER_LINE - 1 =>
               s_owed' # <<>> /\ s_line' = s_line /\ s_beat' = s_beat + 1 /\ s_left' = s_left
          /\ s_beat = BEATS_PER_LINE - 1 /\ s_left # 1 =>
               s_owed' # <<>> /\ s_line' = s_line + 1 /\ s_beat' = 0 /\ s_left' = s_left - 1
      BY <1>o, <1>s, <2>1, SlaveServesLatest, Zenon
    <2>2. ~rd_served'
      BY <1>8, <1>i, <2>1, Zenon DEF RdBeat, RdServed, EngineInv, EngineData, SameRequest
    <2>3. /\ rd_addr_s' = rd_addr_s /\ rd_lines_s' = rd_lines_s /\ ~rd_retrying'
          /\ rd_tmo' = 0
      BY <1>8, <1>i, <2>1, Zenon
         DEF RdBeat, RdTmo, EngineInv, EngineData, SameRequest
    <2>4. rd_rline' = [rd_rline EXCEPT ![rd_beat] = <<s_line, rd_beat>>]
      BY <1>8, <1>i, <2>1, <2>s, Zenon DEF RdBeat, EngineInv, EngineData
    <2>5. rd_rline \in [Beats -> Int \X Int] /\ rd_beat \in Beats
      BY Zenon DEF IInv, TypeOK
    <2>6. CASE rd_beat # BEATS_PER_LINE - 1
      <3>1. /\ rd_state' = "RD_DATA" /\ rd_beat' = rd_beat + 1 /\ ~rd_ready'
            /\ rd_done_lines' = rd_done_lines
        BY <1>8, <1>i, <2>1, <2>s, <2>6, Zenon
           DEF RdBeat, NextBeat, EngineInv, EngineData
      <3>2. s_beat' = s_beat + 1 /\ s_line' = s_line /\ s_left' = s_left /\ s_owed' # <<>>
        BY <1>i, <2>1, <2>s, <2>6, Zenon DEF EngineInv, EngineData
      <3>3. SameRequest'
        BY <1>e, <1>i, <1>t, <2>1, <2>2, <2>3, <3>1
           DEF EngineInv, EngineData, SameRequest, Published
      <3>4. \A b \in Beats : b < rd_beat' => rd_rline'[b] = <<s_line', b>>
        <4> SUFFICES ASSUME NEW b \in Beats, b < rd_beat'
                     PROVE  rd_rline'[b] = <<s_line', b>>
          BY Zenon
        <4>1. CASE b = rd_beat
          BY <2>4, <2>5, <3>2, <4>1, Zenon
        <4>2. CASE b # rd_beat
          <5>1. b < rd_beat
            BY <1>t, <3>1, <4>2 DEF Beats
          <5> QED
            BY <1>i, <2>1, <2>4, <2>5, <3>2, <4>2, <5>1, Zenon DEF EngineInv, EngineData
        <4> QED BY <4>1, <4>2, Zenon
      <3> QED
        BY <1>e, <1>i, <2>1, <2>3, <3>1, <3>2, <3>3, <3>4, Zenon
           DEF EngineInv, EngineIdle, EngineAddr, EngineData, EngineDone, RightLine
    <2>7. CASE rd_beat = BEATS_PER_LINE - 1
      <3>1. ~rd_ready /\ r_count' = r_count
        BY <1>e, <1>i, <1>t, <2>1, <2>7, BeatsAssumption
           DEF EngineInv, EngineData, Published
      <3>2. rd_beat' = 0 /\ rd_ready' /\ rd_done_lines' = rd_done_lines + 1
        BY <1>8, <2>7, Zenon DEF RdBeat, NextBeat
      <3>3. s_left # 1 => /\ s_owed' # <<>>
                          /\ s_beat' = 0 /\ s_line' = s_line + 1 /\ s_left' = s_left - 1
        BY <1>i, <2>1, <2>s, <2>7, Zenon DEF EngineInv, EngineData
      <3>4. SameRequest'
        BY <1>e, <1>i, <1>t, <2>1, <2>2, <2>3, <3>1, <3>2, Zenon
           DEF EngineInv, EngineData, SameRequest, Published
      <3>5. rd_rline' = Line(r_addr' + r_count')
        <4>1. s_line = r_addr' + r_count'
          BY <1>e, <1>i, <1>t, <2>1, <3>1, Zenon
             DEF EngineInv, EngineData, SameRequest, Published
        <4>2. \A b \in Beats : rd_rline'[b] = <<s_line, b>>
          <5> SUFFICES ASSUME NEW b \in Beats PROVE rd_rline'[b] = <<s_line, b>>
            BY Zenon
          <5>1. CASE b = rd_beat
            BY <2>4, <2>5, <5>1, Zenon
          <5>2. CASE b # rd_beat
            <6>1. b < rd_beat
              BY <1>t, <2>7, <5>2 DEF Beats
            <6> QED
              BY <1>i, <2>1, <2>4, <2>5, <5>2, <6>1, Zenon DEF EngineInv, EngineData
          <5> QED BY <5>1, <5>2, Zenon
        <4>3. rd_rline' = [b \in Beats |-> rd_rline'[b]]
          BY <2>4, <2>5, Zenon
        <4> QED
          BY <4>1, <4>2, <4>3, Zenon DEF Line
      <3>6. rd_state' = IF s_left = 1 THEN "RD_DONE" ELSE "RD_DATA"
        BY <1>8, <1>i, <2>1, <2>s, <2>7, Zenon DEF RdBeat, EngineInv, EngineData
      <3> QED
        BY SMTT(30), <1>e, <1>i, <1>t, <1>s, <2>1, <2>3, <3>1, <3>2, <3>3, <3>4, <3>5, <3>6
           DEF EngineInv, EngineIdle, EngineAddr, EngineData, EngineDone, RightLine, Beats
    <2> QED BY <2>6, <2>7, Zenon
  <1>9. CASE RdDone(rd_req_valid)
    <2>1. r_state # "R_IDLE" /\ rd_ready /\ r_count + 1 = r_lines /\ ~rd_retrying
      BY <1>9, <1>i, <1>t, Zenon DEF RdDone, EngineInv, EngineDone, SameRequest, Published
    <2>2. r_state' = "R_IDLE"
      BY <1>2, <1>t, <2>1, ArbHolds
    <2> QED
      BY <1>9, <2>1, <2>2, Zenon
         DEF RdDone, EngineInv, EngineIdle, EngineAddr, EngineData, EngineDone, RightLine
  <1> QED
    BY <1>1, <1>3, <1>4, <1>5, <1>6, <1>7, <1>8, <1>9, Zenon DEF RdTick

\* The reset values of engine, arbiter and requesters satisfy the invariant.
LEMMA InvInit ==
  ASSUME Init PROVE IInv
  <1>1. TypeOK
    <2>1. rd_rline \in [Beats -> Int \X Int]
      BY DEF Init, RdInit, NoBeat
    <2>2. bypassed \in [Requesters -> Nat]
      BY Zenon DEF Init
    <2>3. 0 \in Beats
      BY BeatsAssumption DEF Beats
    <2>4. /\ rd_state \in RdStates /\ rd_beat \in Beats
          /\ rd_done_lines \in Nat /\ rd_addr_s \in Nat /\ rd_lines_s \in Nat \ {0}
          /\ rd_tmo \in Nat
      BY <2>3 DEF Init, RdInit, RdStates
    <2>b. /\ rd_retrying \in BOOLEAN /\ rd_served \in BOOLEAN /\ rd_ready \in BOOLEAN
          /\ d_req \in BOOLEAN /\ i_req \in BOOLEAN
          /\ a_req \in BOOLEAN /\ a_burst \in BOOLEAN
      BY Zenon DEF Init, RdInit
    <2>c. s_owed \in Seq(Burst)
      BY DEF Init
    <2>d. late \in BOOLEAN
      BY Zenon DEF Init
    <2>5. /\ r_state \in RArbStates /\ r_last \in RLast
          /\ r_addr \in Nat /\ r_lines \in Nat \ {0} /\ r_count \in Nat
      BY DEF Init, RArbInit, RArbStates, RLast
    <2> QED
      BY <2>1, <2>2, <2>3, <2>4, <2>5, <2>b, <2>c, <2>d DEF Init, TypeOK
  <1> QED
    BY <1>1, Zenon
       DEF Init, RdInit, RArbInit, IInv, EngineInv, EngineIdle, EngineAddr, EngineData,
           EngineDone, ArbInv, RequesterInv, RightLine

\* A cycle in which nothing changes preserves everything.
LEMMA InvStutter ==
  ASSUME IInv, UNCHANGED vars PROVE IInv'
  <1> USE DEF vars, rdVars, rArbVars, reqVars, aVars, slaveVars, IInv
  <1>1. TypeOK'
    BY DEF TypeOK
  <1>2. ~late' => EngineInv'
    BY Zenon DEF EngineInv, EngineIdle, EngineAddr, EngineData, EngineDone, SameRequest,
                 Published, s_line, s_beat, s_left, Owed
  <1>3. ArbInv' /\ RequesterInv'
    BY Zenon DEF ArbInv, RequesterInv, a_next
  <1>4. RightLine'
    BY Zenon DEF RightLine
  <1> QED BY <1>1, <1>2, <1>3, <1>4, Zenon

\* The strengthened invariant holds in every reachable cycle.
THEOREM Invariance == Spec => []IInv
  <1>1. Init => IInv
    BY InvInit, Zenon
  <1>2. IInv /\ [Next]_vars => IInv'
    <2>1. ASSUME IInv, Next PROVE IInv'
      <3>1. RightLine' /\ (~late' => EngineInv')
        BY <2>1, EngineStep, Zenon DEF RightLine
      <3> QED BY <2>1, <3>1, TypeStep, ArbStep, RequesterStep, Zenon DEF IInv
    <2> QED BY <2>1, InvStutter, Zenon
  <1> QED BY <1>1, <1>2, PTL DEF Spec

\* Every register and request wire keeps its type, for any number of beats, any
\* timeout limit and any panel size.
THEOREM TypeCorrect == Spec => []TypeOK
  BY Invariance, PTL DEF IInv

\* rd_ready announces exactly the next line of the granted request, whatever
\* timeouts the engine went through (axi_rw_engine's resume of rd_done_lines) and
\* whatever abandoned bursts the slave still owes, up to the first beat of one of
\* them that the engine takes for its own.
THEOREM RightLineAlways == Spec => []RightLine
  BY Invariance, PTL DEF IInv

\* The pulse reaches the requester that asked for this line, in single-line and
\* in burst requests (mem_arbiter_rw's routing by r_state and r_count).
THEOREM RightRequesterAlways == Spec => []RightRequester
  <1>1. IInv => RightRequester
    <2> SUFFICES ASSUME IInv, rd_ready PROVE RightRequester
      BY Zenon DEF RightRequester
    <2>1. r_state = "R_A" => r_addr + r_count = a_next
      <3>1. CASE a_burst
        BY <3>1 DEF IInv, RequesterInv, TypeOK, a_next
      <3>2. CASE ~a_burst
        BY <3>2, NextLineIsNat DEF IInv, RequesterInv, ArbInv, TypeOK
      <3> QED BY <3>1, <3>2, Zenon
    <2> QED BY <2>1, Zenon DEF RightRequester, IInv, RequesterInv
  <1> QED BY <1>1, Invariance, PTL

(***************************************************************************)
(* The rotation is fair, independently of everything else.                 *)
(***************************************************************************)
\* One clock edge of the arbiter keeps the rotation's bound.
LEMMA BypassStep ==
  ASSUME BypassInv, Next
  PROVE  BypassInv'
  <1>1. ArbEdge /\ CountBypass
    BY Zenon DEF Next, ArbEdge
  <1>2. bypassed' \in [Requesters -> Nat]
    BY <1>1 DEF CountBypass, BypassInv
  <1>3. \A r \in Requesters : bypassed'[r] =
          IF Granted(r) \/ r \notin Waiting THEN 0
          ELSE IF \E q \in Requesters : Granted(q) THEN bypassed[r] + 1
          ELSE bypassed[r]
    BY <1>1, Zenon DEF CountBypass
  <1>4. "D" \in Requesters /\ "I" \in Requesters /\ "A" \in Requesters
    BY Zenon DEF Requesters
  <1>u. /\ r_last = "RL_D" => bypassed["D"] = 0 /\ bypassed["A"] <= 1 /\ bypassed["I"] <= 2
        /\ r_last = "RL_I" => bypassed["I"] = 0 /\ bypassed["D"] <= 1 /\ bypassed["A"] <= 2
        /\ r_last = "RL_A" => bypassed["A"] = 0 /\ bypassed["I"] <= 1 /\ bypassed["D"] <= 2
        /\ bypassed["D"] \in Nat /\ bypassed["I"] \in Nat /\ bypassed["A"] \in Nat
        /\ r_last \in RLast
    BY <1>4, Zenon DEF BypassInv
  <1>w. ("D" \in Waiting <=> d_req) /\ ("I" \in Waiting <=> i_req) /\ ("A" \in Waiting <=> a_req)
    BY <1>4, Zenon DEF Waiting
  <1>g. /\ Granted("D") <=> r_grant_d(d_req, i_req, a_req)
        /\ Granted("I") <=> r_grant_i(d_req, i_req, a_req)
        /\ Granted("A") <=> r_grant_a(d_req, i_req, a_req)
    BY Zenon DEF Granted, r_grant_d, r_grant_i, r_grant_a
  <1>5. CASE Granted("D")
    <2>1. r_last' = "RL_D"
      BY <1>1, <1>5, <1>g, Zenon
         DEF ArbEdge, RArbTick, RArbGrant, RArbIdle, RArbWait, RArbLine, Grant,
             r_grant_d, r_grant_i, r_grant_a
    <2>2. bypassed'["D"] = 0
      BY <1>3, <1>4, <1>5, Zenon
    <2>3. bypassed'["A"] = (IF a_req THEN bypassed["A"] + 1 ELSE 0) /\ ~Granted("A")
      BY <1>3, <1>4, <1>5, <1>w, <1>g, Zenon DEF r_grant_a
    <2>4. bypassed'["I"] = (IF i_req THEN bypassed["I"] + 1 ELSE 0) /\ ~Granted("I")
      BY <1>3, <1>4, <1>5, <1>w, <1>g, Zenon DEF r_grant_i
    <2> QED
      BY <1>2, <1>5, <1>g, <1>u, <2>1, <2>2, <2>3, <2>4 DEF BypassInv, RLast, r_grant_d
  <1>6. CASE Granted("I")
    <2>1. r_last' = "RL_I"
      BY <1>1, <1>6, <1>g, Zenon
         DEF ArbEdge, RArbTick, RArbGrant, RArbIdle, RArbWait, RArbLine, Grant,
             r_grant_d, r_grant_i, r_grant_a
    <2>2. bypassed'["I"] = 0
      BY <1>3, <1>4, <1>6, Zenon
    <2>3. bypassed'["A"] = (IF a_req THEN bypassed["A"] + 1 ELSE 0)
      BY <1>3, <1>4, <1>6, <1>w, <1>g, Zenon DEF r_grant_a
    <2>4. bypassed'["D"] = (IF d_req THEN bypassed["D"] + 1 ELSE 0)
      BY <1>3, <1>4, <1>6, <1>w, <1>g, Zenon DEF r_grant_i
    <2> QED
      BY <1>2, <1>6, <1>g, <1>u, <2>1, <2>2, <2>3, <2>4
         DEF BypassInv, RLast, r_grant_d, r_grant_i
  <1>7. CASE Granted("A")
    <2>1. r_last' = "RL_A"
      BY <1>1, <1>7, <1>g, Zenon
         DEF ArbEdge, RArbTick, RArbGrant, RArbIdle, RArbWait, RArbLine, Grant,
             r_grant_d, r_grant_i, r_grant_a
    <2>2. bypassed'["A"] = 0
      BY <1>3, <1>4, <1>7, Zenon
    <2>3. bypassed'["I"] = (IF i_req THEN bypassed["I"] + 1 ELSE 0)
      BY <1>3, <1>4, <1>7, <1>w, <1>g, Zenon DEF r_grant_a
    <2>4. bypassed'["D"] = (IF d_req THEN bypassed["D"] + 1 ELSE 0)
      BY <1>3, <1>4, <1>7, <1>w, <1>g, Zenon DEF r_grant_a
    <2> QED
      BY <1>2, <1>7, <1>g, <1>u, <2>1, <2>2, <2>3, <2>4
         DEF BypassInv, RLast, r_grant_d, r_grant_i, r_grant_a
  <1>8. CASE \A r \in Requesters : ~Granted(r)
    <2>1. r_last' = r_last
      BY <1>1, <1>4, <1>8, <1>g, Zenon
         DEF ArbEdge, RArbTick, RArbGrant, RArbIdle, RArbWait, RArbLine, rArbVars
    <2>2. \A r \in Requesters : bypassed'[r] = 0 \/ bypassed'[r] = bypassed[r]
      BY <1>3, <1>8, Zenon
    <2> QED
      BY <1>2, <1>4, <1>u, <2>1, <2>2 DEF BypassInv
  <1> QED BY <1>5, <1>6, <1>7, <1>8, Zenon DEF Requesters

\* The rotation of mem_arbiter_rw passes a waiting requester over at most twice.
THEOREM BoundedBypassAlways == Spec => []BoundedBypass
  <1>1. Init => BypassInv
    BY DEF Init, RArbInit, BypassInv, RLast, Requesters
  <1>2. BypassInv /\ [Next]_vars => BypassInv'
    <2>1. CASE Next
      BY <2>1, BypassStep, Zenon
    <2>2. CASE UNCHANGED vars
      BY <2>2, Zenon DEF BypassInv, vars, rArbVars
    <2> QED BY <2>1, <2>2, Zenon
  <1>3. BypassInv => BoundedBypass
    BY DEF BypassInv, BoundedBypass, Requesters, RLast
  <1> QED BY <1>1, <1>2, <1>3, PTL DEF Spec
=============================================================================
