----------------------------- MODULE LoadProofs -----------------------------
(***************************************************************************)
(* That a load carries what the last store wrote, for every cache          *)
(* geometry and every workload: the invariants of the data cache and of    *)
(* what the memory, the TCM, the accelerator's registers and the timer     *)
(* hold beside the program's own view (arch).                              *)
(***************************************************************************)
EXTENDS MemStageProofs

(***************************************************************************)
(* The program's view of memory, behind the operation in MEM by what that  *)
(* operation has done already.                                             *)
(***************************************************************************)
Effect(w) ==
  CASE op.kind = "store" -> Merge(w, op.wdata, op.wmask)
    [] op.kind = "sc" -> IF sc_successful THEN Merge(w, op.wdata, op.wmask) ELSE w
    [] op.kind = "amo" -> AmoOf(w)
    [] OTHER -> w

Cached == DdrAddrs \cup TcmAddrs
Mem(a) == IF a.region = "tcm" THEN tcm_d_mem ELSE Memory(a)

MemTypes ==
  /\ tcm_d_mem \in Word /\ tcm_d_rdata \in Word /\ amo_old_value \in Word
  /\ DOMAIN arch = ArchAddrs /\ \A a \in Cached : arch[a] \in Word

\* The TCM answers the request of this cycle.
TcmInv ==
  /\ tcm_d_pending \in BOOLEAN /\ tcm_d_ready = tcm_d_pending
  /\ tcm_d_ready => /\ dcache_req.valid /\ op.addr.region = "tcm"
                    /\ dcache_req.write => tcm_d_mem = Effect(arch[op.addr])
                    /\ ~dcache_req.write => tcm_d_rdata = arch[op.addr]

MemInv ==
  /\ \A a \in Cached : a # op.addr => Mem(a) = arch[a]
  /\ cacheable => Mem(op.addr) \in {arch[op.addr], Effect(arch[op.addr])}
  /\ is_amo => /\ amo_state \in {"AMO_IDLE", "AMO_READ"} => Mem(op.addr) = arch[op.addr]
               /\ amo_state = "AMO_WRITE" => amo_old_value = arch[op.addr]
               /\ amo_result_ready => Mem(op.addr) = Effect(arch[op.addr])

(***************************************************************************)
(* The devices.                                                            *)
(***************************************************************************)

\* What a load from the accelerator is to carry.
FirstLane == CHOOSE l \in Lanes : TRUE
Expected == IF op.addr.reg = "RESULT" THEN Filled(Results[arch[IdxAddr][FirstLane]])
            ELSE arch[op.addr]

\* The register has acted on the access in MEM, as a store to r.
HasActed == done["accel"] \/ Acted
Wrote(r) == HasActed /\ op.kind = "store" /\ op.addr.reg = r
Stepped == HasActed /\ op.kind = "load" /\ op.addr.reg = "RESULT"

\* The addresses of the registers that keep a value.
RegAddrs(r) == {[o.addr EXCEPT !.reg = r] : o \in {p \in work.ops : p.addr.region = "accel"}}
               \cap ArchAddrs

AccelInv ==
  /\ \A a \in RegAddrs("DEST_ADDR") :
       IF Wrote("DEST_ADDR") THEN destAddr = op.wdata ELSE arch[a] = Filled(destAddr)
  /\ \A a \in RegAddrs("RESULT_IDX") :
       IF Wrote("RESULT_IDX") THEN resultIdx = op.wdata
       ELSE IF Stepped THEN resultIdx = NextIdx(arch[a][FirstLane])
       ELSE arch[a] = Filled(resultIdx)
  /\ op.kind = "load" /\ op.addr.region = "accel" =>
       /\ d_ready => Filled(d_rdata) = Expected
       /\ done["accel"] => rdata_latched["accel"] = Expected

UartInv ==
  op.kind = "load" /\ op.addr.region = "uart" =>
    /\ uart_ready => uart_rdata = Filled(Mark)
    /\ done["uart"] => rdata_latched["uart"] = Filled(Mark)

CmpInv ==
  \A o \in work.ops : o.addr.region = "clint" =>
    /\ o.addr.reg = "mtimecmp_lo" => arch[o.addr] = Filled(Lo(mtimecmp))
    /\ o.addr.reg = "mtimecmp_hi" => arch[o.addr] = Filled(Hi(mtimecmp))

(***************************************************************************)
(* The timer: what mtimecmp holds between the driver's three stores.       *)
(***************************************************************************)
TimerInv ==
  /\ mtime \in Nat /\ deadline \in Times /\ target \in Times /\ arm \in {0, 1, 2}
  /\ mtimecmp = IF arm = 0 THEN deadline
                ELSE Time(HALF - 1, Lo(IF arm = 1 THEN deadline ELSE target))
  /\ SetsTimer(op) => /\ op.addr.reg = Arming[arm + 1].reg
                      /\ op.wdata = Arming[arm + 1].wdata

\* The halves of a time (clint_timer.v keeps it as two registers).
LEMMA TimeParts ==
  ASSUME NEW hi \in Nat, NEW lo \in 0 .. HALF - 1
  PROVE  Time(hi, lo) \in Nat /\ Hi(Time(hi, lo)) = hi /\ Lo(Time(hi, lo)) = lo
  <1>1. hi * HALF + lo = HALF * hi + lo /\ HALF * hi + lo \in Nat
    BY HalfAssumption
  <1>2. (HALF * hi + lo) \div HALF = hi /\ (HALF * hi + lo) % HALF = lo
    BY HalfAssumption, DivisionOf, ZenonT(30)
  <1> QED BY <1>1, <1>2, ZenonT(30) DEF Time, Hi, Lo

\* A time is its two halves, and all ones in the upper half make it no earlier.
LEMMA TimeSplits ==
  ASSUME NEW x \in Times
  PROVE  /\ x \in Nat /\ Hi(x) \in 0 .. HALF - 1 /\ Lo(x) \in 0 .. HALF - 1
         /\ Time(Hi(x), Lo(x)) = x /\ Time(HALF - 1, Lo(x)) >= x
  <1>1. x \in Nat /\ HALF \in Nat \ {0} /\ x < HALF * HALF
    BY HalfAssumption DEF Times
  <1> DEFINE t == x \div HALF
             r == x % HALF
  <1>2. t \in Nat /\ r \in 0 .. HALF - 1 /\ x = HALF * t + r
    BY <1>1, Division, Zenon
  <1> HIDE DEF t, r
  <1>3. t < HALF
    <2> SUFFICES ASSUME HALF <= t PROVE FALSE
      BY <1>1, <1>2
    <2>1. CASE HALF = t
      BY <1>1, <1>2, <2>1, SMTT(30)
    <2>2. CASE HALF < t
      <3>1. HALF * HALF + HALF <= HALF * t
        BY <1>1, <1>2, <2>2, Multiples, SMTT(30)
      <3> QED BY <1>1, <1>2, <3>1, SMTT(30)
    <2> QED BY <1>1, <1>2, <2>1, <2>2, SMTT(30)
  <1>4. t * HALF + r = x
    BY <1>1, <1>2
  <1>5. (HALF - 1) * HALF + r >= x
    <2>1. CASE t = HALF - 1
      BY <1>1, <1>2, <1>4, <2>1, SMTT(30)
    <2>2. CASE t < HALF - 1
      <3>1. HALF * t + HALF <= HALF * (HALF - 1)
        BY <1>1, <1>2, <2>2, Multiples
      <3> QED BY <1>1, <1>2, <3>1
    <2> QED BY <1>1, <1>2, <1>3, <2>1, <2>2, SMTT(30)
  <1> QED BY <1>1, <1>2, <1>3, <1>4, <1>5, SMTT(30) DEF Time, Hi, Lo, t, r

\* mtimecmp is reset to a time.
LEMMA ResetTime ==
  Time(0, HALF - 1) \in Times
  <1>1. HALF \in Nat \ {0} /\ HALF * HALF >= HALF
    BY HalfAssumption
  <1> QED BY <1>1 DEF Times, Time

\* mtime stays a number, whatever half is written.
LEMMA MtimeStep ==
  ASSUME mtime \in Nat, NEW wen, NEW reg, NEW wdata \in Nat
  PROVE  MtimeNext(wen, reg, wdata) \in Nat
  <1> DEFINE up == (mtime + 1) % (HALF * HALF)
  <1>1. HALF \in Nat \ {0} /\ HALF * HALF \in Nat \ {0}
    BY HalfAssumption
  <1>2. up \in Nat
    BY <1>1, Division
  <1> HIDE DEF up
  <1>3. Hi(up) \in Nat /\ Lo(up) \in Nat
    BY <1>1, <1>2, Division DEF Hi, Lo
  <1>4. Time(Hi(up), wdata) \in Nat /\ Time(wdata, Lo(up)) \in Nat
    BY <1>1, <1>3 DEF Time
  <1> QED BY <1>2, <1>4, Zenon DEF MtimeNext, up

\* A store to mtimecmp takes effect in the cycle it leaves MEM, and nothing else
\* changes it (clint_wen).
LEMMA CmpEdge ==
  ASSUME CoreTypes, TimerTick
  PROVE  /\ ~(SetsTimer(op) /\ ~global_mem_stall) => mtimecmp' = mtimecmp
         /\ SetsTimer(op) /\ ~global_mem_stall =>
              mtimecmp' = IF op.addr.reg = "mtimecmp_lo" THEN Time(Hi(mtimecmp), op.wdata)
                          ELSE Time(op.wdata, Lo(mtimecmp))
  <1>1. CASE SetsTimer(op) /\ ~global_mem_stall
    <2>1. clint_wen /\ op.addr.reg \in {"mtimecmp_lo", "mtimecmp_hi"} /\ op.kind = "store"
      BY <1>1, Zenon DEF SetsTimer, clint_wen, store_commits, is_store
    <2>2. work.timer
      BY <1>1, <2>1, OpKinds, Zenon DEF SetsTimer
    <2> QED BY <1>1, <2>1, <2>2, ZenonT(30) DEF TimerTick, ClintTick, CmpNext
  <1>2. CASE ~(SetsTimer(op) /\ ~global_mem_stall)
    <2>1. CASE clint_wen
      <3>1. op.kind = "store" /\ op.addr.region = "clint" /\ ~global_mem_stall
        BY <2>1, OpKinds, ZenonT(30) DEF clint_wen, store_commits, is_store, WellFormed
      <3>2. op.addr.reg \notin {"mtimecmp_lo", "mtimecmp_hi"}
        BY <1>2, <3>1, Zenon DEF SetsTimer
      <3> QED BY <1>2, <2>1, <3>2, ZenonT(30) DEF TimerTick, ClintTick, CmpNext, clintVars
    <2>2. CASE ~clint_wen
      BY <1>2, <2>2, Zenon DEF TimerTick, ClintTick, CmpNext, clintVars
    <2> QED BY <2>1, <2>2, Zenon
  <1> QED BY <1>1, <1>2, Zenon

\* What enters MEM next, with the driver's count.
LEMMA ArmEdge ==
  ASSUME CoreTypes, arm \in {0, 1, 2}, Next
  PROVE  /\ TimerDriver /\ TimerTick
         /\ global_mem_stall => op' = op /\ armNext = arm
         /\ ~global_mem_stall /\ SetsTimer(op') =>
              /\ op'.addr.reg = Arming[armNext + 1].reg
              /\ op'.wdata = Arming[armNext + 1].wdata
  <1>1. PICK trap_taken, a_idx, dmem_ready, imem_ready, answers :
          /\ Tick(op', pc', trap_taken, a_idx, dmem_ready, imem_ready, answers)
          /\ TimerDriver
          /\ IF global_mem_stall THEN op' = op
             ELSE op' \in NextOps(trap_taken)
    BY NextTick, ZenonT(30)
  <1>2. TimerTick
    BY <1>1, Zenon DEF Tick
  <1>3. global_mem_stall => op' = op /\ armNext = arm
    BY <1>1, ZenonT(30) DEF armNext
  <1>4. ASSUME ~global_mem_stall, SetsTimer(op')
        PROVE  /\ op'.addr.reg = Arming[armNext + 1].reg
               /\ op'.wdata = Arming[armNext + 1].wdata
    <2>1. op' # NoOp
      BY <1>4 DEF SetsTimer, NoOp
    <2>2. Allowed(op')
      BY <1>1, <1>4, <2>1, ZenonT(30) DEF NextOps
    <2>3. [reg |-> op'.addr.reg, wdata |-> op'.wdata] = Arming[armNext + 1]
      BY <1>4, <2>2, ZenonT(30) DEF Allowed
    <2> QED BY <2>3
  <1> QED BY <1>1, <1>2, <1>3, <1>4, ZenonT(30)

\* The driver's stores move mtimecmp out of the way, then into place.
LEMMA TimerStep ==
  ASSUME CoreTypes, TimerInv, Next
  PROVE  TimerInv'
  <1>t. /\ mtime \in Nat /\ deadline \in Times /\ target \in Times /\ arm \in {0, 1, 2}
        /\ mtimecmp = IF arm = 0 THEN deadline
                      ELSE Time(HALF - 1, Lo(IF arm = 1 THEN deadline ELSE target))
        /\ SetsTimer(op) => /\ op.addr.reg = Arming[arm + 1].reg
                            /\ op.wdata = Arming[arm + 1].wdata
    BY Zenon DEF TimerInv
  <1>e. /\ TimerDriver /\ TimerTick
        /\ global_mem_stall => op' = op /\ armNext = arm
        /\ ~global_mem_stall /\ SetsTimer(op') =>
             /\ op'.addr.reg = Arming[armNext + 1].reg
             /\ op'.wdata = Arming[armNext + 1].wdata
    BY <1>t, ArmEdge, ZenonT(30)
  <1>1. op.wdata \in Nat
    BY OpKinds, MemoryAssumption DEF NoOp, WellFormed
  <1>2. mtime' \in Nat
    BY <1>t, <1>e, <1>1, MtimeStep, ZenonT(30) DEF TimerTick, ClintTick, clintVars
  <1>3. HALF - 1 \in Nat
    BY HalfAssumption
  <1>4. CASE SetsTimer(op) /\ ~global_mem_stall
    <2>0. mtimecmp' = IF op.addr.reg = "mtimecmp_lo" THEN Time(Hi(mtimecmp), op.wdata)
                      ELSE Time(op.wdata, Lo(mtimecmp))
      BY <1>4, <1>e, CmpEdge, ZenonT(30)
    <2>1. CASE arm = 0
      <3>1. op.addr.reg = "mtimecmp_hi" /\ op.wdata = HALF - 1 /\ armNext = 1
        BY <1>4, <1>t, <2>1, SMTT(30) DEF Arming, armNext
      <3>2. arm' = 1 /\ deadline' = deadline /\ target' = target
        BY <1>e, <2>1, <3>1, SMTT(30) DEF TimerDriver
      <3>3. mtimecmp' = Time(HALF - 1, Lo(deadline))
        BY <1>t, <2>0, <2>1, <3>1, ZenonT(30)
      <3>4. SetsTimer(op') => /\ op'.addr.reg = Arming[2].reg
                              /\ op'.wdata = Arming[2].wdata
        BY <1>4, <1>e, <3>1, SMTT(30)
      <3> QED BY <1>t, <1>2, <3>2, <3>3, <3>4, SMTT(30) DEF TimerInv, Arming, SetsTimer
    <2>2. CASE arm = 1
      <3>1. op.addr.reg = "mtimecmp_lo" /\ op.wdata = Lo(target) /\ armNext = 2
        BY <1>4, <1>t, <2>2, SMTT(30) DEF Arming, armNext
      <3>2. arm' = 2 /\ deadline' = deadline /\ target' = target
        BY <1>e, <2>2, <3>1, SMTT(30) DEF TimerDriver
      <3>3. Hi(mtimecmp) = HALF - 1
        BY <1>t, <1>3, <2>2, TimeParts, TimeSplits, SMTT(30)
      <3>4. mtimecmp' = Time(HALF - 1, Lo(target))
        BY <2>0, <3>1, <3>3, ZenonT(30)
      <3>5. SetsTimer(op') => /\ op'.addr.reg = Arming[3].reg
                              /\ op'.wdata = Arming[3].wdata
        BY <1>4, <1>e, <3>1, SMTT(30)
      <3> QED BY <1>t, <1>2, <3>2, <3>4, <3>5, SMTT(30) DEF TimerInv, Arming, SetsTimer
    <2>3. CASE arm = 2
      <3>1. op.addr.reg = "mtimecmp_hi" /\ op.wdata = Hi(target) /\ armNext = 0
        BY <1>4, <1>t, <2>3, SMTT(30) DEF Arming, armNext
      <3>2. arm' = 0 /\ deadline' = target /\ target' \in Times
        BY <1>e, <2>3, <3>1, ZenonT(30) DEF TimerDriver
      <3>3. Lo(mtimecmp) = Lo(target) /\ Time(Hi(target), Lo(target)) = target
        BY <1>t, <1>3, <2>3, TimeParts, TimeSplits, SMTT(30)
      <3>4. mtimecmp' = target
        BY <2>0, <3>1, <3>3, ZenonT(30)
      <3>5. SetsTimer(op') => /\ op'.addr.reg = Arming[1].reg
                              /\ op'.wdata = Arming[1].wdata
        BY <1>4, <1>e, <3>1, SMTT(30)
      <3> QED BY <1>t, <1>2, <3>2, <3>4, <3>5, SMTT(30) DEF TimerInv, Arming, SetsTimer
    <2> QED BY <1>t, <2>1, <2>2, <2>3, ZenonT(30)
  <1>5. CASE ~(SetsTimer(op) /\ ~global_mem_stall)
    <2>1. mtimecmp' = mtimecmp
      BY <1>5, <1>e, CmpEdge, ZenonT(30)
    <2>2. armNext = arm
      BY <1>5, ZenonT(30) DEF armNext
    <2>3. arm' = arm /\ deadline' = deadline /\ target' = target
      BY <1>e, <2>2, SMTT(30) DEF TimerDriver
    <2>4. SetsTimer(op') => /\ op'.addr.reg = Arming[arm + 1].reg
                            /\ op'.wdata = Arming[arm + 1].wdata
      BY <1>t, <1>e, <2>2, ZenonT(30)
    <2> QED BY <1>t, <1>2, <2>1, <2>3, <2>4, ZenonT(30) DEF TimerInv, Arming, SetsTimer
  <1> QED BY <1>4, <1>5, ZenonT(30)

\* mtimecmp starts as the deadline the driver assumes.
LEMMA TimerInit ==
  ASSUME Init
  PROVE  TimerInv
  <1>1. mtimecmp \in Times
    BY ResetTime, ZenonT(30) DEF Init, ClintInit
  <1>2. target \in Times /\ deadline = mtimecmp /\ arm = 0 /\ mtime = 0 /\ op = NoOp
    BY <1>1, ZenonT(30) DEF Init, ClintInit
  <1>3. ~SetsTimer(op)
    BY <1>2, ZenonT(30) DEF SetsTimer, NoOp
  <1> QED BY <1>1, <1>2, <1>3, ZenonT(30) DEF TimerInv

\* Between the driver's stores mtimecmp is a deadline, or out of reach with a
\* deadline's lower half (clint_timer.v, timer driver's order of stores).
THEOREM DriverArms == Spec => []TimerInv
  <1>1. CoreTypes /\ TimerInv /\ [Next]_vars => TimerInv'
    <2> SUFFICES ASSUME CoreTypes, TimerInv, [Next]_vars PROVE TimerInv'
      BY Zenon
    <2>1. CASE Next
      BY <2>1, TimerStep, ZenonT(30)
    <2>2. CASE UNCHANGED vars
      BY <2>2, ZenonT(30) DEF vars, clintVars, memStageVars, TimerInv, SetsTimer, Arming
    <2> QED BY <2>1, <2>2, ZenonT(30)
  <1> QED BY <1>1, WorkloadRuns, TimerInit, PTL DEF Spec

\* Whatever stalls come between the driver's stores, an interrupt means that a
\* deadline has passed, for every width of the timer (clint_timer.v).
THEOREM TicksOnTime == Spec => []NoEarlyTick
  <1>1. TimerInv => NoEarlyTick
    <2> SUFFICES ASSUME TimerInv, mtime >= mtimecmp
                 PROVE  mtime >= deadline \/ (arm # 0 /\ mtime >= target)
      BY Zenon DEF NoEarlyTick, timer_interrupt
    <2>1. mtime \in Nat /\ deadline \in Times /\ target \in Times /\ arm \in {0, 1, 2}
      BY Zenon DEF TimerInv
    <2>2. CASE arm = 0
      BY <2>2, ZenonT(30) DEF TimerInv
    <2>3. CASE arm = 1
      <3>1. mtimecmp = Time(HALF - 1, Lo(deadline))
        BY <2>3, SMTT(30) DEF TimerInv
      <3>2. deadline \in Nat /\ Lo(deadline) \in 0 .. HALF - 1 /\ mtimecmp >= deadline
        BY <2>1, <3>1, TimeSplits, ZenonT(30)
      <3>3. HALF - 1 \in Nat
        BY HalfAssumption
      <3>4. mtimecmp \in Nat
        BY <3>1, <3>2, <3>3, TimeParts, ZenonT(30)
      <3> QED BY <2>1, <3>2, <3>4, SMTT(30)
    <2>4. CASE arm = 2
      <3>1. mtimecmp = Time(HALF - 1, Lo(target))
        BY <2>4, SMTT(30) DEF TimerInv
      <3>2. target \in Nat /\ Lo(target) \in 0 .. HALF - 1 /\ mtimecmp >= target
        BY <2>1, <3>1, TimeSplits, SMTT(30)
      <3>3. HALF - 1 \in Nat
        BY HalfAssumption
      <3>4. mtimecmp \in Nat
        BY <3>1, <3>2, <3>3, TimeParts, Zenon
      <3> QED BY <2>1, <2>4, <3>2, <3>4, SMTT(30)
    <2> QED BY <2>1, <2>2, <2>3, <2>4, ZenonT(30)
  <1> QED BY <1>1, DriverArms, PTL

(***************************************************************************)
(* The memory and the program's view of it.                                *)
(***************************************************************************)

\* The workload's addresses are the program's, and those of the TCM are one.
LEMMA Addresses ==
  ASSUME CoreTypes
  PROVE  /\ Cached \subseteq ArchAddrs
         /\ \A o \in work.ops : o.addr.region \in {"tcm", "accel", "clint"} => o.addr \in ArchAddrs
         /\ \A a \in Cached : a.region \in {"ddr", "tcm"} /\ (a.region = "tcm" <=> a \notin DdrAddrs)
         /\ \A a, b \in TcmAddrs : a = b
  <1>1. \A o \in work.ops : o.addr.region \in {"tcm", "accel", "clint"} => o.addr \in ArchAddrs
    BY ZenonT(30) DEF CoreTypes, ArchAddrs
  <1>2. \A a \in TcmAddrs : a.region = "tcm" /\ a \in ArchAddrs
    BY <1>1, ZenonT(30) DEF TcmAddrs
  <1>3. \A a \in DdrAddrs : a.region = "ddr" /\ a \in ArchAddrs
    BY ZenonT(30) DEF DdrAddrs, ArchAddrs
  <1>4. ASSUME NEW a \in TcmAddrs, NEW b \in TcmAddrs PROVE a = b
    <2>1. PICK o1 \in work.ops : o1.addr = a /\ a.region = "tcm"
      BY Zenon DEF TcmAddrs
    <2>2. PICK o2 \in work.ops : o2.addr = b /\ b.region = "tcm"
      BY ZenonT(30) DEF TcmAddrs
    <2>3. SameLocation(a, b)
      BY <2>1, <2>2, WorkloadsAssumption, ZenonT(30) DEF CoreTypes
    <2> QED BY <2>1, <2>3, ZenonT(30) DEF SameLocation
  <1> QED BY <1>1, <1>2, <1>3, <1>4, ZenonT(30) DEF Cached

\* Does leaving MEM move the result index on?
StepsIndex == is_load /\ op.addr.region = "accel" /\ op.addr.reg = "RESULT"

\* What leaving MEM does to the program's view.
LEMMA RetireAll ==
  ASSUME CoreTypes, DOMAIN arch = ArchAddrs, NEW trap_taken, Retire(trap_taken),
         op.kind = "sc" => (sc_successful <=> resv = {op.addr})
  PROVE  /\ DOMAIN arch' = ArchAddrs
         /\ \A a \in ArchAddrs :
              arch'[a] = IF StepsIndex
                         THEN IF a = IdxAddr THEN Filled(NextIdx(arch[a][FirstLane])) ELSE arch[a]
                         ELSE IF a = op.addr THEN Effect(arch[a]) ELSE arch[a]
  <1>1. CASE op.addr.region = "uart"
    <2>1. \A a \in ArchAddrs : a.region # "uart"
      BY Zenon DEF ArchAddrs, DdrAddrs
    <2> QED BY <1>1, <2>1, ZenonT(30) DEF Retire, StepsIndex
  <1>2. CASE StepsIndex
    <2>1. arch' = [arch EXCEPT ![IdxAddr] = Filled(NextIdx(arch[IdxAddr][FirstLane]))]
      BY <1>2, ZenonT(30) DEF Retire, StepsIndex, FirstLane
    <2> HIDE DEF IdxAddr, FirstLane
    <2>2. DOMAIN arch' = ArchAddrs
      BY <2>1, ZenonT(30)
    <2>3. ASSUME NEW a \in ArchAddrs
          PROVE  arch'[a] = IF a = IdxAddr THEN Filled(NextIdx(arch[a][FirstLane])) ELSE arch[a]
      BY <2>1, ZenonT(30)
    <2> QED BY <1>2, <2>2, <2>3, ZenonT(30)
  <1>3. CASE op.addr.region # "uart" /\ ~StepsIndex
    <2> DEFINE e(w) == CASE op.kind = "store" -> Merge(w, op.wdata, op.wmask)
                         [] op.kind = "sc" -> IF resv = {op.addr} THEN Merge(w, op.wdata, op.wmask)
                                              ELSE w
                         [] op.kind = "amo" -> AmoOf(w)
                         [] OTHER -> w
    <2>1. arch' = [arch EXCEPT ![op.addr] = e(arch[op.addr])]
      BY <1>3, ZenonT(30) DEF Retire, StepsIndex
    <2>2. e(arch[op.addr]) = Effect(arch[op.addr])
      BY Zenon DEF Effect
    <2> HIDE DEF e
    <2> QED BY <1>3, <2>1, <2>2, ZenonT(30)
  <1> QED BY <1>1, <1>2, <1>3, ZenonT(30)

\* What leaving MEM does to the program's view of memory.
LEMMA RetireMem ==
  ASSUME CoreTypes, DOMAIN arch = ArchAddrs, NEW trap_taken, Retire(trap_taken),
         op.kind = "sc" => (sc_successful <=> resv = {op.addr})
  PROVE  \A a \in Cached : arch'[a] = IF a = op.addr THEN Effect(arch[a]) ELSE arch[a]
  <1>1. \A a \in Cached : a \in ArchAddrs /\ a.region \in {"ddr", "tcm"}
    BY Addresses, ZenonT(30)
  <1>2. ASSUME StepsIndex PROVE op.addr.region = "accel" /\ IdxAddr.region = "accel"
    <2>1. op.kind # "none" /\ op.addr.region = "accel"
      BY <1>2, ZenonT(30) DEF StepsIndex, is_load
    <2>2. op.addr \in AccelAddrs
      BY <2>1, OpKinds, ZenonT(30) DEF WellFormed
    <2> QED BY <2>1, <2>2, ZenonT(30) DEF IdxAddr, AccelAddrs
  <1> HIDE DEF IdxAddr
  <1> QED BY <1>1, <1>2, RetireAll, ZenonT(30)

\* Storing is repeatable: a request that writes makes the operation's word of the
\* old word, or of the word it made before.
LEMMA StoredRight ==
  ASSUME CoreTypes, MemTypes, MemInv, dcache_req.write
  PROVE  Stored(Mem(op.addr)) = Effect(arch[op.addr])
  <1> DEFINE A == arch[op.addr]
             E == Effect(A)
             M == Mem(op.addr)
  <1>0. cacheable /\ (store_commits \/ amo_write_phase) /\ op.addr \in Cached
    BY ReqShape, ZenonT(30) DEF dcache_req, dcache_wen, Cached
  <1>1. A \in Word /\ M \in {A, E}
    BY <1>0, ZenonT(30) DEF MemTypes, MemInv
  <1>2. CASE amo_write_phase
    <2>1. op.kind = "amo" /\ amo_old_value = A
      BY <1>2, Zenon DEF amo_write_phase, is_amo, MemInv
    <2>2. E = AmoOf(A)
      BY <2>1, ZenonT(30) DEF Effect
    <2>3. dcache_req.wmask = Lanes /\ dcache_req.wdata = AmoOf(A)
      BY <1>2, <2>1, ZenonT(30) DEF dcache_req, amo_new_value, AmoOf
    <2>4. Stored(M) = [l \in Lanes |-> AmoOf(A)[l]]
      BY <2>3, ZenonT(30) DEF Stored
    <2>5. AmoOf(A) = [l \in Lanes |-> AmoOf(A)[l]]
      BY ZenonT(30) DEF AmoOf
    <2> QED BY <2>2, <2>4, <2>5, SMTT(30)
  <1>3. CASE ~amo_write_phase
    <2>1. store_commits
      BY <1>0, <1>3, ZenonT(30)
    <2>2. E = Merge(A, op.wdata, op.wmask)
      BY <2>1, ZenonT(30) DEF store_commits, is_store, Effect
    <2>3. dcache_req.wdata = Filled(op.wdata) /\ dcache_req.wmask = op.wmask
      BY <1>3, <2>1, ZenonT(30) DEF dcache_req, store_commits
    <2>4. \A w : Stored(w) = Merge(w, op.wdata, op.wmask)
      BY <2>3, Zenon DEF Stored, Merge, Filled
    <2>5. Merge(Merge(A, op.wdata, op.wmask), op.wdata, op.wmask) = Merge(A, op.wdata, op.wmask)
      BY Zenon DEF Merge
    <2>6. Stored(M) = E
      <3>1. Stored(M) = Merge(M, op.wdata, op.wmask)
        BY <2>4, Zenon
      <3> HIDE DEF A, E, M
      <3> QED BY <1>1, <2>2, <2>5, <3>1, ZenonT(30)
    <2> QED BY <2>6, ZenonT(30)
  <1> QED BY <1>2, <1>3, ZenonT(30)

\* The TCM's share of an edge.
LEMMA TcmEdge ==
  ASSUME CoreTypes, TcmInv, Next
  PROVE  /\ tcm_d_pending' \in BOOLEAN /\ tcm_d_ready' = tcm_d_pending'
         /\ tcm_d_ready' = tcm_d_req(dcache_req)
         /\ tcm_d_req(dcache_req) <=> /\ dcache_req.valid /\ op.addr.region = "tcm"
                                      /\ ~tcm_d_ready
         /\ tcm_d_mem' = IF tcm_d_req(dcache_req) /\ dcache_req.write THEN Stored(tcm_d_mem)
                         ELSE tcm_d_mem
         /\ tcm_d_rdata' = IF tcm_d_req(dcache_req) THEN tcm_d_mem ELSE tcm_d_rdata
  <1>1. TcmDTick(dcache_req)
    BY CacheEdge, ZenonT(30)
  <1>2. tcm_d_pending \in BOOLEAN /\ tcm_d_ready = tcm_d_pending /\ dcache_req.addr = op.addr
    BY ReqShape, ZenonT(30) DEF TcmInv
  <1>3. tcm_d_req(dcache_req) <=> dcache_req.valid /\ op.addr.region = "tcm" /\ ~tcm_d_ready
    BY <1>2, ZenonT(30) DEF tcm_d_req
  <1>4. tcm_d_req(dcache_req) \in BOOLEAN
    BY Zenon DEF tcm_d_req, dcache_req
  <1>5. tcm_d_ready' = tcm_d_req(dcache_req)
    BY <1>1, ZenonT(30) DEF TcmDTick
  <1>6. tcm_d_pending' = IF tcm_d_req(dcache_req) THEN TRUE ELSE IF tcm_d_ready THEN FALSE
                         ELSE tcm_d_pending
    BY <1>1, ZenonT(30) DEF TcmDTick
  <1>7. tcm_d_pending' = tcm_d_req(dcache_req)
    BY <1>2, <1>4, <1>6, ZenonT(30)
  <1>8. /\ tcm_d_mem' = IF tcm_d_req(dcache_req) /\ dcache_req.write THEN Stored(tcm_d_mem)
                        ELSE tcm_d_mem
        /\ tcm_d_rdata' = IF tcm_d_req(dcache_req) THEN tcm_d_mem ELSE tcm_d_rdata
    BY <1>1, Zenon DEF TcmDTick, Stored
  <1> QED BY <1>3, <1>4, <1>5, <1>7, <1>8, ZenonT(30)

\* Does this edge write the word of the operation in MEM?
Writes == wr_hit(dcache_req) \/ (tcm_d_req(dcache_req) /\ dcache_req.write)

\* An edge writes the word of the operation in MEM or none.
LEMMA MemMoves ==
  ASSUME CoreTypes, AmoInv, HandshakeInv, CacheInv, MemTypes, TcmInv, Next
  PROVE  /\ \A a \in Cached : Mem(a)' = IF Writes /\ a = op.addr THEN Stored(Mem(a)) ELSE Mem(a)
         /\ Writes => dcache_req.write
  <1>1. \A a \in DdrAddrs :
          Memory(a)' = IF wr_hit(dcache_req) /\ a = op.addr THEN Stored(Memory(a)) ELSE Memory(a)
    BY CacheStep, Zenon DEF MemTypes
  <1>2. tcm_d_mem' = IF tcm_d_req(dcache_req) /\ dcache_req.write THEN Stored(tcm_d_mem)
                     ELSE tcm_d_mem
    BY TcmEdge, ZenonT(30)
  <1>3. /\ wr_hit(dcache_req) => op.addr.region = "ddr" /\ dcache_req.write
        /\ tcm_d_req(dcache_req) => op.addr.region = "tcm" /\ op.addr \in TcmAddrs
    BY ReqShape, ZenonT(30) DEF wr_hit, bram_ready, tcm_d_req
  <1>4. ASSUME NEW a \in Cached
        PROVE  Mem(a)' = IF Writes /\ a = op.addr THEN Stored(Mem(a)) ELSE Mem(a)
    <2>1. a.region \in {"ddr", "tcm"} /\ (a.region = "tcm" <=> a \notin DdrAddrs)
          /\ \A b, c \in TcmAddrs : b = c
      BY Addresses, ZenonT(30)
    <2>2. CASE a.region = "ddr"
      <3>1. Mem(a) = Memory(a) /\ Mem(a)' = Memory(a)'
        BY <2>2, Zenon DEF Mem
      <3> QED BY <1>1, <1>3, <2>1, <2>2, <3>1, ZenonT(30) DEF Writes
    <2>3. CASE a.region = "tcm"
      <3>1. Mem(a) = tcm_d_mem /\ Mem(a)' = tcm_d_mem'
        BY <2>3, ZenonT(30) DEF Mem
      <3>2. a \in TcmAddrs
        BY <2>1, <2>3, ZenonT(30) DEF Cached
      <3>3. tcm_d_req(dcache_req) => a = op.addr
        BY <1>3, <2>1, <3>2, ZenonT(30)
      <3> QED BY <1>2, <1>3, <2>3, <3>1, <3>3, ZenonT(30) DEF Writes
    <2> QED BY <2>1, <2>2, <2>3, ZenonT(30)
  <1> QED BY <1>3, <1>4, ZenonT(30) DEF Writes

\* What an edge does to the sequencer and to the program's view.
LEMMA ViewEdge ==
  ASSUME CoreTypes, ResvInv, DOMAIN arch = ArchAddrs, Next
  PROVE  /\ AmoTick
         /\ global_mem_stall => op' = op /\ arch' = arch
         /\ DOMAIN arch' = ArchAddrs
         /\ ~global_mem_stall =>
              \A a \in Cached : arch'[a] = IF a = op.addr THEN Effect(arch[a]) ELSE arch[a]
         /\ ~global_mem_stall =>
              \A a \in ArchAddrs :
                arch'[a] = IF StepsIndex
                           THEN IF a = IdxAddr THEN Filled(NextIdx(arch[a][FirstLane])) ELSE arch[a]
                           ELSE IF a = op.addr THEN Effect(arch[a]) ELSE arch[a]
  <1>1. PICK trap_taken :
          /\ AmoTick
          /\ IF global_mem_stall THEN op' = op /\ arch' = arch ELSE Retire(trap_taken)
    BY NextTick, ZenonT(30) DEF Tick
  <1>2. op.kind = "sc" => (sc_successful <=> resv = {op.addr})
    BY ScVerdict, Zenon
  <1>3. CASE global_mem_stall
    BY <1>1, <1>3, Zenon
  <1>4. CASE ~global_mem_stall
    BY <1>1, <1>2, <1>4, RetireMem, RetireAll, ZenonT(30)
  <1> QED BY <1>3, <1>4, ZenonT(30)

\* An operation makes a word of a word.
LEMMA EffectWord ==
  ASSUME CoreTypes, NEW w \in Word
  PROVE  Effect(w) \in Word
  <1>1. op.wdata \in Values
    BY OpKinds, MemoryAssumption DEF NoOp, WellFormed
  <1>2. Merge(w, op.wdata, op.wmask) \in Word /\ AmoOf(w) \in Word
    BY <1>1, Zenon DEF Merge, AmoOf, Word
  <1> QED BY <1>2, ZenonT(30) DEF Effect

\* An answer is the word the address holds.
LEMMA AnswerReads ==
  ASSUME CoreTypes, CacheInv, MemTypes, TcmInv, dcache_req.valid, dcache_ready(dcache_req)
  PROVE  /\ dcache_rdata(dcache_req) \in Word
         /\ op.addr.region = "ddr" => dcache_rdata(dcache_req) = Mem(op.addr)
         /\ op.addr.region = "tcm" => dcache_rdata(dcache_req) = tcm_d_rdata /\ tcm_d_ready
         /\ op.addr \in Cached
  <1>1. /\ dcache_req.addr = op.addr /\ op.addr.region \in {"ddr", "tcm"}
        /\ op.addr \in Cached
    BY ReqShape, Zenon DEF Cached
  <1>2. CASE op.addr.region = "tcm"
    BY <1>1, <1>2, ZenonT(30) DEF dcache_rdata, dcache_ready, MemTypes
  <1>3. CASE op.addr.region = "ddr"
    <2>1. bram_ready(dcache_req) /\ dcache_rdata(dcache_req) = bram_rdata(dcache_req)
      BY <1>1, <1>3, ZenonT(30) DEF dcache_rdata, dcache_ready
    <2>2. op.addr \in DdrAddrs /\ bram_rdata(dcache_req) = Memory(op.addr)
      BY <2>1, HitReads, ZenonT(30)
    <2>3. Memory(op.addr) \in Word
      <3>1. op.addr.set \in Sets /\ op.addr.bank \in Banks
            /\ [tag |-> op.addr.tag, set |-> op.addr.set] \in LineAddrs
        BY <2>2 DEF DdrAddrs, LineAddrs
      <3> QED BY <3>1, ZenonT(30) DEF Memory, CacheInv, DcTypes
    <2> QED BY <1>1, <1>3, <2>1, <2>2, <2>3, ZenonT(30) DEF Mem
  <1> QED BY <1>1, <1>2, <1>3, ZenonT(30)

\* An AMO goes to memory.
LEMMA AmoCacheable ==
  ASSUME CoreTypes, is_amo
  PROVE  cacheable /\ op.addr \in Cached
  <1>1. cacheable
    BY OpKinds DEF is_amo, WellFormed, cacheable, cacheableOp
  <1> QED BY <1>1, ReqShape, ZenonT(30) DEF cacheable, cacheableOp, Cached

\* Memories and registers hold words.
LEMMA MemTypesStep ==
  ASSUME CoreTypes, AmoInv, ResvInv, CacheInv, MemTypes, TcmInv, Next
  PROVE  MemTypes'
  <1>1. tcm_d_mem' \in Word /\ tcm_d_rdata' \in Word
    <2>1. dcache_req.wdata \in Word
      BY WdataWord, Zenon DEF MemTypes
    <2>2. Stored(tcm_d_mem) \in Word
      BY <2>1, ZenonT(30) DEF Stored, MemTypes, Word
    <2> QED BY <2>2, TcmEdge, ZenonT(30) DEF MemTypes
  <1>2. /\ AmoTick
        /\ global_mem_stall => op' = op /\ arch' = arch
        /\ DOMAIN arch' = ArchAddrs
        /\ ~global_mem_stall =>
             \A a \in Cached : arch'[a] = IF a = op.addr THEN Effect(arch[a]) ELSE arch[a]
    BY ViewEdge, Zenon DEF MemTypes
  <1>3. amo_old_value' \in Word
    <2>1. CASE AmoRearms
      BY <1>2, <2>1, ZenonT(30) DEF AmoTick, MemTypes
    <2>2. CASE ~AmoRearms
      <3>1. amo_old_value' = IF amo_state = "AMO_READ" /\ dcache_ready(dcache_req)
                             THEN dcache_rdata(dcache_req) ELSE amo_old_value
        BY <1>2, <2>2, ZenonT(30) DEF AmoTick
      <3>2. ASSUME amo_state = "AMO_READ", dcache_ready(dcache_req)
            PROVE  dcache_rdata(dcache_req) \in Word
        <4>1. dcache_req.valid
          BY <2>2, <3>2, AmoCacheable, ZenonT(30) DEF AmoRearms, dcache_req, dcache_ren, amo_read_phase
        <4> QED BY <3>2, <4>1, AnswerReads, ZenonT(30)
      <3> QED BY <3>1, <3>2, ZenonT(30) DEF MemTypes
    <2> QED BY <2>1, <2>2, ZenonT(30)
  <1>4. Cached' = Cached
    BY CoreStep, ZenonT(30) DEF Cached, TcmAddrs
  <1>5. \A a \in Cached : arch'[a] \in Word
    BY <1>2, EffectWord, ZenonT(30) DEF MemTypes
  <1> QED BY <1>1, <1>2, <1>3, <1>4, <1>5, ZenonT(30) DEF MemTypes

\* An operation that goes to memory names a word of it.
LEMMA OpCached ==
  ASSUME CoreTypes, NEW o \in {NoOp} \cup work.ops, cacheableOp(o)
  PROVE  o.addr \in Cached
  <1>1. CASE o = NoOp
    <2>1. NoAddr \in DdrAddrs
      BY DCacheAssumption, MemoryAssumption DEF NoAddr, DdrAddrs, Invalid, Sets
    <2> QED BY <1>1, <2>1, ZenonT(30) DEF NoOp, Cached
  <1>2. CASE o \in work.ops
    <2>1. WellFormed(o)
      BY <1>2, WorkloadsAssumption, ZenonT(30) DEF CoreTypes
    <2>2. CASE o.addr.region = "ddr"
      BY <2>1, <2>2, ZenonT(30) DEF WellFormed, Cached
    <2>3. CASE o.addr.region = "tcm"
      BY <1>2, <2>3, ZenonT(30) DEF TcmAddrs, Cached
    <2> QED BY <2>2, <2>3, ZenonT(30) DEF cacheableOp
  <1> QED BY <1>1, <1>2, ZenonT(30)

\* What the operation in MEM does to a word does not change while it waits.
LEMMA EffectHolds ==
  ASSUME CoreTypes, HandshakeInv, ResvInv, MemTypes, Next, global_mem_stall
  PROVE  /\ op' = op /\ arch' = arch
         /\ Effect(arch[op.addr])' = Effect(arch[op.addr])
  <1>1. op' = op /\ arch' = arch /\ (op.kind = "sc" => sc_successful' = sc_successful)
    BY ViewEdge, ScHolds, ZenonT(30) DEF MemTypes
  <1>2. CASE op.kind = "store"
    BY <1>1, <1>2, ZenonT(30) DEF Effect
  <1>3. CASE op.kind = "sc"
    <2>1. CASE sc_successful
      BY <1>1, <1>3, <2>1, ZenonT(30) DEF Effect
    <2>2. CASE ~sc_successful
      <3>1. Effect(arch[op.addr]) = arch[op.addr]
        BY <1>3, <2>2, ZenonT(30) DEF Effect
      <3>2. ~sc_successful' /\ op'.kind = "sc"
        BY <1>1, <1>3, <2>2, SMTT(30) DEF sc_successful
      <3>3. Effect(arch[op.addr])' = arch'[op'.addr]
        BY <3>2, Zenon DEF Effect
      <3> QED BY <1>1, <3>1, <3>3, ZenonT(30)
    <2> QED BY <2>1, <2>2, ZenonT(30)
  <1>4. CASE op.kind = "amo"
    BY <1>1, <1>4, ZenonT(30) DEF Effect, AmoOf
  <1>5. CASE op.kind \notin {"store", "sc", "amo"}
    BY <1>1, <1>5, ZenonT(30) DEF Effect
  <1> QED BY <1>1, <1>2, <1>3, <1>4, <1>5, ZenonT(30)

\* Only stores and AMOs change a word, and an AMO only in its second phase.
LEMMA Unwritten ==
  ASSUME CoreTypes, AmoInv, MemInv, cacheable, ~dcache_req.write, ~amo_result_ready,
         dcache_req.valid \/ ~is_amo
  PROVE  Mem(op.addr) = arch[op.addr]
  <1>1. CASE is_amo
    <2>1. amo_state = "AMO_READ"
      BY <1>1, ZenonT(30) DEF dcache_req, dcache_ren, dcache_wen, is_load, amo_read_phase, is_amo
    <2> QED BY <1>1, <2>1, ZenonT(30) DEF MemInv
  <1>2. CASE ~is_amo
    <2>1. ~store_commits /\ op.kind # "amo"
      BY <1>2, ZenonT(30) DEF dcache_req, dcache_wen, is_amo
    <2>2. Effect(arch[op.addr]) = arch[op.addr]
      BY <2>1, Zenon DEF Effect, store_commits, is_store
    <2> QED BY <2>2, ZenonT(30) DEF MemInv
  <1> QED BY <1>1, <1>2, ZenonT(30)

\* The TCM answers one edge after the request, for the operation that waits
\* (tcm.v).
LEMMA TcmStep ==
  ASSUME CoreTypes, AmoInv, HandshakeInv, ResvInv, MemTypes, TcmInv, MemInv, Next
  PROVE  TcmInv'
  <1>1. /\ tcm_d_pending' \in BOOLEAN /\ tcm_d_ready' = tcm_d_pending'
        /\ tcm_d_ready' = tcm_d_req(dcache_req)
    BY TcmEdge, ZenonT(30)
  <1>2. ASSUME tcm_d_req(dcache_req)
        PROVE  /\ dcache_req'.valid /\ op'.addr.region = "tcm"
               /\ dcache_req'.write => tcm_d_mem' = Effect(arch[op.addr])'
               /\ ~dcache_req'.write => tcm_d_rdata' = arch'[op'.addr]
    <2>1. dcache_req.valid /\ op.addr.region = "tcm" /\ ~tcm_d_ready /\ dcache_req.addr = op.addr
      BY <1>2, TcmEdge, ReqShape, ZenonT(30)
    <2>2. ~dcache_ready(dcache_req)
      BY <2>1, Zenon DEF dcache_ready
    <2>3. global_mem_stall /\ dcache_req' = dcache_req
      BY <2>1, <2>2, ReqHolds, ZenonT(30)
    <2>4. op' = op /\ arch' = arch /\ Effect(arch[op.addr])' = Effect(arch[op.addr])
      BY <2>3, EffectHolds, ZenonT(30)
    <2>5. /\ tcm_d_mem = Mem(op.addr)
          /\ tcm_d_mem' = IF dcache_req.write THEN Stored(tcm_d_mem) ELSE tcm_d_mem
          /\ tcm_d_rdata' = tcm_d_mem
      BY <1>2, <2>1, TcmEdge, ZenonT(30) DEF Mem
    <2>6. dcache_req.write => Stored(Mem(op.addr)) = Effect(arch[op.addr])
      BY StoredRight, Zenon
    <2>7. ~dcache_req.write => Mem(op.addr) = arch[op.addr]
      <3>1. cacheable
        BY <2>1, ZenonT(30) DEF cacheable, cacheableOp
      <3>2. amo_result_ready => ~dcache_req.valid
        BY ZenonT(30) DEF AmoInv, is_amo, dcache_req, dcache_ren, dcache_wen, is_load, is_store,
           store_commits, amo_read_phase, amo_write_phase
      <3> QED BY <2>1, <3>1, <3>2, Unwritten, ZenonT(30)
    <2> QED BY <2>1, <2>3, <2>4, <2>5, <2>6, <2>7, ZenonT(30)
  <1> QED BY <1>1, <1>2, ZenonT(30) DEF TcmInv

\* An AMO writes only in its write phase.
LEMMA AmoWrites ==
  ASSUME AmoInv, is_amo
  PROVE  /\ dcache_req.write => amo_state = "AMO_WRITE" /\ ~amo_result_ready
         /\ amo_state = "AMO_WRITE" /\ ~amo_result_ready /\ cacheable => dcache_req.write
         /\ amo_state = "AMO_READ" /\ cacheable => dcache_req.valid
  BY ZenonT(30) DEF is_amo, dcache_req, dcache_ren, dcache_wen, store_commits, is_store, amo_read_phase,
     amo_write_phase

\* A write that is answered is in the memory after the edge: in the cache by this
\* edge, in the TCM by the one before.
LEMMA AnswerWrites ==
  ASSUME CoreTypes, AmoInv, HandshakeInv, CacheInv, MemTypes, TcmInv, MemInv, Next,
         dcache_req.write, dcache_ready(dcache_req), NEW a \in Cached, a = op.addr
  PROVE  Mem(a)' = Effect(arch[op.addr])
  <1>1. /\ Mem(a)' = IF Writes /\ a = op.addr THEN Stored(Mem(a)) ELSE Mem(a)
        /\ Stored(Mem(op.addr)) = Effect(arch[op.addr])
    BY MemMoves, StoredRight, ZenonT(30)
  <1>2. /\ dcache_req.valid /\ dcache_req.addr = op.addr /\ op.addr.region \in {"ddr", "tcm"}
        /\ InDdr(dcache_req) <=> dcache_req.valid /\ op.addr.region = "ddr"
    BY ReqShape, ZenonT(30)
  <1>3. CASE op.addr.region = "ddr"
    <2>1. Writes
      BY <1>2, <1>3, ZenonT(30) DEF Writes, wr_hit, dcache_ready
    <2> QED BY <1>1, <2>1, ZenonT(30)
  <1>4. CASE op.addr.region = "tcm"
    <2>1. tcm_d_ready
      BY <1>2, <1>4, ZenonT(30) DEF dcache_ready
    <2>2. ~Writes
      BY <1>2, <1>4, <2>1, TcmEdge, ZenonT(30) DEF Writes, wr_hit, bram_ready
    <2>3. Mem(op.addr) = Effect(arch[op.addr])
      BY <1>4, <2>1, Zenon DEF TcmInv, Mem
    <2> QED BY <1>1, <2>2, <2>3, ZenonT(30)
  <1> QED BY <1>2, <1>3, <1>4, ZenonT(30)

\* While the pipeline is frozen the memory may run ahead of the program by the
\* operation in MEM, and by nothing else.
LEMMA MemWaits ==
  ASSUME CoreTypes, AmoInv, HandshakeInv, ResvInv, CacheInv, MemTypes, TcmInv, MemInv, Next,
         global_mem_stall
  PROVE  MemInv'
  <1> DEFINE A == arch[op.addr]
             E == Effect(A)
  <1>1. /\ op' = op /\ arch' = arch /\ E' = E /\ A' = A
        /\ AmoTick /\ Cached' = Cached
    BY EffectHolds, ViewEdge, CoreStep, ZenonT(30) DEF MemTypes, Cached, TcmAddrs
  <1>2. /\ \A a \in Cached : Mem(a)' = IF Writes /\ a = op.addr THEN Stored(Mem(a)) ELSE Mem(a)
        /\ Writes => dcache_req.write
    BY MemMoves, Zenon
  <1>3. \A a \in Cached : a # op.addr => Mem(a)' = arch[a]
    BY <1>2, Zenon DEF MemInv
  <1>4. cacheable => op.addr \in Cached
    BY OpCached, ZenonT(30) DEF CoreTypes, cacheable
  <1>5. cacheable => /\ Writes => Mem(op.addr)' = E
                     /\ ~Writes => Mem(op.addr)' = Mem(op.addr)
    BY <1>1, <1>2, <1>4, StoredRight, ZenonT(30)
  <1>6. cacheable => Mem(op.addr)' \in {A, E}
    BY <1>5, Zenon DEF MemInv
  <1>7. ASSUME is_amo
        PROVE  /\ amo_state' \in {"AMO_IDLE", "AMO_READ"} => Mem(op.addr)' = A
               /\ amo_state' = "AMO_WRITE" => amo_old_value' = A
               /\ amo_result_ready' => Mem(op.addr)' = E
    <2>1. cacheable
      BY <1>7, AmoCacheable, Zenon
    <2>2. ~AmoRearms
      BY <1>7, Zenon DEF AmoRearms
    <2>3. /\ amo_state' = CASE amo_state = "AMO_IDLE" -> "AMO_READ"
                            [] amo_state = "AMO_READ" ->
                                 IF dcache_ready(dcache_req) THEN "AMO_WRITE" ELSE "AMO_READ"
                            [] amo_state = "AMO_WRITE" -> "AMO_WRITE"
          /\ amo_old_value' = IF amo_state = "AMO_READ" /\ dcache_ready(dcache_req)
                              THEN dcache_rdata(dcache_req) ELSE amo_old_value
          /\ amo_result_ready' =
               (amo_result_ready \/ (amo_state = "AMO_WRITE" /\ dcache_ready(dcache_req)))
      BY <1>1, <2>2, ZenonT(30) DEF AmoTick
    <2>4. amo_state \in {"AMO_IDLE", "AMO_READ", "AMO_WRITE"}
      BY Zenon DEF AmoInv
    <2>5. amo_state' \in {"AMO_IDLE", "AMO_READ"} => Mem(op.addr)' = A
      <3>1. amo_state' \in {"AMO_IDLE", "AMO_READ"} => amo_state \in {"AMO_IDLE", "AMO_READ"}
        BY <2>3, <2>4, SMTT(30)
      <3>2. amo_state \in {"AMO_IDLE", "AMO_READ"} => ~Writes
        BY <1>2, <1>7, AmoWrites, SMTT(30)
      <3> QED BY <1>5, <1>7, <2>1, <3>1, <3>2, ZenonT(30) DEF MemInv
    <2>6. amo_state' = "AMO_WRITE" => amo_old_value' = A
      <3>1. CASE amo_state = "AMO_IDLE"
        BY <2>3, <3>1, SMTT(30)
      <3>2. CASE amo_state = "AMO_WRITE"
        BY <1>7, <2>3, <3>2, ZenonT(30) DEF MemInv
      <3>3. CASE amo_state = "AMO_READ" /\ ~dcache_ready(dcache_req)
        BY <2>3, <3>3, SMTT(30)
      <3>4. CASE amo_state = "AMO_READ" /\ dcache_ready(dcache_req)
        <4>1. dcache_req.valid /\ ~dcache_req.write
          BY <1>7, <2>1, <3>4, AmoWrites, ZenonT(30)
        <4>2. Mem(op.addr) = A
          BY <1>7, <3>4, ZenonT(30) DEF MemInv
        <4>3. /\ op.addr.region = "ddr" => dcache_rdata(dcache_req) = Mem(op.addr)
              /\ op.addr.region = "tcm" => dcache_rdata(dcache_req) = tcm_d_rdata /\ tcm_d_ready
          BY <3>4, <4>1, AnswerReads, ZenonT(30)
        <4>4. op.addr.region = "tcm" => dcache_rdata(dcache_req) = A
          BY <4>1, <4>3, ZenonT(30) DEF TcmInv
        <4> QED BY <2>1, <2>3, <3>4, <4>2, <4>3, <4>4, ZenonT(30) DEF cacheable, cacheableOp
      <3> QED BY <2>4, <3>1, <3>2, <3>3, <3>4, ZenonT(30)
    <2>7. amo_result_ready' => Mem(op.addr)' = E
      <3>1. CASE amo_result_ready
        <4>1. ~Writes
          BY <1>2, <1>7, <3>1, AmoWrites, ZenonT(30)
        <4> QED BY <1>5, <1>7, <2>1, <3>1, <4>1, ZenonT(30) DEF MemInv
      <3>2. CASE ~amo_result_ready
        <4>1. amo_result_ready' => amo_state = "AMO_WRITE" /\ dcache_ready(dcache_req)
          BY <2>3, <3>2, ZenonT(30)
        <4>2. amo_state = "AMO_WRITE" => dcache_req.write
          BY <1>7, <2>1, <3>2, AmoWrites, Zenon
        <4> QED BY <1>1, <1>4, <2>1, <4>1, <4>2, AnswerWrites, ZenonT(30)
      <3> QED BY <3>1, <3>2, ZenonT(30)
    <2> QED BY <2>5, <2>6, <2>7, ZenonT(30)
  <1> HIDE DEF E, A
  <1>8. /\ cacheable' <=> cacheable
        /\ is_amo' <=> is_amo
    BY <1>1, ZenonT(30) DEF cacheable, cacheableOp, is_amo
  <1> QED BY <1>1, <1>3, <1>6, <1>7, <1>8, ZenonT(30) DEF MemInv, A, E

\* When an operation leaves MEM, the memory is what the program's view becomes.
LEMMA MemLeaves ==
  ASSUME CoreTypes, AmoInv, HandshakeInv, ResvInv, CacheInv, MemTypes, TcmInv, MemInv, Next,
         ~global_mem_stall
  PROVE  MemInv'
  <1>1. /\ AmoTick /\ Cached' = Cached
        /\ \A a \in Cached : arch'[a] = IF a = op.addr THEN Effect(arch[a]) ELSE arch[a]
    BY ViewEdge, CoreStep, ZenonT(30) DEF MemTypes, Cached, TcmAddrs
  <1>2. /\ \A a \in Cached : Mem(a)' = IF Writes /\ a = op.addr THEN Stored(Mem(a)) ELSE Mem(a)
        /\ Writes => dcache_req.write
    BY MemMoves, ZenonT(30)
  <1>3. /\ dcache_req.valid => dcache_ready(dcache_req)
        /\ is_amo => amo_result_ready
    BY Zenon DEF global_mem_stall, dmem_stall, amo_stall
  <1>4. amo_state' = "AMO_IDLE" /\ amo_result_ready' = FALSE
    <2>1. AmoRearms
      BY <1>3, Zenon DEF AmoRearms
    <2> QED BY <1>1, <2>1, ZenonT(30) DEF AmoTick
  <1>5. ASSUME NEW a \in Cached
        PROVE  Mem(a)' = arch'[a]
    <2>1. CASE a # op.addr
      BY <1>1, <1>2, <2>1, ZenonT(30) DEF MemInv
    <2>2. CASE a = op.addr
      <3>1. cacheable
        BY <2>2, Addresses, ZenonT(30) DEF cacheable, cacheableOp
      <3>2. CASE dcache_req.write
        <4>1. dcache_req.valid
          BY <3>2, ReqShape, ZenonT(30)
        <4> QED BY <1>1, <1>3, <2>2, <3>2, <4>1, AnswerWrites, ZenonT(30)
      <3>3. CASE ~dcache_req.write
        <4>1. Mem(a)' = Mem(op.addr)
          BY <1>2, <2>2, <3>3, ZenonT(30)
        <4>2. CASE is_amo
          BY <1>1, <1>3, <2>2, <4>1, <4>2, ZenonT(30) DEF MemInv
        <4>3. CASE ~is_amo
          <5>1. ~store_commits /\ op.kind # "amo"
            BY <3>1, <3>3, <4>3, ZenonT(30) DEF dcache_req, dcache_wen, is_amo
          <5>2. Effect(arch[op.addr]) = arch[op.addr]
            BY <5>1, ZenonT(30) DEF Effect, store_commits, is_store
          <5> QED BY <1>1, <2>2, <3>1, <4>1, <5>2, ZenonT(30) DEF MemInv
        <4> QED BY <4>2, <4>3, ZenonT(30)
      <3> QED BY <3>2, <3>3, ZenonT(30)
    <2> QED BY <2>1, <2>2, ZenonT(30)
  <1>6. cacheable' => op'.addr \in Cached
    BY CoreStep, OpCached, ZenonT(30) DEF CoreTypes, cacheable
  <1>7. is_amo' => cacheable'
    <2>1. op'.kind = "amo" => op' \in work.ops
      <3>1. op' \in {NoOp} \cup work.ops
        BY CoreStep, ZenonT(30) DEF CoreTypes
      <3> QED BY <3>1, SMTT(30) DEF NoOp
    <2>2. op'.kind = "amo" => WellFormed(op')
      BY <2>1, WorkloadsAssumption, ZenonT(30) DEF CoreTypes
    <2> QED BY <2>2, SMTT(30) DEF is_amo, WellFormed, cacheable, cacheableOp
  <1>8. cacheable' => Mem(op.addr)' = arch'[op'.addr]
    BY <1>5, <1>6, ZenonT(30) DEF Mem, Memory, Held
  <1> QED BY <1>1, <1>4, <1>5, <1>7, <1>8, ZenonT(30) DEF MemInv

\* The memory holds what the program wrote, ahead of it at most by the operation
\* in MEM.
LEMMA MemStep ==
  ASSUME CoreTypes, AmoInv, HandshakeInv, ResvInv, CacheInv, MemTypes, TcmInv, MemInv, Next
  PROVE  MemInv'
  BY MemWaits, MemLeaves, ZenonT(30)

\* After reset memory and view are the same.
LEMMA MemInit ==
  ASSUME Init
  PROVE  CacheInv /\ MemTypes /\ TcmInv /\ MemInv
  <1>0. CoreTypes
    BY CoreInit, ZenonT(30)
  <1>1. 0 \in Sets /\ Tags # {} /\ Banks # {} /\ 0 \in Values
    BY DCacheAssumption, MemoryAssumption, SMTT(30) DEF Sets
  <1>2. Filled(0) \in Word /\ [l \in Lanes |-> Junk] \in Word /\ Filled(Junk) \in Word
    BY <1>1, ZenonT(30) DEF Filled, Word
  <1>3. Invalid.tag \in Tags /\ Invalid \in TagWords
    BY <1>1, ZenonT(30) DEF Invalid, TagWords
  <1>4. (CHOOSE b \in Banks : TRUE) \in Banks
    BY <1>1, ZenonT(30)
  <1>5. CacheInv
    <2>1. DcTypes
      <3>1. JunkLine \in [Banks -> Word]
        BY <1>2, ZenonT(30) DEF JunkLine
      <3>2. /\ d \in [Sets -> [Banks -> Word]] /\ lines \in [LineAddrs -> [Banks -> Word]]
            /\ q \in [Banks -> Word] /\ wb_line \in [Banks -> Word]
        BY <1>2, <3>1, ZenonT(30) DEF Init, DCacheInit
      <3>3. tagv \in [Sets -> TagWords] /\ dirty \in [Sets -> BOOLEAN]
        BY <1>3, SMTT(30) DEF Init, DCacheInit, TagWords
      <3> QED BY <1>1, <1>3, <3>2, <3>3, ZenonT(30) DEF Init, DCacheInit, DcTypes, DStates
    <2>2. Swept
      BY DEF Init, DCacheInit, Swept, Sets
    <2> QED BY <2>1, <2>2, ZenonT(30) DEF Init, DCacheInit, CacheInv, Clean, DcRead, Missing
  <1>6. \A a \in Cached : arch[a] = Filled(0) /\ a \in ArchAddrs
    <2>1. \A a \in Cached : a \in ArchAddrs /\ a.region \in {"ddr", "tcm"}
      BY <1>0, Addresses, ZenonT(30)
    <2>2. \A a \in ArchAddrs : arch[a] = Filled(Reset(a))
      BY Zenon DEF Init
    <2> QED BY <2>1, <2>2, ZenonT(30) DEF Reset
  <1>7. MemTypes
    BY <1>2, <1>6, ZenonT(30) DEF Init, TcmDInit, MemTypes, Filled
  <1>8. \A a \in Cached : Mem(a) = Filled(0)
    <2>1. \A a \in Cached : a.region = "tcm" <=> a \notin DdrAddrs
      BY <1>0, Addresses, ZenonT(30)
    <2>2. ASSUME NEW a \in DdrAddrs PROVE Memory(a) = Filled(0)
      <3>1. [tag |-> a.tag, set |-> a.set] \in LineAddrs /\ a.bank \in Banks
        BY DEF DdrAddrs, LineAddrs
      <3>2. ~Held(a)
        BY ZenonT(30) DEF Init, DCacheInit, Held
      <3> QED BY <3>1, <3>2, ZenonT(30) DEF Init, Memory
    <2>3. tcm_d_mem = Filled(0)
      BY ZenonT(30) DEF Init, TcmDInit, Filled
    <2> QED BY <2>1, <2>2, <2>3, ZenonT(30) DEF Mem
  <1>9. op.addr \in Cached /\ ~is_amo
    BY <1>0, OpCached, ZenonT(30) DEF Init, NoOp, NoAddr, cacheableOp, is_amo
  <1> QED BY <1>5, <1>6, <1>7, <1>8, <1>9, ZenonT(30) DEF Init, TcmDInit, TcmInv, MemInv

\* The cache, the lower memory and the TCM hold what the program stored, but for
\* what the operation in MEM has done already (dcache_bram.v, tcm.v, cpu.v).
THEOREM MemoryCoherent == Spec => [](CacheInv /\ MemTypes /\ TcmInv /\ MemInv)
  <1> DEFINE Inv == CacheInv /\ MemTypes /\ TcmInv /\ MemInv
  <1>1. CoreTypes /\ AmoInv /\ DeviceInv /\ ResvInv /\ Inv /\ [Next]_vars => Inv'
    <2> SUFFICES ASSUME CoreTypes, AmoInv, DeviceInv, ResvInv, Inv, [Next]_vars PROVE Inv'
      BY Zenon
    <2>1. CASE Next
      <3>1. HandshakeInv /\ amo_old_value \in Word
        BY ZenonT(30) DEF DeviceInv, MemTypes
      <3>2. CacheInv'
        BY <2>1, <3>1, CacheStep, ZenonT(30)
      <3>3. MemTypes'
        BY <2>1, MemTypesStep, ZenonT(30)
      <3>4. TcmInv'
        BY <2>1, <3>1, TcmStep, ZenonT(30)
      <3>5. MemInv'
        BY <2>1, <3>1, MemStep, ZenonT(30)
      <3> QED BY <3>2, <3>3, <3>4, <3>5, ZenonT(30)
    <2>2. CASE UNCHANGED vars
      <3>1. UNCHANGED dcVars /\ UNCHANGED tcmDVars /\ UNCHANGED memStageVars
        BY <2>2, ZenonT(30) DEF vars
      <3>2. op' = op /\ arch' = arch /\ work' = work /\ lines' = lines
            /\ amo_state' = amo_state /\ amo_old_value' = amo_old_value
            /\ amo_result_ready' = amo_result_ready /\ lock_valid' = lock_valid
            /\ reserved_addr' = reserved_addr
        BY <3>1, ZenonT(30) DEF memStageVars
      <3>3. sc_successful' = sc_successful
        BY <3>2, ZenonT(30) DEF sc_successful
      <3>4. dcache_req' = dcache_req /\ cacheable' = cacheable /\ is_amo' = is_amo
        BY <3>2, <3>3, ZenonT(30) DEF dcache_req, cacheable, cacheableOp, is_amo, dcache_ren, dcache_wen,
           amo_read_phase, amo_write_phase, amo_new_value, store_commits, is_store, is_load
      <3>5. CacheInv'
        <4>1. DcTypes' /\ Swept' /\ Clean'
          BY <3>1, <3>2, ZenonT(30) DEF CacheInv, DcTypes, Swept, Clean, LineIn, dcVars
        <4>2. DcRead'
          BY <3>1, ZenonT(30) DEF CacheInv, DcRead, Bypassed, byp_use, dcVars
        <4>3. Missing'
          BY <3>1, <3>2, <3>4, ZenonT(30) DEF CacheInv, Missing, InDdr, LineIn, dcVars
        <4> QED BY <4>1, <4>2, <4>3, ZenonT(30) DEF CacheInv
      <3>6. \A a : Mem(a)' = Mem(a)
        BY <3>1, <3>2, ZenonT(30) DEF Mem, Memory, Held, dcVars, tcmDVars
      <3>7. Cached' = Cached
        BY <3>2, ZenonT(30) DEF Cached, TcmAddrs
      <3>8. MemTypes'
        BY <3>1, <3>2, <3>7, ZenonT(30) DEF MemTypes, tcmDVars
      <3>9. TcmInv'
        BY <3>1, <3>2, <3>3, <3>4, ZenonT(30) DEF TcmInv, tcmDVars, Effect, AmoOf
      <3>10. MemInv'
        BY <3>2, <3>3, <3>4, <3>6, <3>7, ZenonT(30) DEF MemInv, Effect, AmoOf
      <3> QED BY <3>5, <3>8, <3>9, <3>10, Zenon
    <2> QED BY <2>1, <2>2, ZenonT(30)
  <1>2. Init => Inv
    BY MemInit, ZenonT(30)
  <1> QED BY <1>1, <1>2, WorkloadRuns, DevicesServed, MonitorFollows, PTL DEF Spec

(***************************************************************************)
(* The devices and the program's view of them.                             *)
(***************************************************************************)

\* What the handshake keeps of an answer (uart_rdata_latched, cpu.v).
LEMMA Latches ==
  ASSUME CoreTypes, HandshakeInv, Next, NEW v \in Devs
  PROVE  /\ done'[v] => op' = op /\ global_mem_stall /\ (ready(v) \/ done[v])
         /\ rdata_latched'[v] = IF ready(v) THEN dev_rdata(v) ELSE rdata_latched[v]
  <1>1. HandshakeTick
    BY UartEdge, ZenonT(30)
  <1>2. /\ done'[v] = (ready(v) \/ (done[v] /\ global_mem_stall))
        /\ done'[v] => op' = op /\ global_mem_stall
    BY <1>1, PendingEdge, ZenonT(30)
  <1>3. rdata_latched'[v] = IF ready(v) THEN dev_rdata(v) ELSE rdata_latched[v]
    BY <1>1, ZenonT(30) DEF HandshakeTick
  <1> QED BY <1>2, <1>3, ZenonT(30)

\* A load from the UART holds the device's answer from the pulse on.
LEMMA UartStep ==
  ASSUME CoreTypes, HandshakeInv, UartInv, Next
  PROVE  UartInv'
  <1>1. PICK answers : DevTick(answers)
    BY NextTick, ZenonT(30) DEF Tick
  <1>2. uart_ready' => req("uart") \/ dev_busy
    BY UartEdge, Zenon
  <1>3. "uart" \in Devs
    BY Zenon DEF Devs
  <1>4. ASSUME uart_ready' PROVE op' = op
    <2>1. valid("uart") /\ ~done["uart"]
      BY <1>2, <1>3, <1>4, ZenonT(30) DEF req, HandshakeInv
    <2> QED BY <1>3, <2>1, AccessHolds, ZenonT(30)
  <1>5. ASSUME op'.kind = "load", uart_ready' PROVE uart_rdata' = Filled(Mark)
    <2>1. is_load /\ answers
      BY <1>1, <1>4, <1>5, ZenonT(30) DEF is_load, DevTick
    <2> QED BY <1>1, <2>1, ZenonT(30) DEF DevTick
  <1>6. ASSUME op'.kind = "load", op'.addr.region = "uart", done'["uart"]
        PROVE  rdata_latched'["uart"] = Filled(Mark)
    <2>1. /\ op' = op /\ (ready("uart") \/ done["uart"])
          /\ rdata_latched'["uart"] = IF ready("uart") THEN dev_rdata("uart")
                                      ELSE rdata_latched["uart"]
      BY <1>3, <1>6, Latches, ZenonT(30)
    <2> QED BY <1>6, <2>1, ZenonT(30) DEF UartInv, ready, dev_rdata
  <1> QED BY <1>5, <1>6, ZenonT(30) DEF UartInv, Filled

\* Every half of mtimecmp the driver stores fits its register.
LEMMA CmpParts ==
  ASSUME TimerInv
  PROVE  /\ Hi(mtimecmp) \in Nat /\ Lo(mtimecmp) \in 0 .. HALF - 1
         /\ SetsTimer(op) => op.wdata \in 0 .. HALF - 1
  <1>1. /\ mtime \in Nat /\ deadline \in Times /\ target \in Times /\ arm \in {0, 1, 2}
        /\ mtimecmp = IF arm = 0 THEN deadline
                      ELSE Time(HALF - 1, Lo(IF arm = 1 THEN deadline ELSE target))
        /\ SetsTimer(op) => op.wdata = Arming[arm + 1].wdata
    BY ZenonT(30) DEF TimerInv
  <1>2. HALF \in Nat \ {0} /\ HALF - 1 \in Nat /\ HALF - 1 \in 0 .. HALF - 1
    BY HalfAssumption
  <1>3. /\ deadline \in Nat /\ Lo(deadline) \in 0 .. HALF - 1
        /\ Lo(target) \in 0 .. HALF - 1 /\ Hi(target) \in 0 .. HALF - 1
    BY <1>1, TimeSplits, ZenonT(30)
  <1>4. mtimecmp \in Nat
    BY <1>1, <1>2, <1>3, TimeParts, ZenonT(30)
  <1>5. Hi(mtimecmp) \in Nat /\ Lo(mtimecmp) \in 0 .. HALF - 1
    BY <1>2, <1>4, Division, ZenonT(30) DEF Hi, Lo
  <1>6. Arming[arm + 1].wdata \in {HALF - 1, Lo(target), Hi(target)}
    BY <1>1, SMTT(30) DEF Arming
  <1> QED BY <1>1, <1>2, <1>3, <1>5, <1>6, ZenonT(30)

\* A store to a register in MEM replaces the whole of it.
LEMMA WholeStore ==
  ASSUME CoreTypes, op.kind = "store", op.addr.region \in {"accel", "clint"}, NEW w
  PROVE  Effect(w) = Filled(op.wdata)
  <1>1. op.wmask = Lanes
    BY OpKinds, ZenonT(30) DEF WellFormed
  <1>2. Effect(w) = Merge(w, op.wdata, Lanes)
    BY <1>1, ZenonT(30) DEF Effect
  <1> QED BY <1>2, ZenonT(30) DEF Merge, Filled

\* Any other operation that names a register leaves it.
LEMMA WholeLoad ==
  ASSUME CoreTypes, op.kind # "store", op.addr.region \in {"accel", "clint"}, NEW w
  PROVE  Effect(w) = w
  <1>1. op.kind = "none" => op.addr.region = "ddr"
    BY OpKinds DEF NoOp, NoAddr
  <1>2. op.kind = "load"
    BY <1>1, OpKinds, ZenonT(30) DEF WellFormed
  <1> QED BY <1>2, ZenonT(30) DEF Effect

\* An operation on a register is the workload's, and the registers of a kind are
\* one place.
LEMMA RegOps ==
  ASSUME CoreTypes, op.addr.region \in {"accel", "clint"}
  PROVE  /\ op \in work.ops /\ WellFormed(op) /\ op.kind \in {"load", "store"}
         /\ op.addr \in ArchAddrs
         /\ \A o \in work.ops : o.addr.region = op.addr.region => SameLocation(op.addr, o.addr)
  <1>1. op.kind = "none" => op.addr.region = "ddr"
    BY OpKinds DEF NoOp, NoAddr
  <1>2. op \in work.ops /\ WellFormed(op)
    BY <1>1, OpKinds, ZenonT(30)
  <1>3. op.kind \in {"load", "store"}
    BY <1>2, ZenonT(30) DEF WellFormed
  <1>4. op.addr \in ArchAddrs
    BY <1>2, Addresses, ZenonT(30)
  <1>5. \A o \in work.ops : o.addr.region = op.addr.region => SameLocation(op.addr, o.addr)
    BY <1>2, WorkloadsAssumption, ZenonT(30) DEF CoreTypes
  <1> QED BY <1>2, <1>3, <1>4, <1>5, ZenonT(30)

\* The register that the moving index names.
LEMMA IndexPlace ==
  ASSUME CoreTypes, StepsIndex
  PROVE  /\ op.kind = "load" /\ op.addr.region = "accel" /\ op.addr.reg = "RESULT"
         /\ IdxAddr.region = "accel" /\ IdxAddr.reg = "RESULT_IDX"
  <1>1. op.addr.region = "accel" /\ op.addr.reg = "RESULT" /\ is_load
    BY ZenonT(30) DEF StepsIndex
  <1>2. op.kind = "load" /\ op.addr \in AccelAddrs
    BY <1>1, RegOps, ZenonT(30) DEF is_load, WellFormed
  <1> QED BY <1>1, <1>2, ZenonT(30) DEF IdxAddr, AccelAddrs

\* The program's view of mtimecmp follows its two halves.
LEMMA CmpStep ==
  ASSUME CoreTypes, ResvInv, MemTypes, TimerInv, CmpInv, Next
  PROVE  CmpInv'
  <1>1. /\ global_mem_stall => arch' = arch
        /\ ~global_mem_stall =>
             \A a \in ArchAddrs :
               arch'[a] = IF StepsIndex
                          THEN IF a = IdxAddr THEN Filled(NextIdx(arch[a][FirstLane])) ELSE arch[a]
                          ELSE IF a = op.addr THEN Effect(arch[a]) ELSE arch[a]
    BY ViewEdge, ZenonT(30) DEF MemTypes
  <1>2. TimerTick /\ work' = work
    BY ArmEdge, CoreStep, ZenonT(30) DEF TimerInv
  <1> SUFFICES ASSUME NEW o \in work.ops, o.addr.region = "clint"
               PROVE  /\ o.addr.reg = "mtimecmp_lo" => arch'[o.addr] = Filled(Lo(mtimecmp'))
                      /\ o.addr.reg = "mtimecmp_hi" => arch'[o.addr] = Filled(Hi(mtimecmp'))
    BY <1>2, ZenonT(30) DEF CmpInv, Filled, Lo, Hi
  <1>3. /\ o.addr.reg = "mtimecmp_lo" => arch[o.addr] = Filled(Lo(mtimecmp))
        /\ o.addr.reg = "mtimecmp_hi" => arch[o.addr] = Filled(Hi(mtimecmp))
    BY ZenonT(30) DEF CmpInv
  <1>4. o.addr \in ArchAddrs
    BY Addresses, ZenonT(30)
  <1>5. CASE global_mem_stall
    BY <1>1, <1>2, <1>3, <1>5, CmpEdge, ZenonT(30)
  <1>6. CASE ~global_mem_stall /\ ~SetsTimer(op)
    <2>1. mtimecmp' = mtimecmp
      BY <1>2, <1>6, CmpEdge, ZenonT(30)
    <2>2. ASSUME o.addr.reg \in {"mtimecmp_lo", "mtimecmp_hi"} PROVE arch'[o.addr] = arch[o.addr]
      <3>1. CASE StepsIndex
        <4>1. o.addr # IdxAddr
          BY <3>1, IndexPlace, ZenonT(30)
        <4> QED BY <1>1, <1>4, <1>6, <3>1, <4>1, ZenonT(30)
      <3>2. CASE ~StepsIndex /\ o.addr = op.addr
        <4>1. op.kind # "store"
          BY <1>6, <2>2, <3>2, ZenonT(30) DEF SetsTimer
        <4>2. Effect(arch[o.addr]) = arch[o.addr]
          BY <3>2, <4>1, WholeLoad, ZenonT(30)
        <4> QED BY <1>1, <1>4, <1>6, <3>2, <4>2, ZenonT(30)
      <3>3. CASE ~StepsIndex /\ o.addr # op.addr
        BY <1>1, <1>4, <1>6, <3>3, ZenonT(30)
      <3> QED BY <3>1, <3>2, <3>3, ZenonT(30)
    <2> QED BY <1>3, <2>1, <2>2, ZenonT(30)
  <1>7. CASE ~global_mem_stall /\ SetsTimer(op)
    <2>1. /\ op.kind = "store" /\ op.addr.region = "clint"
          /\ op.addr.reg \in {"mtimecmp_lo", "mtimecmp_hi"}
      BY <1>7, ZenonT(30) DEF SetsTimer
    <2>2. mtimecmp' = IF op.addr.reg = "mtimecmp_lo" THEN Time(Hi(mtimecmp), op.wdata)
                      ELSE Time(op.wdata, Lo(mtimecmp))
      BY <1>2, <1>7, CmpEdge, ZenonT(30)
    <2>3. /\ Hi(mtimecmp) \in Nat /\ Lo(mtimecmp) \in 0 .. HALF - 1 /\ op.wdata \in 0 .. HALF - 1
      BY <1>7, CmpParts, ZenonT(30)
    <2>4. op.wdata \in Nat
      BY <2>3, HalfAssumption, SMTT(30)
    <2>5. /\ op.addr.reg = "mtimecmp_lo" => Lo(mtimecmp') = op.wdata /\ Hi(mtimecmp') = Hi(mtimecmp)
          /\ op.addr.reg = "mtimecmp_hi" => Hi(mtimecmp') = op.wdata /\ Lo(mtimecmp') = Lo(mtimecmp)
      BY <2>2, <2>3, <2>4, TimeParts, ZenonT(30)
    <2>6. ~StepsIndex
      BY <2>1, ZenonT(30) DEF StepsIndex, is_load
    <2>7. op.addr.reg = o.addr.reg => op.addr = o.addr
      BY <2>1, RegOps, ZenonT(30) DEF SameLocation
    <2>8. arch'[o.addr] = IF o.addr.reg = op.addr.reg THEN Filled(op.wdata) ELSE arch[o.addr]
      BY <1>1, <1>4, <1>7, <2>1, <2>6, <2>7, WholeStore, ZenonT(30)
    <2> QED BY <1>3, <2>1, <2>5, <2>8, ZenonT(30)
  <1> QED BY <1>5, <1>6, <1>7, ZenonT(30)

\* The place of a register the workload reaches.
LEMMA RegPlaces ==
  ASSUME CoreTypes, NEW r \in Registers, NEW a \in RegAddrs(r)
  PROVE  /\ a \in ArchAddrs /\ a.region = "accel" /\ a.reg = r
         /\ op.addr.region = "accel" => a = [op.addr EXCEPT !.reg = r]
  <1>1. PICK o \in work.ops : o.addr.region = "accel" /\ a = [o.addr EXCEPT !.reg = r]
    BY Zenon DEF RegAddrs
  <1>2. o.addr \in AccelAddrs
    BY <1>1, WorkloadsAssumption, ZenonT(30) DEF CoreTypes, WellFormed
  <1>3. a \in ArchAddrs
    BY ZenonT(30) DEF RegAddrs
  <1>4. a.region = "accel" /\ a.reg = r
    BY <1>1, <1>2, SMTT(30) DEF AccelAddrs
  <1>5. ASSUME op.addr.region = "accel" PROVE a = [op.addr EXCEPT !.reg = r]
    <2>1. SameLocation(op.addr, o.addr) /\ op.addr \in AccelAddrs
      BY <1>1, <1>5, RegOps, ZenonT(30) DEF WellFormed
    <2>2. o.addr = [op.addr EXCEPT !.reg = o.addr.reg]
      BY <1>5, <2>1, ZenonT(30) DEF SameLocation
    <2> QED BY <1>1, <1>2, <2>1, <2>2, SMTT(30) DEF AccelAddrs
  <1> QED BY <1>3, <1>4, <1>5, ZenonT(30)

\* The register of the operation in MEM, and the index that moves with it.
LEMMA RegOp ==
  ASSUME CoreTypes, op.addr.region = "accel"
  PROVE  /\ op.addr.reg \in Registers /\ op.addr \in RegAddrs(op.addr.reg)
         /\ op.addr = [op.addr EXCEPT !.reg = op.addr.reg]
         /\ op.addr.reg = "RESULT" => IdxAddr \in RegAddrs("RESULT_IDX")
  <1>1. op \in work.ops /\ WellFormed(op) /\ op.addr \in ArchAddrs
    BY RegOps, ZenonT(30)
  <1>2. op.addr \in AccelAddrs
    BY <1>1, ZenonT(30) DEF WellFormed
  <1>3. op.addr.reg \in Registers /\ op.addr = [op.addr EXCEPT !.reg = op.addr.reg]
    BY <1>2 DEF AccelAddrs
  <1>4. op.addr \in RegAddrs(op.addr.reg)
    BY <1>1, <1>3, ZenonT(30) DEF RegAddrs
  <1>5. op.addr.reg = "RESULT" => IdxAddr \in RegAddrs("RESULT_IDX")
    BY <1>1, ZenonT(30) DEF RegAddrs, WellFormed, IdxAddr
  <1> QED BY <1>3, <1>4, <1>5, ZenonT(30)

\* What an edge does behind the bridge: a register acts once on the access in
\* MEM, with the address and the data of that access.
LEMMA RegEdge ==
  ASSUME CoreTypes, HandshakeInv, BridgeInv, Next
  PROVE  /\ RegisterWrites
         /\ doWrite => /\ op.kind = "store" /\ axi_aw = op.addr.reg /\ axi_w = op.wdata
         /\ readDone => /\ op.kind = "load" /\ raddr = op.addr.reg /\ d_rdata' = rdata
         /\ doWrite \/ readDone => global_mem_stall /\ op.addr.region = "accel" /\ ~HasActed /\ HasActed'
         /\ d_ready' => op' = op /\ (op.kind = "load" => readDone)
         /\ global_mem_stall /\ ~doWrite /\ ~readDone => (HasActed' <=> HasActed)
         /\ ~global_mem_stall => ~HasActed'
         /\ ~global_mem_stall /\ op.addr.region = "accel" => HasActed
         /\ HasActed => op.addr.region = "accel"
  <1>0. "accel" \in Devs
    BY Zenon DEF Devs
  <1>1. HandshakeTick /\ AccelTick
    BY UartEdge, ZenonT(30)
  <1>2. /\ d_ready' \in BOOLEAN /\ (d_ready' => pending["accel"] /\ ~d_ready)
        /\ doWrite \/ readDone => pending["accel"] /\ ~Acted /\ Acted'
        /\ Acted => Acted' \/ d_ready
        /\ Acted' => Acted \/ doWrite \/ readDone
    BY BridgeStep, ZenonT(30)
  <1>3. /\ pending'["accel"] = (req("accel") \/ (pending["accel"] /\ ~d_ready))
        /\ done'["accel"] = (d_ready \/ (done["accel"] /\ global_mem_stall))
        /\ pending'["accel"] => global_mem_stall
        /\ done'["accel"] => global_mem_stall
        /\ pending["accel"] => valid("accel") /\ ~done["accel"] /\ op' = op /\ global_mem_stall
    BY <1>0, <1>1, PendingEdge, ZenonT(30) DEF ready
  <1>4. /\ done["accel"] => valid("accel")
        /\ d_ready => pending["accel"]
    BY <1>0, ZenonT(30) DEF HandshakeInv, ready
  <1>5. /\ valid("accel") = (op.addr.region = "accel" /\ op.kind \in {"load", "store"})
        /\ valid("accel") => (is_load <=> op.kind = "load") /\ (is_store <=> op.kind = "store")
    BY <1>0, DevOps, ZenonT(30)
  <1>6. RegisterWrites
    BY <1>1, ZenonT(30) DEF AccelTick, SlaveTick
  <1>7. ASSUME doWrite PROVE is_store /\ WriteAsks
    <2>1. axi_awvalid /\ axi_wvalid /\ wState = "wIdle"
      BY <1>7, ZenonT(30) DEF doWrite
    <2> QED BY <1>2, <1>7, <2>1, ZenonT(30) DEF BridgeInv, WriteTaken, Answered, ReadAsks, WriteOff
  <1>8. ASSUME readDone PROVE is_load /\ ReadGives
    <2>1. axi_rready
      BY <1>8, ZenonT(30) DEF readDone
    <2> QED BY <1>2, <1>8, <2>1, ZenonT(30) DEF BridgeInv, WriteAsks, WriteTaken, Answered, ReadOff, ReadGives
  <1>9. ASSUME d_ready', op.kind = "load" PROVE readDone
    <2>1. pending["accel"] /\ ~d_ready /\ is_load /\ ~is_store
      BY <1>2, <1>3, <1>5, <1>9, ZenonT(30) DEF is_load, is_store
    <2>2. ReadAsks
      BY <2>1, ZenonT(30) DEF BridgeInv, Answered
    <2>3. CASE ReadWaits
      BY <1>1, <1>3, <1>9, <2>1, <2>3, ReadWaitsMoves, ZenonT(30)
    <2>4. CASE ReadGives
      BY <1>1, <2>4, ReadGivesMoves, ZenonT(30)
    <2> QED BY <2>2, <2>3, <2>4, ZenonT(30) DEF ReadWaits, ReadGives
  <1>10. doWrite => op.kind = "store" /\ axi_aw = op.addr.reg /\ axi_w = op.wdata
    BY <1>2, <1>3, <1>5, <1>7, ZenonT(30) DEF WriteAsks
  <1>11. readDone => op.kind = "load" /\ raddr = op.addr.reg /\ d_rdata' = rdata
    BY <1>1, <1>2, <1>3, <1>5, <1>8, ReadGivesMoves, ZenonT(30)
  <1>12. doWrite \/ readDone => global_mem_stall /\ op.addr.region = "accel" /\ ~HasActed /\ HasActed'
    BY <1>2, <1>3, <1>5, ZenonT(30) DEF HasActed
  <1>13. d_ready => Acted
    <2> SUFFICES ASSUME d_ready PROVE Acted
      BY SMTT(30)
    <2>1. pending["accel"]
      BY <1>4, ZenonT(30)
    <2> QED BY <2>1, ZenonT(30) DEF BridgeInv, Acted, WriteAsks, WriteTaken, ReadAsks
  <1>14. global_mem_stall /\ ~doWrite /\ ~readDone => (HasActed' <=> HasActed)
    BY <1>2, <1>3, <1>13, ZenonT(30) DEF HasActed
  <1>15. ~global_mem_stall => ~HasActed'
    <2>1. Acted' => pending'["accel"]
      BY ZenonT(30) DEF Acted
    <2> QED BY <1>3, <2>1, ZenonT(30) DEF HasActed
  <1>16. ~global_mem_stall /\ op.addr.region = "accel" => HasActed
    <2>1. op.addr.region = "accel" => op.kind \in {"load", "store"}
      BY RegOps, ZenonT(30)
    <2> QED BY <1>0, <1>5, <2>1, ZenonT(30) DEF HasActed, global_mem_stall, dev_stall
  <1>17. HasActed => op.addr.region = "accel"
    BY <1>3, <1>4, <1>5, ZenonT(30) DEF HasActed, Acted
  <1>18. d_ready' => op' = op
    BY <1>2, <1>3, ZenonT(30)
  <1> QED BY <1>6, <1>9, <1>10, <1>11, <1>12, <1>14, <1>15, <1>16, <1>17, <1>18, ZenonT(30)

\* A word of equal bytes has that byte first.
LEMMA FilledFirst ==
  ASSUME NEW v
  PROVE  Filled(v)[FirstLane] = v
  <1>1. FirstLane \in Lanes
    BY MemoryAssumption, ZenonT(30) DEF FirstLane
  <1> QED BY <1>1, ZenonT(30) DEF Filled

\* What the port puts on the bus for a load is what the load is to carry.
LEMMA BusRight ==
  ASSUME CoreTypes, HandshakeInv, BridgeInv, AccelInv, Next, readDone
  PROVE  Filled(rdata) = Expected
  <1>1. /\ op.kind = "load" /\ raddr = op.addr.reg /\ op.addr.region = "accel" /\ ~HasActed
    BY RegEdge, ZenonT(30)
  <1>2. /\ \A a \in RegAddrs("DEST_ADDR") : arch[a] = Filled(destAddr)
        /\ \A a \in RegAddrs("RESULT_IDX") : arch[a] = Filled(resultIdx)
    BY <1>1, ZenonT(30) DEF AccelInv, Wrote, Stepped
  <1>3. /\ op.addr.reg \in {"DEST_ADDR", "RESULT_IDX", "RESULT"}
        /\ op.addr \in RegAddrs(op.addr.reg)
        /\ op.addr.reg = "RESULT" => IdxAddr \in RegAddrs("RESULT_IDX")
    BY <1>1, RegOp, ZenonT(30) DEF Registers
  <1> HIDE DEF IdxAddr, FirstLane, Filled
  <1>4. CASE op.addr.reg = "RESULT"
    <2>1. arch[IdxAddr][FirstLane] = resultIdx
      BY <1>2, <1>3, <1>4, FilledFirst, ZenonT(30)
    <2> QED BY <1>1, <1>4, <2>1, ZenonT(30) DEF Expected, rdata
  <1>5. CASE op.addr.reg = "DEST_ADDR"
    BY <1>1, <1>2, <1>3, <1>5, ZenonT(30) DEF Expected, rdata
  <1>6. CASE op.addr.reg = "RESULT_IDX"
    BY <1>1, <1>2, <1>3, <1>6, ZenonT(30) DEF Expected, rdata
  <1> QED BY <1>3, <1>4, <1>5, <1>6, ZenonT(30)

\* A load from a register holds its answer from the bus on, although the port
\* moves RESULT_IDX on in the same cycle.
LEMMA AnswerHeld ==
  ASSUME CoreTypes, HandshakeInv, BridgeInv, ResvInv, MemTypes, AccelInv, Next
  PROVE  op'.kind = "load" /\ op'.addr.region = "accel" =>
           /\ d_ready' => Filled(d_rdata') = Expected'
           /\ done'["accel"] => rdata_latched'["accel"] = Expected'
  <1> SUFFICES ASSUME op'.kind = "load", op'.addr.region = "accel"
               PROVE  /\ d_ready' => Filled(d_rdata') = Expected'
                      /\ done'["accel"] => rdata_latched'["accel"] = Expected'
    BY Zenon
  <1>1. global_mem_stall => op' = op /\ arch' = arch
    BY ViewEdge, Zenon DEF MemTypes
  <1>2. op' = op /\ arch' = arch => Expected' = Expected
    BY Zenon DEF Expected, IdxAddr, Filled, FirstLane
  <1>3. "accel" \in Devs
    BY Zenon DEF Devs
  <1>4. ASSUME d_ready' PROVE Filled(d_rdata') = Expected'
    <2>1. op' = op /\ op.kind = "load"
      BY <1>4, RegEdge, ZenonT(30)
    <2>2. readDone /\ d_rdata' = rdata /\ global_mem_stall
      BY <1>4, <2>1, RegEdge, ZenonT(30)
    <2> QED BY <1>1, <1>2, <2>1, <2>2, BusRight, ZenonT(30)
  <1>5. ASSUME done'["accel"] PROVE rdata_latched'["accel"] = Expected'
    <2>1. /\ op' = op /\ global_mem_stall /\ (d_ready \/ done["accel"])
          /\ rdata_latched'["accel"] = IF d_ready THEN Filled(d_rdata) ELSE rdata_latched["accel"]
      BY <1>3, <1>5, Latches, ZenonT(30) DEF ready, dev_rdata
    <2>2. /\ d_ready => Filled(d_rdata) = Expected
          /\ done["accel"] => rdata_latched["accel"] = Expected
      BY <2>1, ZenonT(30) DEF AccelInv
    <2> QED BY <1>1, <1>2, <2>1, <2>2, ZenonT(30)
  <1> QED BY <1>4, <1>5, ZenonT(30)

\* While the access waits, its register changes when it acts, and once.
LEMMA RegsWait ==
  ASSUME CoreTypes, HandshakeInv, BridgeInv, AccelInv, Next, op' = op, arch' = arch, global_mem_stall
  PROVE  /\ \A a \in RegAddrs("DEST_ADDR") :
              IF Wrote("DEST_ADDR")' THEN destAddr' = op.wdata ELSE arch[a] = Filled(destAddr')
         /\ \A a \in RegAddrs("RESULT_IDX") :
              IF Wrote("RESULT_IDX")' THEN resultIdx' = op.wdata
              ELSE IF Stepped' THEN resultIdx' = NextIdx(arch[a][FirstLane])
              ELSE arch[a] = Filled(resultIdx')
  <1>1. /\ RegisterWrites
        /\ doWrite => op.kind = "store" /\ axi_aw = op.addr.reg /\ axi_w = op.wdata
        /\ readDone => op.kind = "load" /\ raddr = op.addr.reg
        /\ doWrite \/ readDone => ~HasActed /\ HasActed'
        /\ ~doWrite /\ ~readDone => (HasActed' <=> HasActed)
    BY RegEdge, ZenonT(30)
  <1>2. /\ \A r : Wrote(r)' <=> HasActed' /\ op.kind = "store" /\ op.addr.reg = r
        /\ Stepped' <=> HasActed' /\ op.kind = "load" /\ op.addr.reg = "RESULT"
    BY ZenonT(30) DEF Wrote, Stepped
  <1>3. /\ \A a \in RegAddrs("DEST_ADDR") :
             IF Wrote("DEST_ADDR") THEN destAddr = op.wdata ELSE arch[a] = Filled(destAddr)
        /\ \A a \in RegAddrs("RESULT_IDX") :
             IF Wrote("RESULT_IDX") THEN resultIdx = op.wdata
             ELSE IF Stepped THEN resultIdx = NextIdx(arch[a][FirstLane])
             ELSE arch[a] = Filled(resultIdx)
    BY ZenonT(30) DEF AccelInv
  <1> HIDE DEF FirstLane, Filled, HasActed, doWrite, readDone, NextIdx
  <1>4. CASE doWrite
    <2>1. ~Wrote("DEST_ADDR") /\ ~Wrote("RESULT_IDX") /\ ~Stepped /\ ~Stepped'
      BY <1>1, <1>2, <1>4, ZenonT(30) DEF Wrote, Stepped
    <2>2. /\ destAddr' = IF op.addr.reg = "DEST_ADDR" THEN op.wdata ELSE destAddr
          /\ resultIdx' = IF op.addr.reg = "RESULT_IDX" THEN op.wdata ELSE resultIdx
      BY <1>1, <1>4, ZenonT(30) DEF RegisterWrites
    <2> QED BY <1>1, <1>2, <1>3, <1>4, <2>1, <2>2, ZenonT(30)
  <1>5. CASE readDone
    <2>0. ~doWrite /\ op.kind = "load"
      BY <1>1, <1>5, ZenonT(30)
    <2>1. /\ ~Wrote("DEST_ADDR") /\ ~Wrote("RESULT_IDX") /\ ~Stepped
          /\ ~Wrote("DEST_ADDR")' /\ ~Wrote("RESULT_IDX")'
          /\ Stepped' <=> op.addr.reg = "RESULT"
      BY <1>1, <1>2, <1>5, <2>0, ZenonT(30) DEF Wrote, Stepped
    <2>2. /\ destAddr' = destAddr
          /\ resultIdx' = IF op.addr.reg = "RESULT" THEN NextIdx(resultIdx) ELSE resultIdx
      BY <1>1, <1>5, <2>0, ZenonT(30) DEF RegisterWrites
    <2> QED BY <1>3, <2>1, <2>2, FilledFirst, ZenonT(30)
  <1>6. CASE ~doWrite /\ ~readDone
    <2>1. /\ Wrote("DEST_ADDR")' <=> Wrote("DEST_ADDR")
          /\ Wrote("RESULT_IDX")' <=> Wrote("RESULT_IDX")
          /\ Stepped' <=> Stepped
      BY <1>1, <1>2, <1>6, ZenonT(30) DEF Wrote, Stepped
    <2>2. destAddr' = destAddr /\ resultIdx' = resultIdx
      BY <1>1, <1>6, ZenonT(30) DEF RegisterWrites
    <2> QED BY <1>3, <2>1, <2>2, ZenonT(30)
  <1> QED BY <1>4, <1>5, <1>6, ZenonT(30)

\* When the access leaves MEM, the program's view takes the step its register
\* has made.
LEMMA RegsLeave ==
  ASSUME CoreTypes, HandshakeInv, BridgeInv, ResvInv, MemTypes, AccelInv, Next, ~global_mem_stall
  PROVE  /\ \A a \in RegAddrs("DEST_ADDR") : arch'[a] = Filled(destAddr')
         /\ \A a \in RegAddrs("RESULT_IDX") : arch'[a] = Filled(resultIdx')
         /\ ~HasActed'
  <1>1. /\ RegisterWrites /\ ~doWrite /\ ~readDone /\ ~HasActed'
        /\ HasActed <=> op.addr.region = "accel"
    BY RegEdge, ZenonT(30)
  <1>2. destAddr' = destAddr /\ resultIdx' = resultIdx
    BY <1>1, ZenonT(30) DEF RegisterWrites
  <1>3. \A a \in ArchAddrs :
          arch'[a] = IF StepsIndex
                     THEN IF a = IdxAddr THEN Filled(NextIdx(arch[a][FirstLane])) ELSE arch[a]
                     ELSE IF a = op.addr THEN Effect(arch[a]) ELSE arch[a]
    BY ViewEdge, ZenonT(30) DEF MemTypes
  <1>4. /\ \A a \in RegAddrs("DEST_ADDR") :
             IF Wrote("DEST_ADDR") THEN destAddr = op.wdata ELSE arch[a] = Filled(destAddr)
        /\ \A a \in RegAddrs("RESULT_IDX") :
             IF Wrote("RESULT_IDX") THEN resultIdx = op.wdata
             ELSE IF Stepped THEN resultIdx = NextIdx(arch[a][FirstLane])
             ELSE arch[a] = Filled(resultIdx)
    BY Zenon DEF AccelInv
  <1> HIDE DEF FirstLane, Filled, HasActed, doWrite, readDone, NextIdx
  <1>5. CASE StepsIndex
    <2>1. op.kind = "load" /\ op.addr.region = "accel" /\ op.addr.reg = "RESULT"
          /\ IdxAddr.reg = "RESULT_IDX"
      BY <1>5, IndexPlace, ZenonT(30)
    <2>2. ~Wrote("DEST_ADDR") /\ ~Wrote("RESULT_IDX") /\ Stepped
      BY <1>1, <2>1, ZenonT(30) DEF Wrote, Stepped
    <2>3. ASSUME NEW a \in RegAddrs("DEST_ADDR") PROVE arch'[a] = Filled(destAddr')
      <3>1. a \in ArchAddrs /\ a # IdxAddr
        BY <2>1, RegPlaces, ZenonT(30) DEF Registers
      <3> QED BY <1>2, <1>3, <1>4, <1>5, <2>2, <3>1, ZenonT(30)
    <2>4. ASSUME NEW a \in RegAddrs("RESULT_IDX") PROVE arch'[a] = Filled(resultIdx')
      <3>1. a \in ArchAddrs /\ a = IdxAddr
        BY <2>1, RegPlaces, ZenonT(30) DEF Registers, IdxAddr
      <3> QED BY <1>2, <1>3, <1>4, <1>5, <2>2, <3>1, ZenonT(30)
    <2> QED BY <1>1, <2>3, <2>4, ZenonT(30)
  <1>6. CASE ~StepsIndex
    <2>1. ~Stepped
      BY <1>1, <1>6, ZenonT(30) DEF Stepped, StepsIndex, is_load
    <2>2. ASSUME NEW r \in Registers, NEW a \in RegAddrs(r)
          PROVE  /\ Wrote(r) => arch'[a] = Filled(op.wdata)
                 /\ ~Wrote(r) => arch'[a] = arch[a]
      <3>1. /\ a \in ArchAddrs /\ a.region = "accel" /\ a.reg = r
            /\ op.addr.region = "accel" => a = [op.addr EXCEPT !.reg = r]
        BY <2>2, RegPlaces, ZenonT(30)
      <3>2. ASSUME Wrote(r) PROVE arch'[a] = Filled(op.wdata)
        <4>1. op.kind = "store" /\ op.addr.reg = r /\ op.addr.region = "accel"
          BY <1>1, <3>2, ZenonT(30) DEF Wrote
        <4>2. a = op.addr
          BY <3>1, <4>1, RegOp, ZenonT(30)
        <4> QED BY <1>3, <1>6, <3>1, <4>1, <4>2, WholeStore, ZenonT(30)
      <3>3. ASSUME ~Wrote(r), a = op.addr PROVE arch'[a] = arch[a]
        <4>1. op.kind # "store" /\ op.addr.region = "accel"
          BY <1>1, <3>1, <3>3, ZenonT(30) DEF Wrote
        <4> QED BY <1>3, <1>6, <3>1, <3>3, <4>1, WholeLoad, ZenonT(30)
      <3>4. ASSUME a # op.addr PROVE arch'[a] = arch[a]
        BY <1>3, <1>6, <3>1, <3>4, ZenonT(30)
      <3> QED BY <3>2, <3>3, <3>4, ZenonT(30)
    <2> QED BY <1>1, <1>2, <1>4, <2>1, <2>2, ZenonT(30) DEF Registers
  <1> QED BY <1>5, <1>6, ZenonT(30)

\* The registers and the program's view of them agree, but for what the access in
\* MEM has done already.
LEMMA AccelStep ==
  ASSUME CoreTypes, HandshakeInv, BridgeInv, ResvInv, MemTypes, AccelInv, Next
  PROVE  AccelInv'
  <1>1. /\ work' = work /\ (global_mem_stall => op' = op /\ arch' = arch)
    BY CoreStep, ViewEdge, ZenonT(30) DEF MemTypes
  <1>2. \A r : RegAddrs(r)' = RegAddrs(r)
    BY <1>1, ZenonT(30) DEF RegAddrs
  <1>3. op'.kind = "load" /\ op'.addr.region = "accel" =>
          /\ d_ready' => Filled(d_rdata') = Expected'
          /\ done'["accel"] => rdata_latched'["accel"] = Expected'
    BY AnswerHeld, ZenonT(30)
  <1>4. /\ \A a \in RegAddrs("DEST_ADDR") :
             IF Wrote("DEST_ADDR")' THEN destAddr' = op'.wdata ELSE arch'[a] = Filled(destAddr')
        /\ \A a \in RegAddrs("RESULT_IDX") :
             IF Wrote("RESULT_IDX")' THEN resultIdx' = op'.wdata
             ELSE IF Stepped' THEN resultIdx' = NextIdx(arch'[a][FirstLane])
             ELSE arch'[a] = Filled(resultIdx')
    <2>1. CASE global_mem_stall
      BY <1>1, <2>1, RegsWait, ZenonT(30)
    <2>2. CASE ~global_mem_stall
      <3>1. ~Wrote("DEST_ADDR")' /\ ~Wrote("RESULT_IDX")' /\ ~Stepped'
        BY <2>2, RegsLeave, ZenonT(30) DEF Wrote, Stepped
      <3> QED BY <2>2, <3>1, RegsLeave, ZenonT(30)
    <2> QED BY <2>1, <2>2, ZenonT(30)
  <1> QED BY <1>2, <1>3, <1>4, ZenonT(30) DEF AccelInv, Filled, NextIdx, FirstLane

\* After reset the registers hold what the program assumes.
LEMMA DataInit ==
  ASSUME Init
  PROVE  AccelInv /\ UartInv /\ CmpInv
  <1>1. op.kind = "none" /\ done = [v \in Devs |-> FALSE] /\ pending = [v \in Devs |-> FALSE]
    BY ZenonT(30) DEF Init, NoOp
  <1>2. ~HasActed
    BY <1>1, ZenonT(30) DEF HasActed, Acted, Devs
  <1>3. arch = [a \in ArchAddrs |-> Filled(Reset(a))] /\ CoreTypes
    BY CoreInit, ZenonT(30) DEF Init
  <1>4. destAddr = 0 /\ resultIdx = 0 /\ mtimecmp = Time(0, HALF - 1)
    BY ZenonT(30) DEF Init, SlaveInit, ClintInit
  <1>5. ASSUME NEW r \in Registers, NEW a \in RegAddrs(r) PROVE arch[a] = Filled(0)
    <2>1. a \in ArchAddrs /\ a.region = "accel"
      BY <1>3, <1>5, RegPlaces, ZenonT(30)
    <2>2. Reset(a) = 0
      BY <2>1, ZenonT(30) DEF Reset
    <2> HIDE DEF Filled, Reset
    <2> QED BY <1>3, <2>1, <2>2, ZenonT(30)
  <1>6. AccelInv
    <2> HIDE DEF Filled
    <2> QED BY <1>1, <1>2, <1>4, <1>5, ZenonT(30) DEF AccelInv, Wrote, Stepped, Registers
  <1>7. UartInv
    BY <1>1, ZenonT(30) DEF UartInv
  <1>8. CmpInv
    <2>1. Hi(mtimecmp) = 0 /\ Lo(mtimecmp) = HALF - 1
      <3>1. HALF - 1 \in 0 .. HALF - 1 /\ 0 \in Nat
        BY HalfAssumption, SMTT(30)
      <3> QED BY <1>4, <3>1, TimeParts, ZenonT(30)
    <2>2. ASSUME NEW o \in work.ops, o.addr.region = "clint" PROVE arch[o.addr] = Filled(Reset(o.addr))
      <3>1. o.addr \in ArchAddrs
        BY <1>3, <2>2, Addresses, ZenonT(30)
      <3> HIDE DEF Filled, Reset
      <3> QED BY <1>3, <3>1, ZenonT(30)
    <2> QED BY <2>1, <2>2, ZenonT(30) DEF CmpInv, Reset
  <1> QED BY <1>6, <1>7, <1>8, ZenonT(30)

\* The accelerator's registers, the latched answers and mtimecmp hold what the
\* program stored, but for what the access in MEM has done already
\* (axi_lite_bridge.v, MmAccel.scala, clint_timer.v, cpu.v).
THEOREM RegistersCoherent == Spec => [](AccelInv /\ UartInv /\ CmpInv)
  <1> DEFINE Inv == AccelInv /\ UartInv /\ CmpInv
  <1>1. CoreTypes /\ DeviceInv /\ ResvInv /\ TimerInv /\ MemTypes /\ Inv /\ [Next]_vars => Inv'
    <2> SUFFICES ASSUME CoreTypes, DeviceInv, ResvInv, TimerInv, MemTypes, Inv, [Next]_vars PROVE Inv'
      BY ZenonT(30)
    <2>1. CASE Next
      <3>1. HandshakeInv /\ BridgeInv
        BY ZenonT(30) DEF DeviceInv
      <3>2. AccelInv' /\ UartInv' /\ CmpInv'
        BY <2>1, <3>1, AccelStep, UartStep, CmpStep, ZenonT(30)
      <3> QED BY <3>2, ZenonT(30)
    <2>2. CASE UNCHANGED vars
      <3>1. /\ UNCHANGED bridgeVars /\ UNCHANGED slaveVars /\ UNCHANGED clintVars
            /\ UNCHANGED memStageVars
        BY <2>2, ZenonT(30) DEF vars
      <3>2. /\ op' = op /\ arch' = arch /\ work' = work /\ pending' = pending /\ done' = done
            /\ rdata_latched' = rdata_latched /\ uart_ready' = uart_ready /\ uart_rdata' = uart_rdata
        BY <3>1, ZenonT(30) DEF memStageVars
      <3>3. d_ready' = d_ready /\ d_rdata' = d_rdata /\ destAddr' = destAddr /\ resultIdx' = resultIdx
        BY <3>1, ZenonT(30) DEF bridgeVars, slaveVars
      <3>4. HasActed' <=> HasActed
        BY <3>1, <3>2, ZenonT(30) DEF HasActed, Acted, WriteTaken, Answered, WriteOff, ReadOff, bridgeVars,
           slaveVars
      <3>5. AccelInv'
        BY <3>2, <3>3, <3>4, ZenonT(30) DEF AccelInv, RegAddrs, Wrote, Stepped, Expected, IdxAddr, Filled,
           NextIdx, FirstLane
      <3>6. UartInv' /\ CmpInv'
        BY <3>1, <3>2, ZenonT(30) DEF UartInv, CmpInv, Filled, Lo, Hi, clintVars
      <3> QED BY <3>5, <3>6, ZenonT(30)
    <2> QED BY <2>1, <2>2, ZenonT(30)
  <1>2. Init => Inv
    BY DataInit, Zenon
  <1> QED BY <1>1, <1>2, WorkloadRuns, DevicesServed, MonitorFollows, DriverArms, MemoryCoherent, PTL
      DEF Spec

\* A load from memory that leaves MEM carries the program's value.
LEMMA MemoryLoads ==
  ASSUME CoreTypes, AmoInv, CacheInv, MemTypes, TcmInv, MemInv, ~global_mem_stall,
         is_load, cacheable
  PROVE  dcache_rdata(dcache_req) = arch[op.addr]
  <1>1. ~is_amo /\ ~is_store
    BY ZenonT(30) DEF is_load, is_amo, is_store
  <1>2. dcache_req.valid /\ ~dcache_req.write
    BY <1>1, ZenonT(30) DEF dcache_req, dcache_ren, dcache_wen, store_commits, amo_write_phase
  <1>3. dcache_ready(dcache_req)
    BY <1>2, ZenonT(30) DEF global_mem_stall, dmem_stall
  <1>4. ~amo_result_ready
    BY <1>1, ZenonT(30) DEF AmoInv
  <1>5. op.addr.region \in {"ddr", "tcm"}
    BY Zenon DEF cacheable, cacheableOp
  <1>6. CASE op.addr.region = "ddr"
    <2>1. dcache_rdata(dcache_req) = Mem(op.addr)
      BY <1>2, <1>3, <1>6, AnswerReads, ZenonT(30)
    <2>2. Mem(op.addr) = arch[op.addr]
      BY <1>1, <1>2, <1>4, Unwritten, ZenonT(30)
    <2> QED BY <2>1, <2>2, ZenonT(30)
  <1>7. CASE op.addr.region = "tcm"
    <2>1. dcache_rdata(dcache_req) = tcm_d_rdata /\ tcm_d_ready
      BY <1>2, <1>3, <1>7, AnswerReads, ZenonT(30)
    <2> QED BY <1>2, <2>1, ZenonT(30) DEF TcmInv
  <1> QED BY <1>5, <1>6, <1>7, Zenon

\* Whatever the cache geometry, the program, the stalls and the latencies: a load,
\* LR or AMO that leaves MEM carries what the last store to its address wrote, and
\* a device load the device's own answer (dcache_bram.v, tcm.v, axi_lite_bridge.v,
\* clint_timer.v, cpu.v).
THEOREM LoadsCarryLastStore == Spec => []LoadsRight
  <1>1. CoreTypes /\ AmoInv /\ CacheInv /\ MemTypes /\ TcmInv /\ MemInv /\ AccelInv /\ UartInv
        /\ CmpInv => LoadsRight
    <2> SUFFICES ASSUME CoreTypes, AmoInv, CacheInv, MemTypes, TcmInv, MemInv, AccelInv,
                        UartInv, CmpInv, ~global_mem_stall, op.kind \in {"load", "lr", "amo"}
                 PROVE  final_mem_read_data =
                          IF op.addr.region = "uart" THEN Filled(Mark)
                          ELSE IF op.addr.region = "accel" /\ op.addr.reg = "RESULT"
                          THEN Filled(Results[arch[IdxAddr][FirstLane]])
                          ELSE arch[op.addr]
      BY Zenon DEF LoadsRight, FirstLane
    <2> HIDE DEF IdxAddr, Filled, FirstLane
    <2>1. op \in work.ops /\ WellFormed(op)
      BY OpKinds, ZenonT(30)
    <2>2. CASE is_amo
      <3>1. amo_result_ready /\ amo_state = "AMO_WRITE"
        BY <2>2, ZenonT(30) DEF global_mem_stall, amo_stall, AmoInv
      <3>2. amo_old_value = arch[op.addr]
        BY <2>2, <3>1, ZenonT(30) DEF MemInv
      <3>3. op.addr.region \in {"ddr", "tcm"}
        BY <2>2, AmoCacheable, ZenonT(30) DEF cacheable, cacheableOp
      <3> QED BY <2>2, <3>2, <3>3, ZenonT(30) DEF final_mem_read_data
    <2>3. CASE ~is_amo /\ op.addr.region = "clint"
      <3>1. op.kind = "load" /\ op.addr.reg \in {"mtimecmp_lo", "mtimecmp_hi"}
        BY <2>1, <2>3, ZenonT(30) DEF WellFormed, is_amo
      <3>2. arch[op.addr] = Filled(clint_rdata(op.addr.reg))
        BY <2>1, <2>3, <3>1, ZenonT(30) DEF CmpInv, clint_rdata
      <3> QED BY <2>3, <3>2, ZenonT(30) DEF final_mem_read_data
    <2>4. CASE ~is_amo /\ op.addr.region \in Devs
      <3>1. op.kind = "load"
        BY <2>1, <2>4, ZenonT(30) DEF WellFormed, is_amo, Devs
      <3>2. done[op.addr.region]
        BY <2>4, <3>1, ZenonT(30) DEF global_mem_stall, dev_stall, valid, is_load
      <3>3. final_mem_read_data = rdata_latched[op.addr.region]
        BY <2>4, ZenonT(30) DEF final_mem_read_data, Devs
      <3>4. CASE op.addr.region = "uart"
        BY <3>1, <3>2, <3>3, <3>4, ZenonT(30) DEF UartInv
      <3>5. CASE op.addr.region = "accel"
        BY <3>1, <3>2, <3>3, <3>5, ZenonT(30) DEF AccelInv, Expected
      <3> QED BY <2>4, <3>4, <3>5, ZenonT(30) DEF Devs
    <2>5. CASE ~is_amo /\ op.addr.region \in {"ddr", "tcm"}
      <3>1. is_load /\ cacheable
        BY <2>5, ZenonT(30) DEF is_amo, is_load, cacheable, cacheableOp
      <3>2. final_mem_read_data = dcache_rdata(dcache_req)
        BY <2>5, Zenon DEF final_mem_read_data, Devs
      <3> QED BY <2>5, <3>1, <3>2, MemoryLoads, ZenonT(30)
    <2> QED BY <2>1, <2>2, <2>3, <2>4, <2>5, ZenonT(30) DEF WellFormed
  <1> QED BY <1>1, WorkloadRuns, DevicesServed, MemoryCoherent, RegistersCoherent, PTL
=============================================================================
