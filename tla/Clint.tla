------------------------------- MODULE Clint --------------------------------
(***************************************************************************)
(* The timer (clint_timer.v).  A register is two halves, each of HALF      *)
(* values, that are read and written one at a time; mtime counts.          *)
(***************************************************************************)
EXTENDS Integers

CONSTANT HALF   \* values of a half: 2^32 in the hardware

VARIABLES mtime, mtimecmp
clintVars == <<mtime, mtimecmp>>

Hi(x) == x \div HALF
Lo(x) == x % HALF
Time(hi, lo) == hi * HALF + lo

ClintInit == mtime = 0 /\ mtimecmp = Time(0, HALF - 1)

timer_interrupt == mtime >= mtimecmp

clint_rdata(reg) ==
  CASE reg = "mtime_lo" -> Lo(mtime) [] reg = "mtime_hi" -> Hi(mtime)
    [] reg = "mtimecmp_lo" -> Lo(mtimecmp) [] reg = "mtimecmp_hi" -> Hi(mtimecmp)

\* Only the half that is written is taken from the store: the other half of
\* mtime still counts, carry included.
MtimeNext(wen, reg, wdata) ==
  LET up == (mtime + 1) % (HALF * HALF) IN
  IF wen /\ reg = "mtime_lo" THEN Time(Hi(up), wdata)
  ELSE IF wen /\ reg = "mtime_hi" THEN Time(wdata, Lo(up))
  ELSE up

\* A write of the low half that also clears the high half.
CmpNext_clears(wen, reg, wdata) ==
  IF wen /\ reg = "mtimecmp_lo" THEN Time(0, wdata)
  ELSE IF wen /\ reg = "mtimecmp_hi" THEN Time(wdata, Lo(mtimecmp))
  ELSE mtimecmp

CmpNext(wen, reg, wdata) ==
  IF wen /\ reg = "mtimecmp_lo" THEN Time(Hi(mtimecmp), wdata)
  ELSE IF wen /\ reg = "mtimecmp_hi" THEN Time(wdata, Lo(mtimecmp))
  ELSE mtimecmp

ClintTick(wen, reg, wdata) ==
  /\ mtime' = MtimeNext(wen, reg, wdata)
  /\ mtimecmp' = CmpNext(wen, reg, wdata)
=============================================================================
