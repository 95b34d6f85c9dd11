--------------------------- MODULE SystolicArray ---------------------------
(***************************************************************************)
(* The array of MmAccel: dim x dim SystolicPE, the run sequencer and the   *)
(* skewed edge feed.  One step is one clock edge.                          *)
(*                                                                         *)
(* Operands and accumulators are integers: K terms of 8 by 8 bits stay far *)
(* below 32 bits.  The operands a run reads do not change while it runs    *)
(* (the concern of AccelQueue); what earlier runs left in the registers is *)
(* arbitrary, so one set of operands stands for every run of a history.    *)
(***************************************************************************)
EXTENDS Integers

CONSTANTS
  dim,    \* rows and columns
  maxK,   \* the largest K_LEN
  A, B,   \* A[<<i, k>>], B[<<j, k>>]: the operands
  Dot,    \* Dot[<<i, j, n>>]: the first n terms of row i times column j
  Stale,  \* values earlier runs may have left
  MaxRuns \* bound: starts of a behaviour

Lanes == 0 .. dim - 1
PEs == Lanes \X Lanes

ASSUME DimAssumption ==
  /\ dim \in Nat \ {0, 1} /\ maxK \in Nat /\ maxK + (2 * dim) <= 256
  /\ Stale \subseteq Int /\ MaxRuns \in Nat

ASSUME OperandAssumption ==
  /\ A \in [Lanes \X (0 .. maxK) -> Int] /\ B \in [Lanes \X (0 .. maxK) -> Int]

ASSUME DotAssumption ==
  \A i, j \in Lanes :
    /\ Dot[<<i, j, 0>>] = 0
    /\ \A n \in 0 .. maxK - 1 :
         Dot[<<i, j, n + 1>>] = Dot[<<i, j, n>>] + (A[<<i, n>>] * B[<<j, n>>])

VARIABLES busy, done, t, kLen, aReg, bReg, accReg,
  runs, \* starts so far
  ran   \* history: K_LEN of the last run

vars == <<busy, done, t, kLen, aReg, bReg, accReg, runs, ran>>

Init ==
  /\ busy = FALSE /\ done = FALSE /\ t = 0 /\ kLen \in 0 .. maxK /\ runs = 0 /\ ran = 0
  /\ aReg \in [PEs -> Stale] /\ bReg \in [PEs -> Stale] /\ accReg \in [PEs -> Stale]

lastT_one_way == kLen + (dim - 1) - 1
lastT == kLen + (2 * (dim - 1)) - 1

----------------------------------------------------------------------------

\* The edge feed: the k-th operand of lane i enters in cycle k + i, and zeros
\* before and after.
kValid(i) == t - i >= 0 /\ t - i < kLen
aEdge(i) == IF kValid(i) THEN A[<<i, t - i>>] ELSE 0
bEdge(i) == IF kValid(i) THEN B[<<i, t - i>>] ELSE 0

aIn(p) == IF p[2] = 0 THEN aEdge(p[1]) ELSE aReg[<<p[1], p[2] - 1>>]
bIn(p) == IF p[1] = 0 THEN bEdge(p[2]) ELSE bReg[<<p[1] - 1, p[2]>>]

clearAcc_at_start(p) == t = 0
clearAcc(p) == t = p[1] + p[2]

\* One enabled cycle of every PE.
PEsStep ==
  /\ aReg' = [p \in PEs |-> aIn(p)]
  /\ bReg' = [p \in PEs |-> bIn(p)]
  /\ accReg' = [p \in PEs |-> IF clearAcc(p) THEN aIn(p) * bIn(p)
                                             ELSE accReg[p] + (aIn(p) * bIn(p))]

\* The enable replicas equal busy in every cycle.
PEArray == (busy /\ PEsStep) \/ (~busy /\ UNCHANGED <<aReg, bReg, accReg>>)

----------------------------------------------------------------------------

\* startAny: also in the middle of a run, which it abandons.
Start ==
  /\ runs < MaxRuns /\ runs' = runs + 1 /\ ran' = kLen
  /\ busy' = TRUE /\ done' = FALSE /\ t' = 0
  /\ PEArray /\ UNCHANGED kLen

Advance ==
  /\ busy
  /\ \/ t = lastT /\ busy' = FALSE /\ done' = TRUE
     \/ t # lastT /\ UNCHANGED <<busy, done>>
  /\ t' = (t + 1) % 256
  /\ PEArray /\ UNCHANGED <<kLen, runs, ran>>

SoftRst ==
  /\ busy' = FALSE /\ done' = FALSE /\ t' = 0
  /\ PEArray /\ UNCHANGED <<kLen, runs, ran>>

\* A write of K_LEN: dropped while the array is busy, clamped otherwise.
WriteKLen(k) ==
  /\ ~busy
  /\ kLen' = IF k > maxK THEN maxK ELSE k
  /\ UNCHANGED <<busy, done, t, aReg, bReg, accReg, runs, ran>>

Next == Start \/ Advance \/ SoftRst \/ \E k \in 0 .. maxK + 1 : WriteKLen(k)

Spec == Init /\ [][Next]_vars

----------------------------------------------------------------------------

\* The sequencer counts within a run; eight bits are enough for it.
TypeOK ==
  /\ busy \in BOOLEAN /\ done \in BOOLEAN /\ kLen \in 0 .. maxK
  /\ t \in 0 .. maxK + (2 * dim) /\ runs \in Nat /\ ran \in 0 .. maxK
  /\ aReg \in [PEs -> Int] /\ bReg \in [PEs -> Int] /\ accReg \in [PEs -> Int]

\* DONE means that every accumulator holds its whole dot product and nothing
\* else, whatever was in the array before and wherever an earlier run was cut
\* off: the clear of a PE comes with its first term, and the run is just long
\* enough for the last term to reach the last PE.  (A run of no terms is one
\* cycle too short for that: it never clears the last PE.)
ProductRight ==
  done /\ ran > 0 => \A p \in PEs : accReg[p] = Dot[<<p[1], p[2], ran>>]

----------------------------------------------------------------------------
\* Why it holds: what each register holds in cycle t of a run.

AVal(i, m) == IF 0 <= m /\ m < ran THEN A[<<i, m>>] ELSE 0
BVal(j, m) == IF 0 <= m /\ m < ran THEN B[<<j, m>>] ELSE 0

\* Operands that entered since the start of the run, in step with one another;
\* before they arrive a register holds something older.
PipesFilled ==
  \A p \in PEs :
    /\ t > p[2] => aReg[p] = AVal(p[1], t - 1 - p[1] - p[2])
    /\ t > p[1] => bReg[p] = BVal(p[2], t - 1 - p[1] - p[2])

TermsSoFar(p) == IF t - p[1] - p[2] < ran THEN t - p[1] - p[2] ELSE ran

Accumulated ==
  \A p \in PEs : t > p[1] + p[2] => accReg[p] = Dot[<<p[1], p[2], TermsSoFar(p)>>]

\* The inductive invariant.
RunInv ==
  /\ TypeOK
  /\ busy => t <= lastT /\ ~done /\ ran = kLen
  /\ busy => PipesFilled
  /\ busy \/ done => Accumulated
  /\ done => t = ran + (2 * (dim - 1))
  /\ ~busy /\ ~done => t = 0
=============================================================================
