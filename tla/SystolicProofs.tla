--------------------------- MODULE SystolicProofs ---------------------------
(* For every size of the array and every K_LEN, a finished run leaves the    *)
(* dot products in the accumulators, whatever it found there.                *)
EXTENDS SystolicArray, TLAPS

USE DEF PEs, Lanes

\* The number of a PE: its row and its column.
LEMMA PEFacts == \A p \in PEs : p[1] \in Lanes /\ p[2] \in Lanes /\ p = <<p[1], p[2]>>
OBVIOUS

\* What an operand value is while the array runs: an integer.
LEMMA ValuesAreIntegers ==
  ASSUME ran \in 0 .. maxK, NEW i \in Lanes, NEW m \in Int
  PROVE  AVal(i, m) \in Int /\ BVal(i, m) \in Int
BY DimAssumption, OperandAssumption DEF AVal, BVal

\* What enters PE p in cycle t of a run: the operands number t - p[1] - p[2] of
\* its row and its column, once they have had the time to arrive.
LEMMA InputsInStep ==
  ASSUME TypeOK, PipesFilled, ran = kLen, NEW p \in PEs
  PROVE  /\ aIn(p) \in Int /\ bIn(p) \in Int
         /\ t >= p[2] => aIn(p) = AVal(p[1], t - p[1] - p[2])
         /\ t >= p[1] => bIn(p) = BVal(p[2], t - p[1] - p[2])
<1>0. /\ p[1] \in Lanes /\ p[2] \in Lanes /\ dim \in Nat /\ t \in Int /\ kLen \in 0 .. maxK
      /\ maxK \in Nat /\ ran = kLen /\ ran \in 0 .. maxK
  BY PEFacts, DimAssumption DEF TypeOK, lastT
<1>1. aEdge(p[1]) = AVal(p[1], t - p[1]) /\ bEdge(p[2]) = BVal(p[2], t - p[2])
  BY <1>0, Zenon DEF aEdge, bEdge, kValid, AVal, BVal
<1>2. aEdge(p[1]) \in Int /\ bEdge(p[2]) \in Int
  BY <1>0, <1>1, ValuesAreIntegers
<1>3. ASSUME p[2] # 0
      PROVE  /\ <<p[1], p[2] - 1>> \in PEs
             /\ aIn(p) = aReg[<<p[1], p[2] - 1>>] /\ aIn(p) \in Int
             /\ t >= p[2] => aIn(p) = AVal(p[1], t - p[1] - p[2])
  <2>1. <<p[1], p[2] - 1>> \in PEs
    BY <1>0, <1>3
  <2>2. aIn(p) = aReg[<<p[1], p[2] - 1>>] /\ aIn(p) \in Int
    BY <1>3, <2>1, Zenon DEF aIn, TypeOK
  <2>3. t > p[2] - 1 => aReg[<<p[1], p[2] - 1>>] = AVal(p[1], t - 1 - p[1] - (p[2] - 1))
    BY <2>1, Zenon DEF PipesFilled
  <2>4. t - 1 - p[1] - (p[2] - 1) = t - p[1] - p[2]
    BY <1>0
  <2> QED BY <1>0, <2>1, <2>2, <2>3, <2>4
<1>4. ASSUME p[1] # 0
      PROVE  /\ <<p[1] - 1, p[2]>> \in PEs
             /\ bIn(p) = bReg[<<p[1] - 1, p[2]>>] /\ bIn(p) \in Int
             /\ t >= p[1] => bIn(p) = BVal(p[2], t - p[1] - p[2])
  <2>1. <<p[1] - 1, p[2]>> \in PEs
    BY <1>0, <1>4
  <2>2. bIn(p) = bReg[<<p[1] - 1, p[2]>>] /\ bIn(p) \in Int
    BY <1>4, <2>1, Zenon DEF bIn, TypeOK
  <2>3. t > p[1] - 1 => bReg[<<p[1] - 1, p[2]>>] = BVal(p[2], t - 1 - (p[1] - 1) - p[2])
    BY <2>1, Zenon DEF PipesFilled
  <2>4. t - 1 - (p[1] - 1) - p[2] = t - p[1] - p[2]
    BY <1>0
  <2> QED BY <1>0, <2>1, <2>2, <2>3, <2>4
<1>5. p[2] = 0 => aIn(p) = aEdge(p[1]) /\ t - p[1] - p[2] = t - p[1]
  BY <1>0 DEF aIn
<1>6. p[1] = 0 => bIn(p) = bEdge(p[2]) /\ t - p[1] - p[2] = t - p[2]
  BY <1>0 DEF bIn
<1> QED BY <1>1, <1>2, <1>3, <1>4, <1>5, <1>6, Zenon

\* A cycle of the array keeps its registers integers.
LEMMA StepTypes ==
  ASSUME TypeOK, PEArray
  PROVE  aReg' \in [PEs -> Int] /\ bReg' \in [PEs -> Int] /\ accReg' \in [PEs -> Int]
<1>1. CASE ~busy
  BY <1>1, Zenon DEF PEArray, TypeOK
<1>2. CASE busy
  <2>0. /\ t \in Int /\ kLen \in 0 .. maxK /\ maxK \in Nat /\ dim \in Nat
        /\ aReg \in [PEs -> Int] /\ bReg \in [PEs -> Int] /\ accReg \in [PEs -> Int]
    BY DimAssumption DEF TypeOK, lastT
  <2>1. \A i \in Lanes : aEdge(i) \in Int /\ bEdge(i) \in Int
    BY <2>0, OperandAssumption DEF aEdge, bEdge, kValid
  <2>2. \A p \in PEs : aIn(p) \in Int /\ bIn(p) \in Int
    <3> TAKE p \in PEs
    <3>1. p[1] \in Lanes /\ p[2] \in Lanes /\ dim \in Nat
      BY PEFacts, <2>0, Zenon
    <3>2. ASSUME p[2] # 0 PROVE <<p[1], p[2] - 1>> \in PEs
      BY <3>1, <3>2
    <3>3. ASSUME p[1] # 0 PROVE <<p[1] - 1, p[2]>> \in PEs
      BY <3>1, <3>3
    <3> QED BY <2>0, <2>1, <3>1, <3>2, <3>3, Zenon DEF aIn, bIn
  <2>3. \A p \in PEs : aIn(p) * bIn(p) \in Int
    BY <2>2
  <2> QED BY <1>2, <2>0, <2>2, <2>3 DEF PEArray, PEsStep
<1> QED BY <1>1, <1>2, Zenon

\* One cycle of a run, in which the counter moves on.
RunCycle ==
  /\ TypeOK /\ PipesFilled /\ Accumulated /\ PEsStep
  /\ t' = t + 1 /\ ran = kLen /\ ran' = ran

\* The operand registers stay in step.
LEMMA CycleFills ==
  ASSUME RunCycle
  PROVE  PipesFilled'
<1>0. t \in Nat /\ ran \in 0 .. maxK /\ t' = t + 1 /\ ran' = ran
  BY DimAssumption DEF RunCycle, TypeOK, lastT
<1> SUFFICES ASSUME NEW p \in PEs
             PROVE  /\ t' > p[2] => aReg'[p] = AVal(p[1], t - p[1] - p[2])
                    /\ t' > p[1] => bReg'[p] = BVal(p[2], t - p[1] - p[2])
  <2>1. \A p \in PEs : t' - 1 - p[1] - p[2] = t - p[1] - p[2]
    BY <1>0, PEFacts, DimAssumption
  <2>2. \A i, m : AVal(i, m)' = AVal(i, m) /\ BVal(i, m)' = BVal(i, m)
    BY <1>0, Zenon DEF AVal, BVal
  <2> QED BY <2>1, <2>2 DEF PipesFilled, AVal, BVal
<1>1. p[1] \in Lanes /\ p[2] \in Lanes /\ dim \in Nat
  BY PEFacts, DimAssumption, Zenon
<1>2. aReg'[p] = aIn(p) /\ bReg'[p] = bIn(p)
  BY Zenon DEF RunCycle, PEsStep
<1>3. /\ t >= p[2] => aIn(p) = AVal(p[1], t - p[1] - p[2])
      /\ t >= p[1] => bIn(p) = BVal(p[2], t - p[1] - p[2])
  BY InputsInStep, Zenon DEF RunCycle
<1> QED BY <1>0, <1>1, <1>2, <1>3

\* A PE starts with its first term, adds one term per cycle, then zeros.
LEMMA CycleAccumulates ==
  ASSUME RunCycle
  PROVE  Accumulated'
<1>0. t \in Nat /\ ran \in 0 .. maxK /\ maxK \in Nat /\ t' = t + 1 /\ ran' = ran
  BY DimAssumption DEF RunCycle, TypeOK, lastT
<1> SUFFICES ASSUME NEW p \in PEs, t' > p[1] + p[2]
             PROVE  accReg'[p] = Dot[<<p[1], p[2], TermsSoFar(p)'>>]
  BY Zenon DEF Accumulated, TermsSoFar
<1> DEFINE m == t - p[1] - p[2]
           i == p[1]
           j == p[2]
<1>1. i \in Lanes /\ j \in Lanes /\ dim \in Nat
  BY PEFacts, DimAssumption, Zenon
<1>2. m \in Nat /\ t >= i /\ t >= j
  BY <1>0, <1>1
<1>3. aIn(p) = AVal(i, m) /\ bIn(p) = BVal(j, m)
  BY <1>2, InputsInStep, Zenon DEF RunCycle
<1>4. accReg'[p] = IF t = i + j THEN aIn(p) * bIn(p) ELSE accReg[p] + (aIn(p) * bIn(p))
  BY Zenon DEF RunCycle, PEsStep, clearAcc
<1>5. TermsSoFar(p)' = IF m + 1 < ran THEN m + 1 ELSE ran
  BY <1>0, <1>1 DEF TermsSoFar
<1>6. t # i + j => m > 0 /\ accReg[p] = Dot[<<i, j, IF m < ran THEN m ELSE ran>>]
  BY <1>0, <1>1, <1>2 DEF RunCycle, Accumulated, TermsSoFar
<1>7. t = i + j => m = 0
  BY <1>0, <1>1
<1>8. Dot[<<i, j, 0>>] = 0
  BY <1>1, DotAssumption, Zenon
<1>9. accReg[p] \in Int
  BY Zenon DEF RunCycle, TypeOK
<1>10. CASE m < ran
  <2>1. aIn(p) * bIn(p) = A[<<i, m>>] * B[<<j, m>>]
    BY <1>2, <1>3, <1>10 DEF AVal, BVal
  <2>2. m \in 0 .. maxK - 1
    BY <1>0, <1>2, <1>10
  <2>3. Dot[<<i, j, m + 1>>] = Dot[<<i, j, m>>] + (A[<<i, m>>] * B[<<j, m>>])
    BY <1>1, <2>2, DotAssumption, Zenon
  <2>4. A[<<i, m>>] * B[<<j, m>>] \in Int
    <3>1. A[<<i, m>>] \in Int /\ B[<<j, m>>] \in Int
      <4>1. m \in 0 .. maxK
        BY <1>0, <2>2
      <4> HIDE DEF m
      <4> QED BY <1>1, <4>1, OperandAssumption, Zenon
    <3> QED BY <3>1
  <2>5. TermsSoFar(p)' = m + 1
    BY <1>0, <1>2, <1>5, <1>10
  <2>6. CASE t = i + j
    BY <1>4, <1>7, <1>8, <2>1, <2>3, <2>4, <2>5, <2>6
  <2>7. CASE t # i + j
    BY <1>4, <1>6, <1>10, <2>1, <2>3, <2>5, <2>7, Zenon
  <2> QED BY <2>6, <2>7, Zenon
<1>11. CASE ~(m < ran)
  <2>1. aIn(p) * bIn(p) = 0
    BY <1>3, <1>11 DEF AVal, BVal
  <2>2. TermsSoFar(p)' = ran
    BY <1>0, <1>2, <1>5, <1>11
  <2>3. CASE t = i + j
    <3>1. ran = 0
      BY <1>0, <1>2, <1>7, <1>11, <2>3
    <3> QED BY <1>4, <1>8, <2>1, <2>2, <2>3, <3>1, Zenon
  <2>4. CASE t # i + j
    BY <1>4, <1>6, <1>9, <1>11, <2>1, <2>2, <2>4
  <2> QED BY <2>3, <2>4, Zenon
<1> QED BY <1>10, <1>11, Zenon

\* Init establishes the invariant, every step keeps it, and it implies what a
\* reader of the results relies on.
THEOREM RunInvariance == Spec => []RunInv
<1>1. Init => RunInv
  <2> SUFFICES ASSUME Init PROVE RunInv
    BY Zenon
  <2>1. busy = FALSE /\ done = FALSE /\ t = 0 /\ runs = 0 /\ kLen \in 0 .. maxK /\ ran = 0
    BY Zenon DEF Init
  <2>2. aReg \in [PEs -> Int] /\ bReg \in [PEs -> Int] /\ accReg \in [PEs -> Int]
    BY DimAssumption, Zenon DEF Init
  <2>3. t \in 0 .. maxK + (2 * dim) /\ ran \in 0 .. maxK
    BY <2>1, DimAssumption
  <2> QED BY <2>1, <2>2, <2>3, Zenon DEF RunInv, TypeOK
<1>2. RunInv /\ [Next]_vars => RunInv'
  <2> SUFFICES ASSUME RunInv, [Next]_vars
               PROVE  RunInv'
    BY Zenon
  <2>0. /\ TypeOK /\ dim \in Nat /\ dim >= 2 /\ maxK \in Nat /\ maxK + (2 * dim) <= 256
        /\ kLen \in 0 .. maxK /\ t \in Nat /\ runs \in Nat /\ ran \in 0 .. maxK
    BY DimAssumption DEF RunInv, TypeOK, lastT
  <2>1. CASE Start
    <3>1. aReg' \in [PEs -> Int] /\ bReg' \in [PEs -> Int] /\ accReg' \in [PEs -> Int]
      BY <2>0, <2>1, StepTypes, ZenonT(30) DEF Start
    <3>2. busy' = TRUE /\ done' = FALSE /\ t' = 0 /\ kLen' = kLen /\ runs' = runs + 1 /\ ran' = kLen
      BY <2>1, Zenon DEF Start
    <3>3. TypeOK' /\ (t <= lastT)'
      <4>1. (t \in 0 .. maxK + (2 * dim))' /\ (t <= lastT)' /\ (runs \in Nat)'
        BY <2>0, <3>2 DEF lastT
      <4> QED BY <2>0, <3>1, <3>2, <4>1, Zenon DEF TypeOK
    <3>4. PipesFilled' /\ Accumulated'
      BY <2>0, <3>2, PEFacts DEF PipesFilled, Accumulated
    <3> QED BY <3>2, <3>3, <3>4, Zenon DEF RunInv
  <2>2. CASE Advance
    <3>1. aReg' \in [PEs -> Int] /\ bReg' \in [PEs -> Int] /\ accReg' \in [PEs -> Int]
      BY <2>0, <2>2, StepTypes, Zenon DEF Advance
    <3>2. busy /\ t <= lastT /\ ~done /\ ran = kLen /\ PipesFilled /\ Accumulated
      BY <2>2, Zenon DEF Advance, RunInv
    <3>3. t' = t + 1 /\ kLen' = kLen /\ runs' = runs /\ ran' = ran
      BY <2>0, <2>2, <3>2 DEF Advance, lastT
    <3>4. RunCycle
      BY <2>0, <2>2, <3>2, <3>3, Zenon DEF RunCycle, Advance, PEArray
    <3>5. PipesFilled' /\ Accumulated'
      BY <3>4, CycleFills, CycleAccumulates, Zenon
    <3>6. lastT' = lastT /\ lastT \in Nat
      BY <2>0, <3>3 DEF lastT
    <3>7. CASE t = lastT
      <4>1. busy' = FALSE /\ done' = TRUE
        BY <2>2, <3>7, Zenon DEF Advance
      <4>2. (t = ran + (2 * (dim - 1)))' /\ (t \in 0 .. maxK + (2 * dim))'
        BY <2>0, <3>2, <3>3, <3>7 DEF lastT
      <4>3. TypeOK'
        BY <2>0, <3>1, <3>3, <4>1, <4>2, Zenon DEF TypeOK
      <4> QED BY <3>5, <4>1, <4>2, <4>3, Zenon DEF RunInv
    <3>8. CASE t # lastT
      <4>1. busy' = busy /\ done' = done
        BY <2>2, <3>8, Zenon DEF Advance
      <4>2. (t <= lastT)' /\ (t \in 0 .. maxK + (2 * dim))'
        BY <2>0, <3>2, <3>3, <3>6, <3>8 DEF lastT
      <4>3. TypeOK'
        BY <2>0, <3>1, <3>3, <4>1, <4>2, Zenon DEF TypeOK
      <4> QED BY <3>2, <3>3, <3>5, <4>1, <4>2, <4>3, Zenon DEF RunInv
    <3> QED BY <3>7, <3>8, Zenon
  <2>3. CASE SoftRst
    <3>1. aReg' \in [PEs -> Int] /\ bReg' \in [PEs -> Int] /\ accReg' \in [PEs -> Int]
      BY <2>0, <2>3, StepTypes, Zenon DEF SoftRst
    <3>2. busy' = FALSE /\ done' = FALSE /\ t' = 0 /\ kLen' = kLen /\ runs' = runs /\ ran' = ran
      BY <2>3, Zenon DEF SoftRst
    <3>3. TypeOK'
      <4>1. (t \in 0 .. maxK + (2 * dim))' /\ (runs \in Nat)'
        BY <2>0, <3>2 DEF lastT
      <4> QED BY <2>0, <3>1, <3>2, <4>1, ZenonT(30) DEF TypeOK
    <3> QED BY <3>2, <3>3, Zenon DEF RunInv
  <2>4. ASSUME NEW k \in 0 .. maxK + 1, WriteKLen(k)
        PROVE  RunInv'
    <3>1. ~busy /\ busy' = busy /\ done' = done /\ t' = t /\ ran' = ran /\ accReg' = accReg
      BY <2>4, Zenon DEF WriteKLen
    <3>2. kLen' \in 0 .. maxK
      BY <2>0, <2>4 DEF WriteKLen
    <3>3. TypeOK'
      BY <2>0, <2>4, <3>1, <3>2, ZenonT(30) DEF TypeOK, WriteKLen
    <3>4. Accumulated' = Accumulated
      BY <3>1, Zenon DEF Accumulated, TermsSoFar
    <3> QED BY <3>1, <3>3, <3>4, Zenon DEF RunInv
  <2>5. CASE UNCHANGED vars
    <3>1. TypeOK' /\ lastT' = lastT
      BY <2>0, <2>5, Zenon DEF TypeOK, lastT, vars
    <3>2. PipesFilled' = PipesFilled /\ Accumulated' = Accumulated
      BY <2>5 DEF PipesFilled, Accumulated, TermsSoFar, AVal, BVal, vars
    <3> QED BY <2>5, <3>1, <3>2, Zenon DEF RunInv, vars
  <2> QED BY <2>1, <2>2, <2>3, <2>4, <2>5, Zenon DEF Next
<1> QED BY <1>1, <1>2, PTL DEF Spec

\* DONE means that every accumulator holds exactly its dot product, for every
\* array size, every K_LEN and every history of runs, restarts and resets.
THEOREM ProductAlwaysRight == Spec => []ProductRight
<1>1. RunInv => ProductRight
  <2> SUFFICES ASSUME RunInv, done, ran > 0, NEW p \in PEs
               PROVE  accReg[p] = Dot[<<p[1], p[2], ran>>]
    BY Zenon DEF ProductRight
  <2>1. Accumulated /\ t = ran + (2 * (dim - 1)) /\ ran \in Nat /\ dim \in Nat
    BY DimAssumption DEF RunInv, TypeOK
  <2>2. p[1] \in Lanes /\ p[2] \in Lanes
    BY PEFacts, Zenon
  <2>3. t > p[1] + p[2] /\ TermsSoFar(p) = ran
    BY <2>1, <2>2 DEF TermsSoFar
  <2> QED BY <2>1, <2>3, Zenon DEF Accumulated
<1> QED BY <1>1, RunInvariance, PTL
=============================================================================
