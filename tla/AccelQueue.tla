----------------------------- MODULE AccelQueue -----------------------------
(***************************************************************************)
(* The accelerator's queued operation (MmAccel): the descriptor queue, its *)
(* sequencer with operand prefetch, the operand load engine, the array,    *)
(* and the result store (ResultDma).  One step is one clock edge.          *)
(*                                                                         *)
(* A panel has dim lanes of ldLines lines; a line is a row of rowBytes     *)
(* operands of a lane, named <<source, number in the panel>>.  The buffers *)
(* and the array are followed for one lane, any of them: the same lane of  *)
(* A and of B, hence one element on the diagonal of the result.  A product *)
(* is the sequence of the pairs of rows its terms were taken from.         *)
(***************************************************************************)
EXTENDS ResultDma, FiniteSets

CONSTANTS
  dim,           \* lanes
  rowBytes,      \* operands in a line
  linesPerLane,  \* lines a lane can hold
  Panels,        \* B panels
  descDepth      \* descriptors the queue can hold

ASSUME QueueAssumption ==
  /\ {dim, rowBytes, linesPerLane, descDepth} \subseteq Nat \ {0}
  /\ Panels # {}

VARIABLES
  qState, qRun, qBusy, qDone, qOverflow,
  descQ,
  ld,     \* load context: [a, b, k, panel, bOnly]
  stg,    \* staged: [k, use, dest] of the descriptor being loaded
  cmp,    \* compute context: the same, promoted when its operands are resident
  preBusy, preDone, prePend, ldDonePrev,
  ldBusy, ldDone, ldReq, ldInB, ldLane, ldChunk,
  lane,                      \* the lane that is followed (never changes)
  aMem, bMem,                \* its operand rows
  busy, done, t, edge, acc   \* the array, its operand registers, its results

seqVars == <<qState, qRun, qBusy, qDone, qOverflow, descQ, ld, stg, cmp,
             preBusy, preDone, prePend, ldDonePrev>>
loadVars == <<ldBusy, ldDone, ldReq, ldInB, ldLane, ldChunk, lane, aMem, bMem>>
arrayVars == <<busy, done, t, edge, acc>>

Rows == 0 .. linesPerLane - 1
Lanes == 0 .. dim - 1
maxK == linesPerLane * rowBytes
NoLine == << <<"none", 0, 0>>, 0>>

QueueInit ==
  /\ qState = "qIdle" /\ qRun = FALSE /\ qBusy = FALSE /\ qDone = FALSE
  /\ qOverflow = FALSE /\ descQ = <<>>
  /\ ld = [a |-> 0, b |-> 0, k |-> 0, panel |-> CHOOSE p \in Panels : TRUE, bOnly |-> FALSE]
  /\ stg = [k |-> 0, use |-> CHOOSE p \in Panels : TRUE, dest |-> 0]
  /\ cmp = stg
  /\ preBusy = FALSE /\ preDone = FALSE /\ prePend = FALSE /\ ldDonePrev = FALSE

LoadInit ==
  /\ ldBusy = FALSE /\ ldDone = FALSE /\ ldReq = FALSE /\ ldInB = FALSE
  /\ ldLane = 0 /\ ldChunk = 0 /\ lane \in Lanes
  /\ aMem = [r \in Rows |-> NoLine]
  /\ bMem = [p \in Panels |-> [r \in Rows |-> NoLine]]

ArrayInit ==
  busy = FALSE /\ done = FALSE /\ t = 0 /\ edge = <<NoLine, NoLine>> /\ acc = <<>>

----------------------------------------------------------------------------
\* The queue sequencer.

deq_valid == descQ # <<>>
Next_d == Head(descQ)

Staged(d) == [k |-> d.k, use |-> d.use, dest |-> d.dest]
LoadCtx(d) == [a |-> d.a, b |-> d.b, k |-> d.k, panel |-> d.load, bOnly |-> d.bOnly]

\* tryPrefetch: the next descriptor may be loaded while this tile computes if
\* it keeps A and fills a panel the array does not read.
MayPrefetch_any_panel == ~preBusy /\ deq_valid /\ Next_d.bOnly
MayPrefetch == ~preBusy /\ deq_valid /\ Next_d.bOnly /\ Next_d.load # stg.use

Adopts == \/ qState = "qIdle" /\ qRun /\ deq_valid
          \/ qState = "qPreIssue" /\ MayPrefetch
          \/ qState = "qPreW" /\ preDone /\ MayPrefetch

Prefetches == Adopts /\ qState # "qIdle"

Promotes == (qState = "qLoadW" /\ ldDone) \/ (qState = "qPreW" /\ preDone)

\* The accumulators are free as soon as the last group has been read.
Drained == dmaDone \/ (dmaBusy /\ fillLeft = 0)

BatchEnds_early == qState = "qIdle" /\ qRun /\ ~deq_valid
BatchEnds == qState = "qIdle" /\ qRun /\ ~deq_valid /\ ~dmaBusy /\ ~ldBusy

NextQState ==
  CASE qState = "qIdle" -> IF Adopts THEN "qLoad" ELSE "qIdle"
    [] qState = "qLoad" -> "qLoadW"
    [] qState = "qLoadW" -> IF ldDone THEN "qPreIssue" ELSE "qLoadW"
    [] qState = "qPreIssue" -> "qComp"
    [] qState = "qComp" -> "qCompW"
    [] qState = "qCompW" -> IF done /\ ~dmaBusy THEN "qStore" ELSE "qCompW"
    [] qState = "qStore" -> "qStoreW"
    [] qState = "qStoreW" -> IF ~Drained THEN "qStoreW" ELSE IF preBusy THEN "qPreW" ELSE "qIdle"
    [] qState = "qPreW" -> IF preDone THEN "qComp" ELSE "qPreW"

\* ldDone is a level: a prefetch is complete on its rising edge only.
PrefetchDone == ldDone /\ ~ldDonePrev /\ preBusy

\* enq is the descriptor pushed in this cycle, if any; start is CTRL bit 5.
QueueFlags(enq, start) ==
  /\ qRun' = (start \/ (qRun /\ ~BatchEnds))
  /\ qBusy' = (start \/ (qBusy /\ ~BatchEnds))
  /\ qDone' = (~start /\ (qDone \/ BatchEnds))
  /\ qOverflow' = ((enq # <<>> /\ Len(descQ) = descDepth) \/ (qOverflow /\ ~start))

\* A push into a full queue is dropped, also when an entry leaves.
accepted_when_full(enq) == enq
accepted(enq) == IF Len(descQ) < descDepth THEN enq ELSE <<>>

Contexts ==
  /\ ld' = IF Adopts THEN LoadCtx(Next_d) ELSE ld
  /\ stg' = IF Adopts THEN Staged(Next_d) ELSE stg
  /\ cmp' = IF Promotes THEN stg ELSE cmp
  /\ ldDonePrev' = ldDone

SeqTick(enq, start) ==
  /\ QueueFlags(enq, start)
  /\ descQ' = (IF Adopts THEN Tail(descQ) ELSE descQ) \o accepted(enq)
  /\ qState' = NextQState
  /\ prePend' = Prefetches
  /\ preBusy' = (Prefetches \/ (preBusy /\ ~(qState = "qPreW" /\ preDone)))
  /\ preDone' = (PrefetchDone \/ (preDone /\ qState # "qPreW" /\ ~Prefetches))

----------------------------------------------------------------------------
\* The operand load engine, fetching each panel in one burst.

ldDrive == ldBusy /\ ldReq
panelBase == IF ldInB THEN ld.b ELSE ld.a
ldStartAny == qState = "qLoad" \/ prePend

\* Lines a lane of k operands takes: at least one, at most what it can hold.
ldLinesOf(k) ==
  LET ceilLines == (k + rowBytes - 1) \div rowBytes IN
  IF ceilLines = 0 THEN 1 ELSE IF ceilLines > linesPerLane THEN linesPerLane ELSE ceilLines
ldLines == ldLinesOf(ld.k)

ldLastChunk == ldChunk = ldLines - 1
ldLastLane == ldLane = dim - 1
ldPanelEnd == ldLastLane /\ ldLastChunk

LoadStart ==
  /\ ldBusy' = TRUE /\ ldDone' = FALSE /\ ldReq' = TRUE
  /\ ldInB' = ld.bOnly /\ ldLane' = 0 /\ ldChunk' = 0

\* A line arrived: the cursor moves on, and the request is raised again only
\* for the second panel.
ldReqAgain_dropped == FALSE
ldReqAgain == ~ldInB /\ ldPanelEnd

LoadAdvance ==
  /\ ldReq' = ldReqAgain
  /\ \/ /\ ldPanelEnd /\ ldInB
        /\ ldBusy' = FALSE /\ ldDone' = TRUE /\ UNCHANGED <<ldInB, ldLane, ldChunk>>
     \/ /\ ~(ldPanelEnd /\ ldInB) /\ UNCHANGED <<ldBusy, ldDone>>
        /\ ldChunk' = IF ldLastChunk THEN 0 ELSE ldChunk + 1
        /\ ldLane' = IF ldLastChunk THEN (ldLane + 1) % dim ELSE ldLane
        /\ ldInB' = (ldInB \/ ldPanelEnd)

Captures(mem_rd_ready) == ~ldStartAny /\ ldBusy /\ mem_rd_ready

LoadTick(mem_rd_ready) ==
  \/ ldStartAny /\ LoadStart
  \/ Captures(mem_rd_ready) /\ LoadAdvance
  \/ /\ ~ldStartAny /\ ~Captures(mem_rd_ready)
     /\ UNCHANGED <<ldBusy, ldDone, ldReq, ldInB, ldLane, ldChunk>>

\* The row written in this cycle, if it belongs to the lane that is followed.
aWrites(mem_rd_ready) == Captures(mem_rd_ready) /\ ldLane = lane /\ ~ldInB
bWrites(mem_rd_ready) == Captures(mem_rd_ready) /\ ldLane = lane /\ ldInB

Buffers(mem_rd_ready, rline) ==
  /\ aMem' = IF aWrites(mem_rd_ready) THEN [aMem EXCEPT ![ldChunk] = rline] ELSE aMem
  /\ bMem' = IF bWrites(mem_rd_ready)
               THEN [bMem EXCEPT ![ld.panel][ldChunk] = rline] ELSE bMem
  /\ UNCHANGED lane

----------------------------------------------------------------------------
\* The array.  Operand rows are read one cycle before they are used; a lane
\* starts as many cycles late as its number.  What a read returns in the very
\* cycle its row is written is undefined: a row no product may contain.

startAny == qState = "qComp"
lastT == cmp.k + (2 * (dim - 1)) - 1
kNext == IF startAny \/ t + 1 < lane THEN 0 ELSE t + 1 - lane
rowNext == (kNext \div rowBytes) % linesPerLane
kIdx == t - lane
kValid == kIdx >= 0 /\ kIdx < cmp.k

aRead(mem_rd_ready) ==
  IF aWrites(mem_rd_ready) /\ ldChunk = rowNext THEN NoLine ELSE aMem[rowNext]
bRead(mem_rd_ready) ==
  IF bWrites(mem_rd_ready) /\ ldChunk = rowNext /\ ld.panel = cmp.use
    THEN NoLine ELSE bMem[cmp.use][rowNext]

\* The first term of a run replaces what the accumulator held.
ArrayData(mem_rd_ready) ==
  /\ edge' = <<aRead(mem_rd_ready), bRead(mem_rd_ready)>>
  /\ acc' = CASE busy /\ kIdx = 0 -> IF kValid THEN <<edge>> ELSE <<>>
              [] busy /\ kIdx > 0 /\ kValid -> Append(acc, edge)
              [] OTHER -> acc

ArrayTick ==
  \/ startAny /\ busy' = TRUE /\ done' = FALSE /\ t' = 0
  \/ ~startAny /\ busy /\ busy' = (t # lastT) /\ done' = (t = lastT) /\ t' = t + 1
  \/ ~startAny /\ ~busy /\ UNCHANGED <<busy, done, t>>

----------------------------------------------------------------------------
\* SOFT_RST overrides the control of every engine.  Contexts, buffers and
\* accumulators are not part of it.
PrefetchPulseAfterReset_pending == Prefetches
PrefetchPulseAfterReset == FALSE

SoftReset ==
  /\ qState' = "qIdle" /\ qRun' = FALSE /\ qBusy' = FALSE /\ qDone' = FALSE
  /\ qOverflow' = FALSE /\ descQ' = <<>>
  /\ preBusy' = FALSE /\ preDone' = FALSE /\ prePend' = PrefetchPulseAfterReset
  /\ ldBusy' = FALSE /\ ldDone' = FALSE /\ ldReq' = FALSE /\ ldInB' = FALSE
  /\ ldLane' = 0 /\ ldChunk' = 0
  /\ busy' = FALSE /\ done' = FALSE /\ t' = 0

QueueTick(enq, start, softRst, mem_rd_ready, rline) ==
  /\ Contexts /\ Buffers(mem_rd_ready, rline) /\ ArrayData(mem_rd_ready)
  /\ \/ softRst /\ SoftReset
     \/ ~softRst /\ SeqTick(enq, start) /\ LoadTick(mem_rd_ready) /\ ArrayTick
=============================================================================
