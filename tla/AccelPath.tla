------------------------------ MODULE AccelPath ------------------------------
(***************************************************************************)
(* The accelerator with software that queues tiles and the memory ports.   *)
(*                                                                         *)
(* The ports are the abstraction the read and write paths provide: a       *)
(* request is granted and then delivers, or takes, its lines in order, one *)
(* in any later cycle each, whatever happens to the requester meanwhile.   *)
(***************************************************************************)
EXTENDS AccelQueue, TLC

CONSTANTS
  Plans,          \* what software does: [shapes, tiles, resets]
  ResetsInFlight  \* SOFT_RST may hit while a port is delivering operands

ASSUME AccelAssumption ==
  /\ ResetsInFlight \in BOOLEAN
  /\ \A p \in Plans :
       /\ p.tiles \in Nat \ {0} /\ p.resets \in Nat
       /\ p.shapes \subseteq [k : 1 .. maxK, use : Panels, load : Panels, bOnly : BOOLEAN]

VARIABLES
  plan,             \* the descriptors software may push, how many between
                    \* resets, and how many resets
  rpLeft, rpLine,   \* read port: lines left of its burst, and the next one
  wpLeft, wpAddr,   \* write port: likewise
  mem,              \* memory: address -> the result line stored there
  resets,
  pushed,           \* descriptors accepted since the last reset
  stored            \* tiles whose store completed since the last reset

portVars == <<rpLeft, rpLine, wpLeft, wpAddr, mem>>
vars == <<plan, dmaVars, seqVars, loadVars, arrayVars, portVars, resets, pushed, stored>>

Init ==
  /\ plan \in Plans
  /\ DmaInit /\ QueueInit /\ LoadInit /\ ArrayInit
  /\ rpLeft = 0 /\ rpLine = NoLine /\ wpLeft = 0 /\ wpAddr = 0 /\ mem = <<>>
  /\ resets = 0 /\ pushed = <<>> /\ stored = 0

\* The next descriptor software pushes: every tile has sources of its own and
\* a destination of its own.
Desc(s) ==
  LET n == Len(pushed) + 1 IN
  [a |-> <<"a", resets, n>>, b |-> <<"b", resets, n>>, dest |-> NGroups * n,
   k |-> s.k, lines |-> ldLinesOf(s.k), use |-> s.use, load |-> s.load, bOnly |-> s.bOnly]

Batch == INSTANCE AccelBatch WITH
  rowBytes <- rowBytes, lane <- lane,
  pushed <- pushed,
  out <- [i \in 1 .. stored |-> mem[pushed[i].dest][1]],
  running <- qBusy,
  reported <- qDone

Pushes ==
  {<<>>} \cup
  {<<Desc(s)>> : s \in {s \in plan.shapes : /\ Len(pushed) < plan.tiles
                                            /\ Batch!WellFormed(Append(pushed, Desc(s)))}}

\* The result group on the way to the FIFO: the whole product, and its number.
lineOut == <<acc, fillGrp>>

NoResult == << <<>>, 0>>

ReadPort(grant, rready) ==
  \/ /\ rpLeft = 0 /\ ldDrive /\ grant
     /\ rpLeft' = dim * ldLines /\ rpLine' = <<panelBase, 0>>
  \/ /\ rpLeft > 0 /\ rready
     /\ rpLeft' = rpLeft - 1 /\ rpLine' = [rpLine EXCEPT ![2] = @ + 1]
  \/ /\ ~(rpLeft = 0 /\ ldDrive /\ grant) /\ ~(rpLeft > 0 /\ rready)
     /\ UNCHANGED <<rpLeft, rpLine>>

WritePort(grant, wready) ==
  \/ /\ wpLeft = 0 /\ dmaDrive /\ grant
     /\ wpLeft' = wBurstLines /\ wpAddr' = dmaAddr /\ UNCHANGED mem
  \/ /\ wpLeft > 0 /\ wready
     /\ wpLeft' = wpLeft - 1 /\ wpAddr' = wpAddr + 1
     /\ mem' = (wpAddr :> (IF lineFifo = <<>> THEN NoResult ELSE Head(lineFifo))) @@ mem
  \/ /\ ~(wpLeft = 0 /\ dmaDrive /\ grant) /\ ~(wpLeft > 0 /\ wready)
     /\ UNCHANGED <<wpLeft, wpAddr, mem>>

mem_rd_ready(rready) == rpLeft > 0 /\ rready
mem_wnext(wready) == wpLeft > 1 /\ wready
mem_wr_ready(wready) == wpLeft = 1 /\ wready

\* SOFT_RST meets a quiet write port (see WritePath for the other case).
ResetAllowed ==
  /\ resets < plan.resets /\ wpLeft = 0 /\ ~dmaDrive
  /\ ResetsInFlight \/ (rpLeft = 0 /\ ~ldDrive)

Bookkeeping(enq, softRst, wready) ==
  IF softRst
    THEN pushed' = <<>> /\ stored' = 0 /\ resets' = resets + 1
    ELSE /\ pushed' = pushed \o accepted(enq)
         /\ stored' = IF dmaBusy /\ mem_wr_ready(wready) /\ dmaSent + wBurstLines >= NGroups
                        THEN stored + 1 ELSE stored
         /\ UNCHANGED resets

Tick(enq, start, softRst, rgo, wgo) ==
  /\ QueueTick(enq, start, softRst, mem_rd_ready(rgo), rpLine)
  /\ DmaTick(qState = "qStore", cmp.dest, TRUE, softRst,
             mem_wnext(wgo), mem_wr_ready(wgo), lineOut)
  /\ ReadPort(rgo, rgo) /\ WritePort(wgo, wgo)
  /\ Bookkeeping(enq, softRst, wgo)

\* One register write per cycle at most: nothing, a push, a start or a reset.
Run(rgo, wgo) == Tick(<<>>, FALSE, FALSE, rgo, wgo)
DescPush(rgo, wgo) == \E enq \in Pushes \ {<<>>} : Tick(enq, FALSE, FALSE, rgo, wgo)
StartQueue(rgo, wgo) == ~qBusy /\ Len(pushed) > stored /\ Tick(<<>>, TRUE, FALSE, rgo, wgo)
SoftRst(rgo, wgo) == ResetAllowed /\ Tick(<<>>, FALSE, TRUE, rgo, wgo)

\* A port that has nothing to do makes no choice.
Next ==
  \E rgo \in (IF rpLeft > 0 \/ ldDrive THEN BOOLEAN ELSE {FALSE}) :
  \E wgo \in (IF wpLeft > 0 \/ dmaDrive THEN BOOLEAN ELSE {FALSE}) :
    /\ Run(rgo, wgo) \/ DescPush(rgo, wgo) \/ StartQueue(rgo, wgo) \/ SoftRst(rgo, wgo)
    /\ UNCHANGED plan

Spec == Init /\ [][Next]_vars

\* The clock runs, and a port that has work to do does some in the end.
PortsMove ==
  /\ WF_vars(\E rgo, wgo \in BOOLEAN : Run(rgo, wgo) /\ UNCHANGED plan)
  /\ []<>(rpLeft = 0 /\ ~ldDrive) \/ []<><<rpLeft' # rpLeft>>_vars
  /\ []<>(wpLeft = 0 /\ ~dmaDrive) \/ []<><<wpLeft' # wpLeft>>_vars

FairSpec == Spec /\ PortsMove

----------------------------------------------------------------------------

\* Types, and the queue never holds more than it can.
TypeOK ==
  /\ Len(descQ) <= descDepth /\ t \in 0 .. maxK + (2 * dim)
  /\ ldLane \in Lanes /\ ldChunk \in Rows /\ lane \in Lanes
  /\ rpLeft \in 0 .. dim * linesPerLane /\ wpLeft \in 0 .. NGroups
  /\ {qRun, qBusy, qDone, qOverflow, preBusy, preDone, prePend, ldBusy, ldDone,
      ldReq, ldInB, busy, done} \subseteq BOOLEAN
  /\ Len(lineFifo) + Len(fillReg) <= FifoLines

\* Every tile whose store completed is in memory, whole, and is the product of
\* the operands its descriptor asked for, although loads, runs and stores of
\* different tiles overlap.
ResultsRight ==
  \A i \in 1 .. stored : \A g \in 0 .. NGroups - 1 :
    mem[pushed[i].dest + g] = <<Batch!Product(pushed, i), g>>

\* The overlapped engine implements the one that takes a tile at a time: tiles
\* finish in the order of the pushes, and DONE is reported with nothing queued,
\* loading, computing or storing.
InOrderBatch == Batch!BSpec

\* A batch that was started ends, unless it is reset.
BatchEndsInTheEnd == qBusy ~> ~qBusy
=============================================================================
