----------------------------- MODULE ResultDma ------------------------------
(***************************************************************************)
(* The accelerator's result store engine (MmAccel): one clock edge per     *)
(* step.                                                                   *)
(*                                                                         *)
(* A fill pipeline reads result lines out of the accumulators, one group   *)
(* per cycle, into lineFifo.  The store requests bursts from the write     *)
(* port: the whole tile when the destination rows are contiguous, one row  *)
(* per burst when they are strided.  wnext asks for the next line inside a *)
(* burst and wr_ready ends a burst.                                        *)
(*                                                                         *)
(* tile numbers the stores, so that lines of successive tiles can be told  *)
(* apart.                                                                  *)
(***************************************************************************)
EXTENDS Integers, Sequences

CONSTANTS
  NGroups,    \* result lines per tile
  PerRow,     \* lines per result row
  FifoLines,  \* capacity of lineFifo
  DestStride  \* lines from one row to the next in a strided destination

ASSUME DmaAssumption ==
  /\ PerRow \in Nat \ {0} /\ NGroups \in Nat \ {0} /\ NGroups % PerRow = 0
  /\ FifoLines \in Nat /\ FifoLines >= 2 /\ FifoLines >= NGroups
  /\ DestStride \in Nat /\ DestStride >= PerRow

VARIABLES
  dmaBusy, dmaDone,     \* a store is running; the last one finished
  destAddr, destContig, \* its destination registers, as it started
  dmaAddr, dmaRowBase,  \* address of the next burst, and of its row
  dmaSent,              \* lines accepted by memory so far
  fillGrp, fillLeft,    \* next group to read, and groups left to read
  fillReg,              \* the group read last cycle (empty sequence: none)
  lineFifo,             \* lines waiting for the write port
  tile                  \* which tile the accumulators hold

dmaVars == <<dmaBusy, dmaDone, destAddr, destContig, dmaAddr, dmaRowBase,
             dmaSent, fillGrp, fillLeft, fillReg, lineFifo, tile>>

DmaInit ==
  /\ dmaBusy = FALSE /\ dmaDone = FALSE
  /\ destAddr = 0 /\ destContig = TRUE
  /\ dmaAddr = 0 /\ dmaRowBase = 0 /\ dmaSent = 0
  /\ fillGrp = 0 /\ fillLeft = 0 /\ fillReg = <<>> /\ lineFifo = <<>>
  /\ tile = 0

\* A slot is reserved for the line launched last cycle, hence the - 1.
fillFire == dmaBusy /\ fillLeft # 0 /\ Len(lineFifo) < FifoLines - 1

\* The request wires.
dmaDrive_without_line == dmaBusy
dmaDrive == dmaBusy /\ lineFifo # <<>>
wBurstLines == IF destContig THEN NGroups ELSE PerRow

\* The head is consumed inside a burst, at the end of one, and while idle.
fifoPop_midburst_only(wnext, wr_ready) == wnext \/ ~dmaBusy
fifoPop(wnext, wr_ready) == wnext \/ (dmaBusy /\ wr_ready) \/ ~dmaBusy

\* lineOut is the group the fill pointer selects in the accumulators.
LineFifo(wnext, wr_ready, lineOut) ==
  /\ lineFifo' = (IF fifoPop(wnext, wr_ready) /\ lineFifo # <<>>
                    THEN Tail(lineFifo) ELSE lineFifo) \o fillReg
  /\ fillReg' = IF fillFire THEN <<lineOut>> ELSE <<>>

Fill ==
  IF fillFire
    THEN fillGrp' = (fillGrp + 1) % NGroups /\ fillLeft' = fillLeft - 1
    ELSE UNCHANGED <<fillGrp, fillLeft>>

\* A store starts (CTRL bit 2, or the sequencer in qStore).
DmaStart(dest, contig) ==
  /\ dmaBusy' = TRUE /\ dmaDone' = FALSE
  /\ destAddr' = dest /\ destContig' = contig
  /\ dmaAddr' = dest /\ dmaRowBase' = dest /\ dmaSent' = 0
  /\ fillGrp' = 0 /\ fillLeft' = NGroups
  /\ tile' = 1 - tile

\* Memory accepted a burst: the last one ends the store, another moves the
\* address to the next burst.
DmaBurstDone ==
  /\ IF dmaSent + wBurstLines >= NGroups
       THEN /\ dmaBusy' = FALSE /\ dmaDone' = TRUE
            /\ UNCHANGED <<dmaSent, dmaAddr, dmaRowBase>>
       ELSE /\ dmaSent' = dmaSent + wBurstLines
            /\ dmaAddr' = dmaRowBase + DestStride
            /\ dmaRowBase' = dmaRowBase + DestStride
            /\ UNCHANGED <<dmaBusy, dmaDone>>
  /\ UNCHANGED <<destAddr, destContig, tile>>

\* SOFT_RST.  It wins over what the engine decided this cycle; dmaAddr and
\* dmaRowBase are reloaded by the next start before anything reads them.
DmaSoftReset ==
  /\ dmaBusy' = FALSE /\ dmaDone' = FALSE /\ dmaSent' = 0
  /\ fillGrp' = 0 /\ fillLeft' = 0
  /\ UNCHANGED <<destAddr, destContig, dmaAddr, dmaRowBase, tile>>

DmaTick(start, dest, contig, softRst, wnext, wr_ready, lineOut) ==
  /\ LineFifo(wnext, wr_ready, lineOut)
  /\ \/ softRst /\ DmaSoftReset
     \/ ~softRst /\ start /\ DmaStart(dest, contig)
     \/ ~softRst /\ ~start /\ dmaBusy /\ wr_ready /\ DmaBurstDone /\ Fill
     \/ /\ ~softRst /\ ~start /\ ~(dmaBusy /\ wr_ready) /\ Fill
        /\ UNCHANGED <<dmaBusy, dmaDone, destAddr, destContig, dmaAddr,
                       dmaRowBase, dmaSent, tile>>

\* Where group g of a tile belongs.
ResultAddr(dest, contig, g) ==
  dest + (IF contig THEN g ELSE ((g \div PerRow) * DestStride) + (g % PerRow))
=============================================================================
