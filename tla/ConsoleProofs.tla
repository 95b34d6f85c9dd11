---------------------------- MODULE ConsoleProofs ----------------------------
(***************************************************************************)
(* What the console promises, for every number of bytes sent, polled and   *)
(* received: no enabled event is forgotten, whether the thread locks or    *)
(* not, and with a thread that locks every byte is sent once and in order  *)
(* and received in order.                                                  *)
(*                                                                         *)
(* The first needs an inductive invariant about a write of TX_DATA that    *)
(* comes just after the transmitter became ready (a thread that was        *)
(* interrupted between reading the status and writing the byte): the edge  *)
(* is then pending, and the thread cannot reach the driver's clearing of   *)
(* PENDING before the handler has looked at it.                            *)
(***************************************************************************)
EXTENDS Console, SequenceTheorems, TLAPS

CallbackLabels ==
  {"rx_status", "rx_data", "tx_status", "fill_status", "fill_write", "dis_read", "dis_write"}
BootLabels == {"init_enable", "init_pending", "poll_status", "poll_write"}
EnableLabels == {"en_read", "en_clear", "en_write"}
ThreadLabels == CallbackLabels \cup BootLabels \cup EnableLabels \cup {"prime", "idle"}
IsrLabels ==
  CallbackLabels \cup {"off", "isr_pending", "isr_enable", "isr_clear", "isr_next"}

Types ==
  /\ enable \subseteq Sources /\ pending \subseteq Sources /\ irq_in_prev \subseteq Sources
  /\ active \subseteq Sources /\ owed \subseteq Sources /\ src \in Sources
  /\ tx_start \in BOOLEAN /\ tx_ready \in BOOLEAN /\ tx_ready_prev \in BOOLEAN
  /\ tx_irq \in BOOLEAN /\ tx_state \in {"IDLE", "SEND"}
  /\ locked \in BOOLEAN /\ ex_irq \in BOOLEAN /\ bus \in {"free", "pending", "done"}
  /\ pc \in [Contexts -> ThreadLabels \cup IsrLabels]
  /\ pc["thread"] \in ThreadLabels /\ pc["isr"] \in IsrLabels
  /\ reg \in [Contexts -> SUBSET Sources]

\* Until RX is enabled for the first time nothing is enabled, owed or handled.
Booting == pc["thread"] \in BootLabels \/ (pc["thread"] \in EnableLabels /\ src = "RX")
BootInv ==
  /\ Booting => enable = {} /\ owed = {} /\ pc["isr"] = "off" /\ reg["thread"] = {}
  /\ pc["thread"] = "prime" => src = "TX"

\* A start pulse lasts one cycle, in which no access is possible, and the
\* transmitter is ready only when idle.
TxTiming ==
  /\ tx_start => bus = "pending"
  /\ tx_state = "SEND" => ~tx_ready

\* The context has seen a transmitter that is ready, and still is.
Sure ==
  /\ tx_ready /\ ~tx_start /\ tx_ready_prev
  /\ bus # "pending" => ~tx_irq
SureInv ==
  /\ pc["isr"] = "fill_write" => Sure
  /\ pc["thread"] \in {"fill_write", "poll_write"} /\ locked => Sure

\* With locking the handler runs only while the thread is idle.
LockInv == locked /\ pc["isr"] # "off" => pc["thread"] = "idle"

\* active belongs to the handler.
ActiveInv ==
  /\ pc["isr"] \in {"off", "isr_pending"} => active = {}
  /\ pc["isr"] = "isr_enable" => active \subseteq pending

\* A write of TX_DATA by a thread that was interrupted since it read the status can
\* come just after the transmitter became ready.
Rising == tx_ready /\ ~tx_ready_prev
Unguarded == ~locked /\ pc["isr"] = "off" /\ pc["thread"] = "idle"
LateWrite ==
  "TX" \in enable =>
    /\ tx_start /\ (Rising \/ tx_irq) => Unguarded
    /\ ~tx_ready /\ tx_irq => Unguarded /\ bus = "done"

\* The event is then pending and the thread cannot go on before the handler has
\* looked at it.
Caught ==
  \/ /\ pc["isr"] = "off" /\ "TX" \in pending
     /\ pc["thread"] = "idle" \/ (pc["thread"] = "en_read" /\ ex_irq)
  \/ pc["isr"] = "isr_pending" /\ "TX" \in pending
  \/ pc["isr"] \in {"isr_enable", "isr_clear", "isr_next"} /\ "TX" \in active
OwedInv ==
  "TX" \in owed /\ (tx_start \/ ~tx_ready) => ~locked /\ "TX" \in enable /\ Caught

\* What NoForgottenEvent says, with the reason why the thread will look.
KeptInv ==
  \A s \in owed :
    \/ s \in pending \cup active
    \/ s = "TX" /\ pc["thread"] \in {"en_write", "prime"} /\ src = "TX" /\ tx_ready /\ ~tx_start

EventInv == /\ Types /\ BootInv /\ TxTiming /\ SureInv /\ LockInv /\ ActiveInv
            /\ LateWrite /\ OwedInv /\ KeptInv

\* Transmission
SendTypes ==
  /\ byte \in [Contexts -> Nat] /\ enq \in Nat /\ queue \in Seq(Nat) /\ sent \in Seq(Nat)
  /\ tx_data \in Nat
FillInv ==
  \A c \in Contexts :
    pc[c] \in {"fill_status", "fill_write"} => queue # <<>> /\ byte[c] = Head(queue)
StartInv == tx_start => tx_state = "IDLE"
SendInv ==
  /\ SendTypes
  /\ Booting => queue = <<>>
  /\ locked => FillInv /\ StartInv /\ InOrderOnLine

\* Reception: the byte in the holding register is older than the one that has just
\* arrived, and younger than all that were read or overwritten.
Vals(s) == {s[k] : k \in DOMAIN s}
RecvTypes ==
  arrived \in Nat /\ got \in Seq(Nat) /\ rx_valid \in BOOLEAN /\ rx_has_data \in BOOLEAN
HoldInv ==
  /\ rx_has_data => rx_holding \in 1 .. arrived
  /\ rx_valid => rx_data = arrived /\ arrived # 0
  /\ rx_has_data /\ rx_valid => rx_holding < rx_data
  /\ \A v \in Vals(got) \cup overrun :
       v \in 1 .. arrived /\ (rx_has_data => v < rx_holding) /\ (rx_valid => v < rx_data)
ReadInv == \A c \in Contexts : pc[c] = "rx_data" => rx_has_data
RecvInv == locked => RecvTypes /\ HoldInv /\ ReadInv /\ ReceivedInOrder

\* What one cycle does to the UART, the interrupt controller and the handshake.
LEMMA Effects ==
  ASSUME Types, NEW acc, NEW cb \in BOOLEAN, acc.we \in BOOLEAN, Cycle(acc, cb)
  PROVE  /\ tx_ready_prev' = tx_ready
         /\ tx_irq' <=> Rising
         /\ tx_start' <=> Writes(acc, "TX_DATA")
         /\ tx_data' = IF Writes(acc, "TX_DATA") THEN acc.wdata ELSE tx_data
         /\ tx_state = "IDLE" => /\ tx_ready' <=> ~tx_start
                                 /\ tx_state' = IF tx_start THEN "SEND" ELSE "IDLE"
         /\ tx_state = "SEND" => tx_ready' = tx_ready
         /\ tx_state' \in {"IDLE", "SEND"}
         /\ tx_irq' \in BOOLEAN /\ tx_start' \in BOOLEAN /\ tx_ready' \in BOOLEAN
         /\ tx_ready_prev' \in BOOLEAN
         /\ irq_in_prev' = irq_in /\ pending' = NextPending(acc, irq_in)
         /\ enable' = IF Writes(acc, "ENABLE") THEN acc.wdata ELSE enable
         /\ bus' = CASE acc # NoAcc -> "pending"
                     [] acc = NoAcc /\ bus = "pending" -> "done"
                     [] OTHER -> "free"
         /\ ex_irq' = (irq_out /\ mstatus_mie) /\ locked' = locked
         /\ sent' = IF tx_state = "IDLE" /\ tx_start THEN Append(sent, tx_data) ELSE sent
         /\ owed' = Unsettled(acc, cb) \cup (irq_edge(irq_in) \cap enable)
  <1>1. PICK frameEnd \in BOOLEAN, arrives \in Arrivals :
          /\ IntcTick(acc, irq_in)
          /\ UartTick(acc, frameEnd, arrives)
          /\ BusTick(acc)
          /\ ex_irq' = (irq_out /\ mstatus_mie) /\ UNCHANGED locked
          /\ Histories(acc, arrives, cb)
    BY Zenon DEF Cycle
  <1>2. TxIdle \/ TxSend(frameEnd)
    BY <1>1, Zenon DEF UartTick
  <1>3. /\ tx_ready_prev' = tx_ready /\ tx_irq' = (tx_ready /\ ~tx_ready_prev)
        /\ tx_start' = (acc.we /\ acc.reg = "TX_DATA")
        /\ tx_data' = IF Writes(acc, "TX_DATA") THEN acc.wdata ELSE tx_data
    BY <1>1, Zenon DEF UartTick, TxIrq, TxBus, Writes
  <1>4. tx_irq' \in BOOLEAN /\ tx_start' \in BOOLEAN /\ tx_ready_prev' \in BOOLEAN
    BY <1>3, Zenon DEF Types
  <1>5. tx_irq' <=> Rising
    BY <1>3, Zenon DEF Rising, Types
  <1>6. tx_start' <=> Writes(acc, "TX_DATA")
    BY <1>3, Zenon DEF Writes
  <1>7. tx_state = "IDLE" => /\ tx_ready' = ~tx_start
                             /\ tx_state' = IF tx_start THEN "SEND" ELSE "IDLE"
    BY <1>2, Zenon DEF TxIdle, TxSend
  <1>8. tx_state = "SEND" => tx_ready' = tx_ready /\ tx_state' = IF frameEnd THEN "IDLE" ELSE "SEND"
    BY <1>2, Zenon DEF TxIdle, TxSend
  <1>9. tx_state = "IDLE" \/ tx_state = "SEND"
    BY Zenon DEF Types
  <1>10. tx_ready' \in BOOLEAN /\ tx_state' \in {"IDLE", "SEND"}
    BY <1>7, <1>8, <1>9, Zenon DEF Types
  <1>11. tx_state = "IDLE" => (tx_ready' <=> ~tx_start)
    BY <1>7, Zenon
  <1> QED BY <1>1, <1>3, <1>4, <1>5, <1>6, <1>7, <1>8, <1>10, <1>11, Zenon
          DEF IntcTick, BusTick, Histories

\* Where the contexts are after a step of the thread, and of the handler.
LEMMA ThreadMoves ==
  ASSUME Types, NEW l, NEW m \in ThreadLabels, Runs("thread", l), Goto("thread", m)
  PROVE  /\ pc["thread"] = l /\ pc["isr"] = "off" /\ ~ex_irq
         /\ pc'["thread"] = m /\ pc'["isr"] = "off"
         /\ pc' \in [Contexts -> ThreadLabels \cup IsrLabels]
  <1>1. "thread" \in Contexts /\ "isr" \in Contexts /\ "thread" # "isr"
    BY Zenon DEF Contexts
  <1> QED BY <1>1, Zenon DEF Runs, Goto, Types

\* How an access of the handler moves it.
LEMMA IsrMoves ==
  ASSUME Types, NEW l, NEW m \in IsrLabels, Runs("isr", l), Goto("isr", m)
  PROVE  /\ pc["isr"] = l
         /\ pc'["isr"] = m /\ pc'["thread"] = pc["thread"]
         /\ pc' \in [Contexts -> ThreadLabels \cup IsrLabels]
  <1>1. "thread" \in Contexts /\ "isr" \in Contexts /\ "thread" # "isr"
    BY Zenon DEF Contexts
  <1> QED BY <1>1, Zenon DEF Runs, Goto, Types

\* What sets bus, and which sources have an edge.
LEMMA Wires ==
  ASSUME Types
  PROVE  /\ irq_in \subseteq Sources
         /\ "TX" \in irq_edge(irq_in) => tx_irq
         /\ "TX" \in Sources /\ "RX" \in Sources
  BY ConsoleAssumption, Zenon DEF irq_in, irq_edge, Types

\* A cycle in which a new access is possible: no start pulse is on its way, and a
\* transmitter that is ready stays so.
LEMMA FreeBus ==
  ASSUME EventInv, NEW acc, NEW cb \in BOOLEAN, acc.we \in BOOLEAN, Cycle(acc, cb), bus = "free"
  PROVE  /\ ~tx_start /\ (tx_ready => tx_state = "IDLE" /\ tx_ready')
         /\ tx_irq' => tx_ready'
         /\ "TX" \in enable /\ tx_irq => tx_ready
         /\ "TX" \in irq_edge(irq_in) \cap enable => tx_ready /\ tx_ready'
  <1>1. ~tx_start
    BY Zenon DEF EventInv, TxTiming, Types
  <1>2. tx_ready => tx_state = "IDLE"
    BY Zenon DEF EventInv, TxTiming, Types
  <1>3. tx_ready => tx_ready'
    BY <1>1, <1>2, Effects, Zenon DEF EventInv
  <1>4. tx_irq' => tx_ready'
    BY <1>3, Effects, Zenon DEF EventInv, Rising
  <1>5. "TX" \in enable /\ tx_irq => tx_ready
    BY Zenon DEF EventInv, LateWrite
  <1>6. "TX" \in irq_edge(irq_in) => tx_irq
    BY Wires, Zenon DEF EventInv
  <1> QED BY <1>1, <1>2, <1>3, <1>4, <1>5, <1>6, Zenon

\* The accesses software makes.
LEMMA Accesses ==
  /\ NoAcc.we = FALSE /\ \A r : ~Writes(NoAcc, r)
  /\ \A a : Read(a).we = FALSE /\ (\A r : ~Writes(Read(a), r)) /\ (a # "none" => Read(a) # NoAcc)
  /\ \A a, d : /\ Write(a, d).we = TRUE /\ Write(a, d).wdata = d /\ Write(a, d) # NoAcc
               /\ \A r : Writes(Write(a, d), r) <=> a = r
  BY DEF NoAcc, Read, Write, Writes

\* The handshake: after an access comes an acknowledgement, then it is latched.
LEMMA BusMoves ==
  ASSUME Types, NEW acc, NEW cb \in BOOLEAN, acc.we \in BOOLEAN, Cycle(acc, cb)
  PROVE  /\ acc # NoAcc => bus' = "pending"
         /\ acc = NoAcc /\ bus = "pending" => bus' = "done"
         /\ acc = NoAcc /\ bus # "pending" => bus' = "free"
         /\ bus' \in {"free", "pending", "done"}
  <1> DEFINE b == CASE acc # NoAcc -> "pending"
                    [] acc = NoAcc /\ bus = "pending" -> "done"
                    [] OTHER -> "free"
  <1>1. bus' = b
    BY Effects, Zenon
  <1>2. /\ acc # NoAcc => b = "pending"
        /\ acc = NoAcc /\ bus = "pending" => b = "done"
        /\ acc = NoAcc /\ bus # "pending" => b = "free"
    BY Zenon
  <1> HIDE DEF b
  <1> QED BY <1>1, <1>2, Zenon

\* Everything the hardware holds keeps its type.
LEMMA HwTypes ==
  ASSUME Types, NEW acc, NEW cb \in BOOLEAN, acc.we \in BOOLEAN, Cycle(acc, cb),
         Writes(acc, "ENABLE") => acc.wdata \subseteq Sources
  PROVE  /\ enable' \subseteq Sources /\ pending' \subseteq Sources /\ irq_in_prev' \subseteq Sources
         /\ owed' \subseteq Sources
         /\ tx_start' \in BOOLEAN /\ tx_ready' \in BOOLEAN /\ tx_ready_prev' \in BOOLEAN
         /\ tx_irq' \in BOOLEAN /\ tx_state' \in {"IDLE", "SEND"}
         /\ locked' \in BOOLEAN /\ ex_irq' \in BOOLEAN /\ bus' \in {"free", "pending", "done"}
  <1>1. enable' \subseteq Sources
    BY Effects, ZenonT(30) DEF Types
  <1>2. irq_edge(irq_in) \subseteq Sources
    BY Wires, Zenon DEF irq_edge
  <1>3. pending' \subseteq Sources
    BY <1>2, Effects, Zenon DEF Types, NextPending
  <1>4. owed' \subseteq Sources
    BY <1>2, Effects, ZenonT(30) DEF Types, Unsettled
  <1>5. irq_in_prev' \subseteq Sources
    BY Wires, Effects, Zenon
  <1>6. locked' \in BOOLEAN /\ ex_irq' \in BOOLEAN
    BY Effects, Zenon DEF Types, irq_out, mstatus_mie
  <1> QED BY <1>1, <1>3, <1>4, <1>5, <1>6, Effects, BusMoves, Zenon

\* A start pulse keeps the bus busy, and a transmitter that sends is not ready.
LEMMA Timing ==
  ASSUME Types, TxTiming, NEW acc, NEW cb \in BOOLEAN, acc.we \in BOOLEAN, Cycle(acc, cb),
         Writes(acc, "TX_DATA") => acc # NoAcc
  PROVE  TxTiming'
  <1>1. tx_start' => bus' = "pending"
    BY Effects, BusMoves, Zenon
  <1>2. tx_state' = "SEND" => ~tx_ready'
    <2>1. CASE tx_state = "IDLE"
      BY <2>1, Effects, Zenon
    <2>2. CASE tx_state = "SEND"
      BY <2>2, Effects, Zenon DEF TxTiming
    <2> QED BY <2>1, <2>2, Zenon DEF Types
  <1> QED BY <1>1, <1>2, Zenon DEF TxTiming

\* What a context has seen of the transmitter stays true until somebody writes.
LEMMA SureStays ==
  ASSUME Types, TxTiming, NEW acc, NEW cb \in BOOLEAN, acc.we \in BOOLEAN, Cycle(acc, cb),
         ~Writes(acc, "TX_DATA")
  PROVE  /\ Sure => Sure'
         /\ bus = "free" /\ acc # NoAcc /\ tx_ready => Sure'
  <1>1. tx_ready => tx_state = "IDLE"
    BY Zenon DEF TxTiming, Types
  <1>2. ASSUME tx_ready, ~tx_start
        PROVE  tx_ready' /\ ~tx_start' /\ tx_ready_prev'
    BY <1>1, <1>2, Effects, Zenon
  <1>3. tx_ready_prev => ~tx_irq'
    BY Effects, Zenon DEF Rising
  <1>4. bus = "free" => ~tx_start
    BY Zenon DEF TxTiming
  <1>5. acc # NoAcc => bus' = "pending"
    BY BusMoves, Zenon
  <1> QED BY <1>2, <1>3, <1>4, <1>5, Zenon DEF Sure

\* An access that writes no byte leaves no late write behind, and what it leaves
\* owed to a busy transmitter was owed and caught before.
LEMMA OwedFree ==
  ASSUME EventInv, NEW acc, NEW cb \in BOOLEAN, acc.we \in BOOLEAN, Cycle(acc, cb), bus = "free",
         ~Writes(acc, "TX_DATA")
  PROVE  /\ ~tx_start' /\ LateWrite'
         /\ "TX" \in owed' /\ ~tx_ready' =>
              "TX" \in owed /\ ~tx_ready /\ ~cb /\ ~locked /\ "TX" \in enable /\ Caught
         /\ \A s \in owed' : (s \in owed /\ ~cb) \/ s \in irq_edge(irq_in) \cap enable
  <1>1. ~tx_start' /\ (tx_irq' => tx_ready')
    BY FreeBus, Effects, Zenon DEF EventInv
  <1>2. LateWrite'
    BY <1>1, Zenon DEF LateWrite
  <1>3. \A s \in owed' : (s \in owed /\ ~cb) \/ s \in irq_edge(irq_in) \cap enable
    BY Effects, Zenon DEF EventInv, Unsettled
  <1>4. "TX" \in owed' /\ ~tx_ready' => "TX" \in owed /\ ~tx_ready /\ ~cb
    BY <1>3, FreeBus, Zenon
  <1> QED BY <1>1, <1>2, <1>3, <1>4, Zenon DEF EventInv, OwedInv

\* What is pending stays so unless PENDING is written, and an edge is latched.
LEMMA PendingGrows ==
  ASSUME Types, NEW acc, NEW cb \in BOOLEAN, acc.we \in BOOLEAN, Cycle(acc, cb),
         ~Writes(acc, "PENDING")
  PROVE  pending \cup irq_edge(irq_in) \subseteq pending'
  BY Effects, Zenon DEF NextPending

\* An access of the thread that writes neither TX_DATA nor PENDING.
LEMMA ThreadStep ==
  ASSUME EventInv, NEW l, NEW m \in ThreadLabels, NEW acc, NEW cb \in BOOLEAN, acc.we \in BOOLEAN,
         Runs("thread", l), Goto("thread", m), bus = "free", Cycle(acc, cb), acc # NoAcc,
         l # "idle", ~Writes(acc, "TX_DATA"), ~Writes(acc, "PENDING"),
         Writes(acc, "ENABLE") => acc.wdata \subseteq Sources,
         active' = active, src' = src, reg' \in [Contexts -> SUBSET Sources], BootInv',
         m \in {"fill_write", "poll_write"} => tx_ready,
         l \in {"en_write", "prime"} /\ src = "TX" /\ tx_ready /\ ~cb => m \in {"en_write", "prime"}
  PROVE  EventInv'
  <1>1. /\ pc["thread"] = l /\ pc["isr"] = "off" /\ ~ex_irq
        /\ pc'["thread"] = m /\ pc'["isr"] = "off"
        /\ pc' \in [Contexts -> ThreadLabels \cup IsrLabels]
    BY ThreadMoves, Zenon DEF EventInv
  <1>2. Types'
    <2>1. "off" \in IsrLabels
      BY Zenon DEF IsrLabels
    <2> QED BY <1>1, <2>1, HwTypes, ZenonT(30) DEF EventInv, Types
  <1>3. TxTiming'
    BY Timing, Zenon DEF EventInv
  <1>4. locked' = locked
    BY Effects, Zenon DEF EventInv
  <1>5. SureInv'
    BY <1>1, SureStays, Zenon DEF EventInv, SureInv
  <1>6. LockInv'
    BY <1>1, Zenon DEF LockInv
  <1>7. ActiveInv'
    BY <1>1, Zenon DEF EventInv, ActiveInv
  <1>8. ~tx_start' /\ LateWrite'
    BY OwedFree, Zenon
  <1>9. ~Caught
    BY <1>1, Zenon DEF Caught
  <1>10. OwedInv'
    BY <1>8, <1>9, OwedFree, Zenon DEF OwedInv
  <1>11. KeptInv'
    <2> SUFFICES ASSUME NEW s \in owed'
                 PROVE  \/ s \in pending' \cup active'
                        \/ /\ s = "TX" /\ pc'["thread"] \in {"en_write", "prime"} /\ src' = "TX"
                           /\ tx_ready' /\ ~tx_start'
      BY Zenon DEF KeptInv
    <2>1. (s \in owed /\ ~cb) \/ s \in irq_edge(irq_in) \cap enable
      BY OwedFree, Zenon
    <2>2. pending \cup irq_edge(irq_in) \subseteq pending'
      BY PendingGrows, Zenon DEF EventInv
    <2>3. tx_ready => tx_ready'
      BY FreeBus, Zenon
    <2>4. CASE s \in irq_edge(irq_in) \cap enable
      BY <2>2, <2>4, Zenon
    <2>5. CASE s \in owed /\ ~cb
      BY <1>1, <1>8, <2>2, <2>3, <2>5, Zenon DEF EventInv, KeptInv
    <2> QED BY <2>1, <2>4, <2>5, Zenon
  <1> QED BY <1>2, <1>3, <1>5, <1>6, <1>7, <1>8, <1>10, <1>11, Zenon DEF EventInv

\* A step of the handler that writes neither TX_DATA nor PENDING.
LEMMA IsrStep ==
  ASSUME EventInv, NEW l, NEW m \in IsrLabels, NEW acc, NEW cb \in BOOLEAN, acc.we \in BOOLEAN,
         Runs("isr", l), Goto("isr", m), bus = "free", Cycle(acc, cb), l # "off",
         ~Writes(acc, "TX_DATA"), irq_edge(irq_in) \subseteq pending' \cup active',
         Writes(acc, "ENABLE") => acc.wdata \subseteq Sources,
         active' \subseteq Sources, src' = src, reg' \in [Contexts -> SUBSET Sources],
         ActiveInv', m = "fill_write" => tx_ready /\ acc # NoAcc,
         cb \/ pending \cup active \subseteq pending' \cup active',
         Caught /\ "TX" \in enable /\ ~cb => Caught' /\ "TX" \in enable'
  PROVE  EventInv'
  <1>1. /\ pc["isr"] = l /\ pc'["isr"] = m /\ pc'["thread"] = pc["thread"]
        /\ pc' \in [Contexts -> ThreadLabels \cup IsrLabels]
    BY IsrMoves, Zenon DEF EventInv
  <1>2. Types'
    BY <1>1, HwTypes, Zenon DEF EventInv, Types
  <1>3. TxTiming'
    BY Timing, Zenon DEF EventInv
  <1>4. locked' = locked
    BY Effects, Zenon DEF EventInv
  <1>5. BootInv'
    BY <1>1, Zenon DEF EventInv, BootInv, Booting
  <1>6. LockInv'
    BY <1>1, <1>4, Zenon DEF EventInv, LockInv
  <1>7. SureInv'
    <2>1. pc'["isr"] = "fill_write" => Sure'
      BY <1>1, SureStays, Zenon DEF EventInv
    <2>2. locked => pc["thread"] = "idle"
      BY <1>1, Zenon DEF EventInv, LockInv
    <2> QED BY <1>1, <1>4, <2>1, <2>2, Zenon DEF SureInv
  <1>8. ~tx_start' /\ LateWrite'
    BY OwedFree, Zenon
  <1>9. OwedInv'
    BY <1>4, <1>8, OwedFree, Zenon DEF OwedInv
  <1>10. KeptInv'
    <2> SUFFICES ASSUME NEW s \in owed'
                 PROVE  \/ s \in pending' \cup active'
                        \/ /\ s = "TX" /\ pc'["thread"] \in {"en_write", "prime"} /\ src' = "TX"
                           /\ tx_ready' /\ ~tx_start'
      BY Zenon DEF KeptInv
    <2>1. (s \in owed /\ ~cb) \/ s \in irq_edge(irq_in) \cap enable
      BY OwedFree, Zenon
    <2>3. tx_ready => tx_ready'
      BY FreeBus, Zenon
    <2>4. CASE s \in irq_edge(irq_in) \cap enable
      BY <2>4, Zenon
    <2>5. CASE s \in owed /\ ~cb
      BY <1>1, <1>8, <2>3, <2>5, Zenon DEF EventInv, KeptInv
    <2> QED BY <2>1, <2>4, <2>5, Zenon
  <1> QED BY <1>2, <1>3, <1>5, <1>6, <1>7, <1>8, <1>9, <1>10, Zenon DEF EventInv

\* The labels of the two contexts.
LEMMA Labels ==
  /\ CallbackLabels \subseteq ThreadLabels /\ CallbackLabels \subseteq IsrLabels
  /\ BootLabels \cup EnableLabels \cup {"prime", "idle"} \subseteq ThreadLabels
  /\ {"off", "isr_pending", "isr_enable", "isr_clear", "isr_next"} \subseteq IsrLabels
  /\ AfterCallback("thread") = "idle" /\ AfterCallback("isr") = "isr_next"
  /\ Contexts = {"thread", "isr"}
  BY Zenon DEF ThreadLabels, IsrLabels, AfterCallback, Contexts

\* A thread that does not boot any more does not boot again (intc_initialize runs
\* once).
LEMMA NotBooting ==
  ASSUME EventInv, ~Booting, src' = src, pc'["thread"] \notin BootLabels,
         pc'["thread"] \in EnableLabels => pc["thread"] \in EnableLabels,
         pc'["thread"] = "prime" => src = "TX"
  PROVE  BootInv'
  BY Zenon DEF BootInv, Booting

\* A step of the callback, in either context, that does not write a byte.
LEMMA CallbackStep ==
  ASSUME EventInv, NEW c \in Contexts, NEW l \in CallbackLabels,
         NEW m \in CallbackLabels \cup {AfterCallback(c)}, NEW acc, acc.we \in BOOLEAN,
         Runs(c, l), Goto(c, m), Access(acc), acc # NoAcc,
         ~Writes(acc, "TX_DATA"), ~Writes(acc, "PENDING"),
         Writes(acc, "ENABLE") => acc.wdata \subseteq Sources,
         active' = active, src' = src, reg' \in [Contexts -> SUBSET Sources],
         m = "fill_write" => tx_ready
  PROVE  EventInv'
  <1>1. bus = "free" /\ Cycle(acc, FALSE) /\ FALSE \in BOOLEAN
    BY Zenon DEF Access
  <1>2. CASE c = "thread"
    <2>1. m \in ThreadLabels /\ m \notin BootLabels \cup EnableLabels \cup {"prime"}
      BY <1>2, Labels, Zenon DEF CallbackLabels, BootLabels, EnableLabels
    <2>2. l # "idle" /\ l \notin BootLabels \cup EnableLabels \cup {"prime"}
      BY Zenon DEF CallbackLabels, BootLabels, EnableLabels
    <2>3. Runs("thread", l) /\ Goto("thread", m)
      BY <1>2, Zenon
    <2>4. pc["thread"] = l /\ pc'["thread"] = m
      BY <2>1, <2>3, ThreadMoves, Zenon DEF EventInv
    <2>5. BootInv'
      BY <2>1, <2>2, <2>4, NotBooting, Zenon DEF Booting
    <2>6. m # "poll_write" /\ l \notin {"en_write", "prime"}
      BY <2>1, <2>2, Zenon DEF BootLabels, EnableLabels
    <2> QED BY <1>1, <2>1, <2>2, <2>3, <2>5, <2>6, ThreadStep, Zenon
  <1>3. CASE c = "isr"
    <2>1. m \in IsrLabels /\ m \notin {"off", "isr_pending", "isr_enable"}
      BY <1>3, Labels, Zenon DEF CallbackLabels
    <2>2. l \notin {"off", "isr_pending", "isr_enable", "isr_clear", "isr_next"}
      BY Zenon DEF CallbackLabels
    <2>3. Runs("isr", l) /\ Goto("isr", m)
      BY <1>3, Zenon
    <2>4. pc["isr"] = l /\ pc'["isr"] = m
      BY <2>1, <2>3, IsrMoves, Zenon DEF EventInv
    <2>5. ActiveInv'
      BY <2>1, <2>4, Zenon DEF ActiveInv
    <2>6. ~Caught
      BY <2>2, <2>4, Zenon DEF Caught
    <2>7. /\ pending \cup active \subseteq pending' \cup active'
          /\ irq_edge(irq_in) \subseteq pending' \cup active'
      BY <1>1, PendingGrows, Zenon DEF EventInv
    <2>8. active' \subseteq Sources
      BY Zenon DEF EventInv, Types
    <2> QED BY <1>1, <2>1, <2>2, <2>3, <2>5, <2>6, <2>7, <2>8, IsrStep, ZenonT(30)
  <1> QED BY <1>2, <1>3, Labels, Zenon

\* The callback as a whole, but for the write of a byte.
LEMMA CallbackSteps ==
  ASSUME EventInv, NEW c \in Contexts,
         RxStatus(c) \/ RxData(c) \/ TxStatus(c) \/ FillStatus(c) \/ DisRead(c) \/ DisWrite(c)
  PROVE  EventInv'
  <1>0. reg \in [Contexts -> SUBSET Sources] /\ enable \subseteq Sources
    BY Zenon DEF EventInv, Types
  <1>1. ASSUME RxStatus(c) PROVE EventInv'
    <2> DEFINE acc == Read("RX_STATUS")
               m == IF rx_has_data THEN "rx_data" ELSE "tx_status"
    <2>1. /\ Runs(c, "rx_status") /\ Access(acc) /\ Goto(c, m)
          /\ active' = active /\ src' = src /\ reg' = reg
      BY <1>1, Zenon DEF RxStatus
    <2>2. acc.we \in BOOLEAN /\ ~Writes(acc, "TX_DATA") /\ ~Writes(acc, "PENDING")
          /\ ~Writes(acc, "ENABLE") /\ acc # NoAcc
      BY Accesses, ZenonT(30)
    <2>3. "rx_status" \in CallbackLabels /\ m \in CallbackLabels \cup {AfterCallback(c)}
          /\ m # "fill_write"
      BY Zenon DEF CallbackLabels
    <2> HIDE DEF acc, m
    <2> QED BY <1>0, <2>1, <2>2, <2>3, CallbackStep
  <1>2. ASSUME RxData(c) PROVE EventInv'
    <2> DEFINE acc == Read("RX_DATA")
    <2>1. /\ Runs(c, "rx_data") /\ Access(acc) /\ Goto(c, "rx_status")
          /\ active' = active /\ src' = src /\ reg' = reg
      BY <1>2, Zenon DEF RxData
    <2>2. acc.we \in BOOLEAN /\ ~Writes(acc, "TX_DATA") /\ ~Writes(acc, "PENDING")
          /\ ~Writes(acc, "ENABLE") /\ acc # NoAcc
      BY Accesses, ZenonT(30)
    <2>3. "rx_data" \in CallbackLabels /\ "rx_status" \in CallbackLabels \cup {AfterCallback(c)}
          /\ "rx_status" # "fill_write"
      BY Zenon DEF CallbackLabels
    <2> HIDE DEF acc
    <2> QED BY <1>0, <2>1, <2>2, <2>3, CallbackStep
  <1>3. ASSUME TxStatus(c) PROVE EventInv'
    <2> DEFINE acc == Read("TX_STATUS")
               m == CASE ~tx_ready -> AfterCallback(c)
                      [] tx_ready /\ queue = <<>> -> "dis_read"
                      [] OTHER -> "fill_status"
    <2>1. /\ Runs(c, "tx_status") /\ Access(acc) /\ Goto(c, m)
          /\ active' = active /\ src' = src /\ reg' = reg
      BY <1>3, Zenon DEF TxStatus
    <2>2. acc.we \in BOOLEAN /\ ~Writes(acc, "TX_DATA") /\ ~Writes(acc, "PENDING")
          /\ ~Writes(acc, "ENABLE") /\ acc # NoAcc
      BY Accesses, ZenonT(30)
    <2>3. m \in {AfterCallback(c), "dis_read", "fill_status"}
      BY Zenon
    <2>4. "tx_status" \in CallbackLabels /\ m \in CallbackLabels \cup {AfterCallback(c)}
      BY <2>3, Zenon DEF CallbackLabels
    <2>5. m # "fill_write"
      BY <2>3, Labels, Zenon
    <2> HIDE DEF acc, m
    <2> QED BY <1>0, <2>1, <2>2, <2>4, <2>5, CallbackStep
  <1>4. ASSUME FillStatus(c) PROVE EventInv'
    <2> DEFINE acc == Read("TX_STATUS")
               m == IF tx_ready THEN "fill_write" ELSE AfterCallback(c)
    <2>1. /\ Runs(c, "fill_status") /\ Access(acc) /\ Goto(c, m)
          /\ active' = active /\ src' = src /\ reg' = reg
      BY <1>4, Zenon DEF FillStatus
    <2>2. acc.we \in BOOLEAN /\ ~Writes(acc, "TX_DATA") /\ ~Writes(acc, "PENDING")
          /\ ~Writes(acc, "ENABLE") /\ acc # NoAcc
      BY Accesses, ZenonT(30)
    <2>3. "fill_status" \in CallbackLabels /\ m \in CallbackLabels \cup {AfterCallback(c)}
      BY Zenon DEF CallbackLabels
    <2>4. m = "fill_write" => tx_ready
      BY Labels, Zenon
    <2> HIDE DEF acc, m
    <2> QED BY <1>0, <2>1, <2>2, <2>3, <2>4, CallbackStep
  <1>5. ASSUME DisRead(c) PROVE EventInv'
    <2> DEFINE acc == Read("ENABLE")
    <2>1. /\ Runs(c, "dis_read") /\ Access(acc) /\ Goto(c, "dis_write")
          /\ active' = active /\ src' = src /\ reg' = [reg EXCEPT ![c] = enable]
      BY <1>5, Zenon DEF DisRead
    <2>2. acc.we \in BOOLEAN /\ ~Writes(acc, "TX_DATA") /\ ~Writes(acc, "PENDING")
          /\ ~Writes(acc, "ENABLE") /\ acc # NoAcc
      BY Accesses, ZenonT(30)
    <2>3. "dis_read" \in CallbackLabels /\ "dis_write" \in CallbackLabels \cup {AfterCallback(c)}
          /\ "dis_write" # "fill_write"
      BY Zenon DEF CallbackLabels
    <2>4. reg' \in [Contexts -> SUBSET Sources]
      BY <1>0, <2>1, Zenon
    <2> HIDE DEF acc
    <2> QED BY <2>1, <2>2, <2>3, <2>4, CallbackStep
  <1>6. ASSUME DisWrite(c) PROVE EventInv'
    <2> DEFINE d == reg[c] \ {"TX"}
               acc == Write("ENABLE", d)
    <2>1. /\ Runs(c, "dis_write") /\ Access(acc) /\ Goto(c, AfterCallback(c))
          /\ active' = active /\ src' = src /\ reg' = reg
      BY <1>6, Zenon DEF DisWrite
    <2> HIDE DEF d
    <2>2. /\ acc.we \in BOOLEAN /\ ~Writes(acc, "TX_DATA") /\ ~Writes(acc, "PENDING")
          /\ acc # NoAcc /\ acc.wdata = d
      BY Accesses, ZenonT(30)
    <2>3. "dis_write" \in CallbackLabels /\ AfterCallback(c) \in CallbackLabels \cup {AfterCallback(c)}
      BY Zenon DEF CallbackLabels
    <2>4. AfterCallback(c) # "fill_write" /\ d \subseteq Sources
      BY <1>0, Labels, Zenon DEF d
    <2> HIDE DEF acc
    <2> QED BY <1>0, <2>1, <2>2, <2>3, <2>4, CallbackStep
  <1> QED BY <1>1, <1>2, <1>3, <1>4, <1>5, <1>6, Zenon

\* A byte is written: by the handler or a thread that locks to a transmitter that is
\* ready and has nothing to say; by another thread perhaps just after it became ready.
LEMMA ByteStep ==
  ASSUME EventInv, NEW c \in Contexts, FillWrite(c)
  PROVE  EventInv'
  <1> DEFINE acc == Write("TX_DATA", byte[c])
  <1>1. /\ Runs(c, "fill_write") /\ Goto(c, AfterCallback(c)) /\ bus = "free" /\ Cycle(acc, FALSE)
        /\ active' = active /\ src' = src /\ reg' = reg
    BY Zenon DEF FillWrite, Access
  <1>2. /\ acc.we \in BOOLEAN /\ Writes(acc, "TX_DATA") /\ ~Writes(acc, "PENDING")
        /\ ~Writes(acc, "ENABLE") /\ acc # NoAcc
    BY Accesses, ZenonT(30)
  <1> HIDE DEF acc
  <1>3. Types /\ TxTiming /\ FALSE \in BOOLEAN
    BY Zenon DEF EventInv
  <1>4. /\ c = "thread" => /\ pc["thread"] = "fill_write" /\ pc["isr"] = "off"
                           /\ pc'["thread"] = "idle" /\ pc'["isr"] = "off"
        /\ c = "isr" => /\ pc["isr"] = "fill_write" /\ pc'["isr"] = "isr_next"
                        /\ pc'["thread"] = pc["thread"]
        /\ pc' \in [Contexts -> ThreadLabels \cup IsrLabels]
    <2>1. "idle" \in ThreadLabels /\ "isr_next" \in IsrLabels
      BY Labels, Zenon
    <2>2. c = "thread" \/ c = "isr"
      BY Labels, Zenon
    <2> QED BY <1>1, <1>3, <2>1, <2>2, Labels, ThreadMoves, IsrMoves, ZenonT(30)
  <1>5. Types'
    BY <1>1, <1>2, <1>3, <1>4, HwTypes, Labels, Zenon DEF Types
  <1>6. TxTiming'
    BY <1>1, <1>2, <1>3, Timing, Zenon
  <1>7. locked' = locked /\ enable' = enable
    BY <1>1, <1>2, <1>3, Effects, Zenon
  <1>8. BootInv'
    <2>1. ~Booting
      BY <1>4, Labels, Zenon DEF EventInv, BootInv, Booting, BootLabels, EnableLabels
    <2>2. /\ pc'["thread"] \notin BootLabels
          /\ pc'["thread"] \in EnableLabels => pc["thread"] \in EnableLabels
          /\ pc'["thread"] = "prime" => src = "TX"
      BY <1>4, <2>1, Labels, Zenon DEF EventInv, BootInv, Booting, BootLabels, EnableLabels
    <2> QED BY <1>1, <2>1, <2>2, NotBooting, Zenon
  <1>9. LockInv'
    BY <1>4, <1>7, Labels, Zenon DEF EventInv, LockInv
  <1>10. ActiveInv'
    BY <1>1, <1>4, Labels, ZenonT(30) DEF EventInv, ActiveInv
  <1>11. SureInv'
    BY <1>4, <1>7, <1>9, Labels, Zenon DEF SureInv, LockInv
  <1>12. c = "isr" \/ locked => ~tx_irq /\ ~Rising /\ tx_ready
    BY <1>1, <1>4, Labels, Zenon DEF EventInv, SureInv, Sure, Rising
  <1>13. ~tx_start /\ (tx_ready => tx_ready') /\ (tx_irq' => tx_ready')
    BY <1>1, <1>2, FreeBus, Zenon
  <1>14. (tx_irq' <=> Rising) /\ tx_ready_prev' = tx_ready
    BY <1>1, <1>2, <1>3, Effects, Zenon
  <1>15. (c = "isr" \/ locked) => ~tx_irq' /\ ~Rising'
    BY <1>12, <1>14, Zenon DEF Rising
  <1>16. ~(c = "isr" \/ locked) => Unguarded'
    BY <1>4, <1>7, Labels, Zenon DEF Unguarded
  <1>17. LateWrite'
    BY <1>13, <1>15, <1>16, ZenonT(30) DEF LateWrite
  <1>18. pending \cup irq_edge(irq_in) \subseteq pending'
    BY <1>1, <1>2, <1>3, PendingGrows, ZenonT(30)
  <1>19. owed' = (owed \ {"TX"}) \cup (irq_edge(irq_in) \cap enable)
    BY <1>1, <1>2, <1>3, Effects, Zenon DEF Unsettled
  <1>20. "TX" \in owed' => tx_irq /\ "TX" \in enable /\ "TX" \in pending'
    BY <1>3, <1>18, <1>19, Wires, Zenon
  <1>21. OwedInv'
    <2>1. "TX" \in owed' => ~locked /\ Unguarded' /\ "TX" \in pending' /\ "TX" \in enable'
      BY <1>7, <1>12, <1>16, <1>20, Zenon
    <2> QED BY <1>7, <2>1, Zenon DEF OwedInv, Caught, Unguarded
  <1>22. KeptInv'
    BY <1>1, <1>18, <1>19, Zenon DEF EventInv, KeptInv
  <1> QED BY <1>5, <1>6, <1>8, <1>9, <1>10, <1>11, <1>17, <1>21, <1>22, Zenon DEF EventInv

\* A step of the boot sequence: nothing is enabled and nothing owed.
LEMMA BootStep ==
  ASSUME EventInv, Booting, NEW l, NEW m \in BootLabels \cup EnableLabels, NEW acc,
         acc.we \in BOOLEAN, Runs("thread", l), Goto("thread", m), Access(acc), acc # NoAcc,
         Writes(acc, "ENABLE") => acc.wdata = {}, active' = active,
         reg' \in [Contexts -> SUBSET Sources], reg'["thread"] = {}, src' \in Sources,
         m \in EnableLabels => src' = "RX",
         m = "poll_write" => tx_ready /\ ~Writes(acc, "TX_DATA")
  PROVE  EventInv'
  <1>1. bus = "free" /\ Cycle(acc, FALSE) /\ FALSE \in BOOLEAN /\ Types /\ TxTiming
    BY Zenon DEF Access, EventInv
  <1>2. m \in ThreadLabels /\ m # "fill_write" /\ m # "prime"
    BY Labels, Zenon DEF BootLabels, EnableLabels
  <1>3. /\ pc["thread"] = l /\ pc["isr"] = "off" /\ pc'["thread"] = m /\ pc'["isr"] = "off"
        /\ pc' \in [Contexts -> ThreadLabels \cup IsrLabels]
    BY <1>1, <1>2, ThreadMoves, Zenon
  <1>4. enable = {} /\ owed = {}
    BY Zenon DEF EventInv, BootInv
  <1>5. enable' = {} /\ locked' = locked
    BY <1>1, <1>4, Effects, Zenon
  <1>6. owed' = {}
    <2>1. owed' = Unsettled(acc, FALSE) \cup (irq_edge(irq_in) \cap enable)
      BY <1>1, Effects, Zenon
    <2>2. Unsettled(acc, FALSE) \subseteq owed
      BY Zenon DEF Unsettled
    <2> QED BY <1>4, <2>1, <2>2, Zenon
  <1>7. Types'
    <2>1. Writes(acc, "ENABLE") => acc.wdata \subseteq Sources
      BY Zenon
    <2>2. active' \subseteq Sources /\ "off" \in IsrLabels
      BY <1>1, Labels, Zenon DEF Types
    <2> QED BY <1>1, <1>2, <1>3, <2>1, <2>2, HwTypes, Zenon DEF Types
  <1>8. TxTiming'
    BY <1>1, Timing, Zenon
  <1>9. BootInv'
    BY <1>2, <1>3, <1>5, <1>6, Zenon DEF BootInv
  <1>10. SureInv'
    <2>1. m = "poll_write" => Sure'
      BY <1>1, SureStays, Zenon
    <2> QED BY <1>2, <1>3, <2>1, Zenon DEF SureInv
  <1>11. LockInv' /\ ActiveInv'
    BY <1>3, Zenon DEF EventInv, LockInv, ActiveInv
  <1>12. LateWrite' /\ OwedInv' /\ KeptInv'
    BY <1>5, <1>6, Zenon DEF LateWrite, OwedInv, KeptInv
  <1> QED BY <1>7, <1>8, <1>9, <1>10, <1>11, <1>12, Zenon DEF EventInv

\* rv32_5stage_intc_initialize, uart_poll_out and the first uart_irq_rx_enable.
LEMMA BootSteps ==
  ASSUME EventInv,
         InitEnable \/ InitPending \/ PollStatus \/ PollWrite
         \/ (src = "RX" /\ (EnRead \/ EnClear))
  PROVE  EventInv'
  <1>0. /\ reg \in [Contexts -> SUBSET Sources] /\ src \in Sources /\ "RX" \in Sources
        /\ "thread" \in Contexts
        /\ \A x : x \in {} => x \in Sources
    BY Wires, Labels, Zenon DEF EventInv, Types
  <1>1. Booting => reg["thread"] = {} /\ enable = {}
    BY Zenon DEF EventInv, BootInv
  <1>2. ASSUME InitEnable PROVE EventInv'
    <2> DEFINE acc == Write("ENABLE", {})
    <2>1. /\ Runs("thread", "init_enable") /\ Access(acc) /\ Goto("thread", "init_pending")
          /\ active' = active /\ src' = src /\ reg' = reg
      BY <1>2, Zenon DEF InitEnable
    <2>2. acc.we \in BOOLEAN /\ acc # NoAcc /\ acc.wdata = {}
      BY Accesses, ZenonT(30)
    <2>3. /\ "init_pending" \in BootLabels \cup EnableLabels
          /\ "init_pending" \notin EnableLabels /\ "init_pending" # "poll_write"
      BY Zenon DEF BootLabels, EnableLabels
    <2>4. Booting
      BY <2>1, Zenon DEF Booting, BootLabels, Runs
    <2> HIDE DEF acc
    <2> QED BY <1>0, <1>1, <2>1, <2>2, <2>3, <2>4, BootStep, SMTT(30)
  <1>3. ASSUME InitPending PROVE EventInv'
    <2> DEFINE acc == Write("PENDING", Sources)
    <2>1. /\ Runs("thread", "init_pending") /\ Access(acc) /\ Goto("thread", "poll_status")
          /\ active' = active /\ src' = src /\ reg' = reg
      BY <1>3, Zenon DEF InitPending
    <2>2. acc.we \in BOOLEAN /\ acc # NoAcc /\ ~Writes(acc, "ENABLE")
      BY Accesses, ZenonT(30)
    <2>3. /\ "poll_status" \in BootLabels \cup EnableLabels
          /\ "poll_status" \notin EnableLabels /\ "poll_status" # "poll_write"
      BY Zenon DEF BootLabels, EnableLabels
    <2>4. Booting
      BY <2>1, Zenon DEF Booting, BootLabels, Runs
    <2> HIDE DEF acc
    <2> QED BY <1>0, <1>1, <2>1, <2>2, <2>3, <2>4, BootStep
  <1>4. ASSUME PollStatus PROVE EventInv'
    <2> DEFINE acc == Read("TX_STATUS")
               m == IF tx_ready THEN "poll_write" ELSE "poll_status"
    <2>1. /\ Runs("thread", "poll_status") /\ Access(acc) /\ Goto("thread", m)
          /\ active' = active /\ src' = src /\ reg' = reg
      BY <1>4, Zenon DEF PollStatus
    <2>2. acc.we \in BOOLEAN /\ acc # NoAcc /\ ~Writes(acc, "ENABLE") /\ ~Writes(acc, "TX_DATA")
      BY Accesses, ZenonT(30)
    <2>3. m \in BootLabels \cup EnableLabels /\ m \notin EnableLabels
          /\ (m = "poll_write" => tx_ready)
      BY Zenon DEF BootLabels, EnableLabels
    <2>4. Booting
      BY <2>1, Zenon DEF Booting, BootLabels, Runs
    <2> HIDE DEF acc, m
    <2> QED BY <1>0, <1>1, <2>1, <2>2, <2>3, <2>4, BootStep
  <1>5. ASSUME PollWrite PROVE EventInv'
    <2> DEFINE d == enq + 1
               acc == Write("TX_DATA", d)
               m == IF enq + 1 < NPoll THEN "poll_status" ELSE "en_read"
    <2>1. /\ Runs("thread", "poll_write") /\ Access(acc) /\ Goto("thread", m)
          /\ active' = active /\ src' = "RX" /\ reg' = reg
      BY <1>5, Zenon DEF PollWrite
    <2> HIDE DEF d
    <2>2. acc.we \in BOOLEAN /\ acc # NoAcc /\ ~Writes(acc, "ENABLE")
      BY Accesses, ZenonT(30)
    <2>3. m \in BootLabels \cup EnableLabels /\ m # "poll_write"
      BY Zenon DEF BootLabels, EnableLabels
    <2>4. Booting
      BY <2>1, Zenon DEF Booting, BootLabels, Runs
    <2> HIDE DEF acc, m
    <2> QED BY <1>0, <1>1, <2>1, <2>2, <2>3, <2>4, BootStep
  <1>6. ASSUME src = "RX", EnRead PROVE EventInv'
    <2> DEFINE acc == Read("ENABLE")
    <2>1. /\ Runs("thread", "en_read") /\ Access(acc) /\ Goto("thread", "en_clear")
          /\ active' = active /\ src' = src /\ reg' = [reg EXCEPT !["thread"] = enable]
      BY <1>6, Zenon DEF EnRead
    <2>2. acc.we \in BOOLEAN /\ acc # NoAcc /\ ~Writes(acc, "ENABLE")
      BY Accesses, ZenonT(30)
    <2>3. "en_clear" \in BootLabels \cup EnableLabels /\ "en_clear" # "poll_write"
      BY Zenon DEF BootLabels, EnableLabels
    <2>4. Booting
      BY <1>6, <2>1, Zenon DEF Booting, EnableLabels, Runs
    <2>5. reg' \in [Contexts -> SUBSET Sources] /\ reg'["thread"] = {}
      BY <1>0, <1>1, <2>1, <2>4, Zenon
    <2> HIDE DEF acc
    <2> QED BY <1>0, <1>6, <2>1, <2>2, <2>3, <2>4, <2>5, BootStep
  <1>7. ASSUME src = "RX", EnClear PROVE EventInv'
    <2> DEFINE acc == Write("PENDING", {src})
    <2>1. /\ Runs("thread", "en_clear") /\ Access(acc) /\ Goto("thread", "en_write")
          /\ active' = active /\ src' = src /\ reg' = reg
      BY <1>7, Zenon DEF EnClear
    <2>2. acc.we \in BOOLEAN /\ acc # NoAcc /\ ~Writes(acc, "ENABLE")
      BY Accesses, ZenonT(30)
    <2>3. "en_write" \in BootLabels \cup EnableLabels /\ "en_write" # "poll_write"
      BY Zenon DEF BootLabels, EnableLabels
    <2>4. Booting
      BY <1>7, <2>1, Zenon DEF Booting, EnableLabels, Runs
    <2> HIDE DEF acc
    <2> QED BY <1>0, <1>1, <1>7, <2>1, <2>2, <2>3, <2>4, BootStep
  <1> QED BY <1>2, <1>3, <1>4, <1>5, <1>6, <1>7, Zenon

\* uart_irq_tx_enable and the end of uart_irq_rx_enable, but for the write of PENDING.
LEMMA EnableSteps ==
  ASSUME EventInv, (src = "TX" /\ EnRead) \/ EnWrite \/ Prime
  PROVE  EventInv'
  <1>0. /\ reg \in [Contexts -> SUBSET Sources] /\ src \in Sources /\ enable \subseteq Sources
        /\ tx_ready \in BOOLEAN /\ "thread" \in Contexts /\ Types
    BY Labels, Zenon DEF EventInv, Types
  <1>1. ASSUME src = "TX", EnRead PROVE EventInv'
    <2> DEFINE acc == Read("ENABLE")
    <2>1. /\ Runs("thread", "en_read") /\ Access(acc) /\ Goto("thread", "en_clear")
          /\ active' = active /\ src' = src /\ reg' = [reg EXCEPT !["thread"] = enable]
      BY <1>1, Zenon DEF EnRead
    <2>2. acc.we \in BOOLEAN /\ ~Writes(acc, "TX_DATA") /\ ~Writes(acc, "PENDING")
          /\ ~Writes(acc, "ENABLE") /\ acc # NoAcc
      BY Accesses, ZenonT(30)
    <2>3. bus = "free" /\ Cycle(acc, FALSE)
      BY <2>1, Zenon DEF Access
    <2>4. reg' \in [Contexts -> SUBSET Sources]
      BY <1>0, <2>1, Zenon
    <2>5. "en_clear" \in ThreadLabels /\ "en_clear" \notin {"fill_write", "poll_write"}
      BY Zenon DEF ThreadLabels, EnableLabels
    <2>6. pc["thread"] = "en_read" /\ pc'["thread"] = "en_clear"
      BY <1>0, <2>1, <2>5, ThreadMoves, Zenon
    <2>7. BootInv'
      BY <1>1, <2>1, <2>6, Zenon DEF BootInv, Booting, BootLabels
    <2> HIDE DEF acc
    <2> QED BY <2>1, <2>2, <2>3, <2>4, <2>5, <2>7, ThreadStep, ZenonT(30)
  <1>2. ASSUME EnWrite PROVE EventInv'
    <2> DEFINE d == reg["thread"] \cup {src}
               acc == Write("ENABLE", d)
               m == IF src = "TX" THEN "prime" ELSE "idle"
    <2>1. /\ Runs("thread", "en_write") /\ Access(acc) /\ Goto("thread", m)
          /\ active' = active /\ src' = src /\ reg' = reg
      BY <1>2, Zenon DEF EnWrite
    <2>2. d \subseteq Sources
      BY <1>0, Zenon
    <2> HIDE DEF d
    <2>3. acc.we \in BOOLEAN /\ ~Writes(acc, "TX_DATA") /\ ~Writes(acc, "PENDING")
          /\ acc.wdata = d /\ acc # NoAcc
      BY Accesses, ZenonT(30)
    <2>4. bus = "free" /\ Cycle(acc, FALSE)
      BY <2>1, Zenon DEF Access
    <2>5. /\ m \in ThreadLabels /\ m \notin {"fill_write", "poll_write"}
          /\ m \notin BootLabels \cup EnableLabels /\ (m = "prime" => src = "TX")
          /\ src = "TX" => m = "prime"
      BY Zenon DEF ThreadLabels, BootLabels, EnableLabels
    <2> HIDE DEF acc, m
    <2>6. pc'["thread"] = m
      BY <1>0, <2>1, <2>5, ThreadMoves, Zenon
    <2>7. BootInv'
      BY <2>1, <2>5, <2>6, Zenon DEF BootInv, Booting
    <2> QED BY <1>0, <2>1, <2>2, <2>3, <2>4, <2>5, <2>7, ThreadStep, ZenonT(30)
  <1>3. ASSUME Prime PROVE EventInv'
    <2> DEFINE acc == Read("TX_STATUS")
               m == IF Primed THEN "rx_status" ELSE "idle"
    <2>1. /\ Runs("thread", "prime") /\ bus = "free" /\ Cycle(acc, tx_ready) /\ Goto("thread", m)
          /\ active' = active /\ src' = src /\ reg' = reg
      BY <1>3, Zenon DEF Prime, Primed
    <2>2. acc.we \in BOOLEAN /\ ~Writes(acc, "TX_DATA") /\ ~Writes(acc, "PENDING")
          /\ ~Writes(acc, "ENABLE") /\ acc # NoAcc
      BY Accesses, ZenonT(30)
    <2>3. /\ m \in ThreadLabels /\ m \notin {"fill_write", "poll_write"}
          /\ m \notin BootLabels \cup EnableLabels /\ m # "prime"
      BY Zenon DEF ThreadLabels, BootLabels, EnableLabels, CallbackLabels
    <2> HIDE DEF acc, m
    <2>4. pc'["thread"] = m
      BY <1>0, <2>1, <2>3, ThreadMoves, Zenon
    <2>5. BootInv'
      BY <2>3, <2>4, Zenon DEF BootInv, Booting
    <2> QED BY <1>0, <2>1, <2>2, <2>3, <2>5, ThreadStep
  <1> QED BY <1>1, <1>2, <1>3, Zenon

\* intc_intr_enable of TX discards a pending edge, but only one that a transmitter
\* that is ready explains, and the thread then looks at it (prime).
LEMMA ClearStep ==
  ASSUME EventInv, src = "TX", EnClear
  PROVE  EventInv'
  <1> DEFINE acc == Write("PENDING", {src})
  <1>1. /\ Runs("thread", "en_clear") /\ Goto("thread", "en_write") /\ bus = "free"
        /\ Cycle(acc, FALSE) /\ active' = active /\ src' = src /\ reg' = reg
    BY Zenon DEF EnClear, Access
  <1>2. /\ acc.we \in BOOLEAN /\ ~Writes(acc, "TX_DATA") /\ Writes(acc, "PENDING")
        /\ ~Writes(acc, "ENABLE") /\ acc # NoAcc /\ acc.wdata = {src}
    BY Accesses, ZenonT(30)
  <1> HIDE DEF acc
  <1>3. Types /\ TxTiming /\ FALSE \in BOOLEAN
    BY Zenon DEF EventInv
  <1>4. "en_write" \in ThreadLabels /\ "off" \in IsrLabels
    BY Labels, Zenon DEF EnableLabels
  <1>5. /\ pc["thread"] = "en_clear" /\ pc["isr"] = "off"
        /\ pc'["thread"] = "en_write" /\ pc'["isr"] = "off"
        /\ pc' \in [Contexts -> ThreadLabels \cup IsrLabels]
    BY <1>1, <1>3, <1>4, ThreadMoves, Zenon
  <1>6. Types'
    BY <1>1, <1>2, <1>3, <1>4, <1>5, HwTypes, Zenon DEF Types
  <1>7. TxTiming'
    BY <1>1, <1>2, <1>3, Timing, Zenon
  <1>8. BootInv' /\ LockInv' /\ ActiveInv' /\ SureInv'
    BY <1>1, <1>5, Zenon
       DEF EventInv, BootInv, Booting, BootLabels, LockInv, ActiveInv, SureInv
  <1>9. ~Caught
    BY <1>5, Zenon DEF Caught
  <1>10. ~tx_start' /\ LateWrite' /\ ("TX" \in owed' => tx_ready')
    BY <1>1, <1>2, <1>3, <1>9, OwedFree, Zenon
  <1>11. OwedInv'
    BY <1>10, Zenon DEF OwedInv
  <1>12. KeptInv'
    <2> SUFFICES ASSUME NEW s \in owed', s # "TX"
                 PROVE  s \in pending' \cup active'
      BY <1>1, <1>5, <1>10, Zenon DEF KeptInv
    <2>1. s \in owed \/ s \in irq_edge(irq_in)
      BY <1>1, <1>2, <1>3, OwedFree, Zenon
    <2>2. pending' = (pending \cup irq_edge(irq_in)) \ {"TX"}
      BY <1>1, <1>2, <1>3, Effects, ZenonT(30) DEF NextPending
    <2> QED BY <1>1, <2>1, <2>2, Zenon DEF EventInv, KeptInv
  <1> QED BY <1>6, <1>7, <1>8, <1>10, <1>11, <1>12, Zenon DEF EventInv

\* The application queues a byte: the thread goes on only if no interrupt is waiting.
LEMMA EnqueueStep ==
  ASSUME EventInv, Enqueue
  PROVE  EventInv'
  <1>1. /\ Runs("thread", "idle") /\ Goto("thread", "en_read") /\ bus = "free"
        /\ Cycle(NoAcc, FALSE) /\ active' = active /\ src' = "TX" /\ reg' = reg
    BY Zenon DEF Enqueue
  <1>2. NoAcc.we \in BOOLEAN /\ \A r : ~Writes(NoAcc, r)
    BY Accesses, Zenon
  <1>3. Types /\ TxTiming /\ FALSE \in BOOLEAN
    BY Zenon DEF EventInv
  <1>4. "en_read" \in ThreadLabels /\ "off" \in IsrLabels /\ "TX" \in Sources
    BY <1>3, Labels, Wires, Zenon DEF EnableLabels
  <1>5. /\ pc["thread"] = "idle" /\ pc["isr"] = "off"
        /\ pc'["thread"] = "en_read" /\ pc'["isr"] = "off"
        /\ pc' \in [Contexts -> ThreadLabels \cup IsrLabels]
    BY <1>1, <1>3, <1>4, ThreadMoves, Zenon
  <1>6. Types'
    BY <1>1, <1>2, <1>3, <1>4, <1>5, HwTypes, ZenonT(30) DEF Types
  <1>7. TxTiming'
    BY <1>1, <1>2, <1>3, Timing, Zenon
  <1>8. BootInv' /\ LockInv' /\ ActiveInv' /\ SureInv'
    BY <1>1, <1>5, Zenon
       DEF EventInv, BootInv, Booting, BootLabels, LockInv, ActiveInv, SureInv
  <1>9. pending \cup irq_edge(irq_in) \subseteq pending'
    BY <1>1, <1>2, <1>3, PendingGrows, Zenon
  <1>10. ~tx_start' /\ LateWrite'
    BY <1>1, <1>2, <1>3, OwedFree, ZenonT(30)
  <1>11. enable' = enable /\ locked' = locked /\ ex_irq' = (irq_out /\ mstatus_mie)
    BY <1>1, <1>2, <1>3, Effects, Zenon
  <1>12. OwedInv'
    <2> SUFFICES ASSUME "TX" \in owed', ~tx_ready'
                 PROVE  ~locked' /\ "TX" \in enable' /\ Caught'
      BY <1>10, Zenon DEF OwedInv
    <2>1. ~locked /\ "TX" \in enable /\ "TX" \in pending
      BY <1>1, <1>2, <1>3, <1>5, OwedFree, Zenon DEF Caught
    <2>2. irq_out /\ mstatus_mie
      BY <1>5, <2>1, Zenon DEF irq_out, mstatus_mie
    <2> QED BY <1>5, <1>9, <1>11, <2>1, <2>2, ZenonT(30) DEF Caught
  <1>13. KeptInv'
    <2> SUFFICES ASSUME NEW s \in owed'
                 PROVE  s \in pending' \cup active'
      BY Zenon DEF KeptInv
    <2>1. s \in owed \/ s \in irq_edge(irq_in)
      BY <1>1, <1>2, <1>3, OwedFree, ZenonT(30)
    <2> QED BY <1>1, <1>5, <1>9, <2>1, Zenon DEF EventInv, KeptInv
  <1> QED BY <1>6, <1>7, <1>8, <1>10, <1>12, <1>13, ZenonT(30) DEF EventInv

\* rv32_5stage_intc_isr once it is entered: what it reads it clears or keeps in active.
LEMMA HandlerSteps ==
  ASSUME EventInv, IsrPending \/ IsrEnable \/ IsrClear \/ IsrDispatch \/ IsrReturn
  PROVE  EventInv'
  <1>0. /\ reg \in [Contexts -> SUBSET Sources] /\ enable \subseteq Sources
        /\ pending \subseteq Sources /\ active \subseteq Sources /\ Types
    BY Zenon DEF EventInv, Types
  <1>1. ASSUME IsrPending PROVE EventInv'
    <2> DEFINE acc == Read("PENDING")
    <2>1. /\ Runs("isr", "isr_pending") /\ Goto("isr", "isr_enable") /\ bus = "free"
          /\ Cycle(acc, FALSE) /\ active' = pending /\ src' = src /\ reg' = reg
      BY <1>1, Zenon DEF IsrPending, Access
    <2>2. acc.we \in BOOLEAN /\ ~Writes(acc, "TX_DATA") /\ ~Writes(acc, "PENDING")
          /\ ~Writes(acc, "ENABLE")
      BY Accesses, ZenonT(30)
    <2> HIDE DEF acc
    <2>3. "isr_enable" \in IsrLabels
      BY Labels, Zenon
    <2>4. pc["isr"] = "isr_pending" /\ pc'["isr"] = "isr_enable"
      BY <1>0, <2>1, <2>3, IsrMoves, Zenon
    <2>5. pending \cup irq_edge(irq_in) \subseteq pending'
      BY <1>0, <2>1, <2>2, PendingGrows, Zenon
    <2>6. active = {}
      BY <2>4, Zenon DEF EventInv, ActiveInv
    <2>7. ActiveInv' /\ active' \subseteq Sources
      BY <1>0, <2>1, <2>4, <2>5, Zenon DEF ActiveInv
    <2>8. enable' = enable
      BY <1>0, <2>1, <2>2, Effects, Zenon
    <2>9. Caught /\ "TX" \in enable => Caught' /\ "TX" \in enable'
      BY <2>1, <2>4, <2>8, Zenon DEF Caught
    <2>10. /\ pending \cup active \subseteq pending' \cup active'
           /\ irq_edge(irq_in) \subseteq pending' \cup active'
      BY <2>5, <2>6, ZenonT(30)
    <2> QED BY <1>0, <2>1, <2>2, <2>3, <2>7, <2>9, <2>10, IsrStep, ZenonT(30)
  <1>2. ASSUME IsrEnable PROVE EventInv'
    <2> DEFINE acc == Read("ENABLE")
    <2>1. /\ Runs("isr", "isr_enable") /\ Goto("isr", "isr_clear") /\ bus = "free"
          /\ Cycle(acc, FALSE) /\ active' = active \cap enable /\ src' = src /\ reg' = reg
      BY <1>2, Zenon DEF IsrEnable, Access
    <2>2. acc.we \in BOOLEAN /\ ~Writes(acc, "TX_DATA") /\ ~Writes(acc, "PENDING")
          /\ ~Writes(acc, "ENABLE")
      BY Accesses, ZenonT(30)
    <2> HIDE DEF acc
    <2>3. "isr_clear" \in IsrLabels
      BY Labels, Zenon
    <2>4. pc["isr"] = "isr_enable" /\ pc'["isr"] = "isr_clear"
      BY <1>0, <2>1, <2>3, IsrMoves, Zenon
    <2>5. pending \cup irq_edge(irq_in) \subseteq pending'
      BY <1>0, <2>1, <2>2, PendingGrows, ZenonT(30)
    <2>6. active \subseteq pending
      BY <2>4, Zenon DEF EventInv, ActiveInv
    <2>7. ActiveInv' /\ active' \subseteq Sources
      BY <1>0, <2>1, <2>4, Zenon DEF ActiveInv
    <2>8. enable' = enable
      BY <1>0, <2>1, <2>2, Effects, Zenon
    <2>9. Caught /\ "TX" \in enable => Caught' /\ "TX" \in enable'
      BY <2>1, <2>4, <2>8, Zenon DEF Caught
    <2>10. /\ pending \cup active \subseteq pending' \cup active'
           /\ irq_edge(irq_in) \subseteq pending' \cup active'
      BY <2>5, <2>6, ZenonT(30)
    <2> QED BY <1>0, <2>1, <2>2, <2>3, <2>7, <2>9, <2>10, IsrStep, ZenonT(30)
  <1>3. ASSUME IsrClear PROVE EventInv'
    <2> DEFINE acc == Write("PENDING", active)
    <2>1. /\ Runs("isr", "isr_clear") /\ Goto("isr", "isr_next") /\ bus = "free"
          /\ Cycle(acc, FALSE) /\ active' = active /\ src' = src /\ reg' = reg
      BY <1>3, Zenon DEF IsrClear, Access, ClearedByIsr
    <2>2. acc.we \in BOOLEAN /\ ~Writes(acc, "TX_DATA") /\ Writes(acc, "PENDING")
          /\ ~Writes(acc, "ENABLE") /\ acc.wdata = active
      BY Accesses, ZenonT(30)
    <2> HIDE DEF acc
    <2>3. "isr_next" \in IsrLabels
      BY Labels, Zenon
    <2>4. pc["isr"] = "isr_clear" /\ pc'["isr"] = "isr_next"
      BY <1>0, <2>1, <2>3, IsrMoves, Zenon
    <2>5. pending' = (pending \cup irq_edge(irq_in)) \ active /\ enable' = enable
      BY <1>0, <2>1, <2>2, Effects, Zenon DEF NextPending
    <2>6. ActiveInv' /\ active' \subseteq Sources
      BY <1>0, <2>1, <2>4, Zenon DEF ActiveInv
    <2>7. Caught /\ "TX" \in enable => Caught' /\ "TX" \in enable'
      BY <2>1, <2>4, <2>5, Zenon DEF Caught
    <2>8. /\ pending \cup active \subseteq pending' \cup active'
          /\ irq_edge(irq_in) \subseteq pending' \cup active'
      BY <2>1, <2>5, Zenon
    <2> QED BY <1>0, <2>1, <2>2, <2>3, <2>6, <2>7, <2>8, IsrStep, ZenonT(30)
  <1>4. NoAcc.we \in BOOLEAN /\ ~Writes(NoAcc, "TX_DATA") /\ ~Writes(NoAcc, "PENDING")
        /\ ~Writes(NoAcc, "ENABLE")
    BY Accesses, ZenonT(30)
  <1>5. ASSUME IsrDispatch PROVE EventInv'
    <2>1. /\ Runs("isr", "isr_next") /\ Goto("isr", "rx_status") /\ bus = "free"
          /\ Cycle(NoAcc, TRUE) /\ active' \subseteq active /\ src' = src /\ reg' = reg
      BY <1>5, Zenon DEF IsrDispatch
    <2>2. "rx_status" \in IsrLabels
      BY Labels, Zenon DEF CallbackLabels
    <2>3. pc'["isr"] = "rx_status"
      BY <1>0, <2>1, <2>2, IsrMoves, Zenon
    <2>4. irq_edge(irq_in) \subseteq pending' \cup active'
      BY <1>0, <1>4, <2>1, PendingGrows, Zenon
    <2>5. ActiveInv' /\ active' \subseteq Sources
      BY <1>0, <2>1, <2>3, ZenonT(30) DEF ActiveInv
    <2> QED BY <1>0, <1>4, <2>1, <2>2, <2>4, <2>5, IsrStep, ZenonT(30)
  <1>6. ASSUME IsrReturn PROVE EventInv'
    <2>1. /\ Runs("isr", "isr_next") /\ Goto("isr", "off") /\ bus = "free" /\ active = {}
          /\ Cycle(NoAcc, FALSE) /\ active' = active /\ src' = src /\ reg' = reg
      BY <1>6, Zenon DEF IsrReturn
    <2>2. "off" \in IsrLabels
      BY Labels, Zenon
    <2>3. pc["isr"] = "isr_next" /\ pc'["isr"] = "off"
      BY <1>0, <2>1, <2>2, IsrMoves, Zenon
    <2>4. pending \cup irq_edge(irq_in) \subseteq pending'
      BY <1>0, <1>4, <2>1, PendingGrows, Zenon
    <2>5. ActiveInv' /\ active' \subseteq Sources
      BY <1>0, <2>1, <2>3, Zenon DEF ActiveInv
    <2>6. ~Caught
      BY <2>1, <2>3, Zenon DEF Caught
    <2>7. /\ pending \cup active \subseteq pending' \cup active'
          /\ irq_edge(irq_in) \subseteq pending' \cup active'
      BY <2>1, <2>4, Zenon
    <2> QED BY <1>0, <1>4, <2>1, <2>2, <2>5, <2>6, <2>7, IsrStep, ZenonT(30)
  <1> QED BY <1>1, <1>2, <1>3, <1>5, <1>6, ZenonT(30)

\* The trap is taken between two instructions of the thread.
LEMMA TrapStep ==
  ASSUME EventInv, TrapEntry
  PROVE  EventInv'
  <1>1. /\ irq_out /\ mstatus_mie /\ Goto("isr", "isr_pending") /\ bus = "free"
        /\ Cycle(NoAcc, FALSE) /\ active' = active /\ src' = src /\ reg' = reg
    BY Zenon DEF TrapEntry
  <1>2. NoAcc.we \in BOOLEAN /\ \A r : ~Writes(NoAcc, r)
    BY Accesses, Zenon
  <1>3. Types /\ TxTiming /\ FALSE \in BOOLEAN
    BY Zenon DEF EventInv
  <1>4. pc["isr"] = "off" /\ (locked => pc["thread"] = "idle")
    BY <1>1, Zenon DEF mstatus_mie
  <1>5. "isr_pending" \in IsrLabels /\ Runs("isr", "off")
    BY <1>4, Labels, Zenon DEF Runs
  <1>6. /\ pc'["isr"] = "isr_pending" /\ pc'["thread"] = pc["thread"]
        /\ pc' \in [Contexts -> ThreadLabels \cup IsrLabels]
    BY <1>1, <1>3, <1>5, IsrMoves, Zenon
  <1>7. Types'
    BY <1>1, <1>2, <1>3, <1>5, <1>6, HwTypes, ZenonT(30) DEF Types
  <1>8. TxTiming'
    BY <1>1, <1>2, <1>3, Timing, Zenon
  <1>9. enable' = enable /\ locked' = locked
    BY <1>1, <1>2, <1>3, Effects, Zenon
  <1>10. BootInv'
    <2>1. ~Booting
      BY <1>1, Zenon DEF EventInv, BootInv, irq_out
    <2> QED BY <1>1, <1>6, <2>1, Zenon DEF EventInv, BootInv, Booting
  <1>11. LockInv' /\ ActiveInv' /\ SureInv'
    BY <1>1, <1>4, <1>6, <1>9, Zenon DEF EventInv, LockInv, ActiveInv, SureInv
  <1>12. pending \cup irq_edge(irq_in) \subseteq pending'
    BY <1>1, <1>2, <1>3, PendingGrows, Zenon
  <1>13. ~tx_start' /\ LateWrite'
    BY <1>1, <1>2, <1>3, OwedFree, Zenon
  <1>14. OwedInv'
    <2> SUFFICES ASSUME "TX" \in owed', ~tx_ready'
                 PROVE  ~locked' /\ "TX" \in enable' /\ Caught'
      BY <1>13, Zenon DEF OwedInv
    <2>1. ~locked /\ "TX" \in enable /\ "TX" \in pending
      BY <1>1, <1>2, <1>3, <1>4, OwedFree, Zenon DEF Caught
    <2> QED BY <1>6, <1>9, <1>12, <2>1, ZenonT(30) DEF Caught
  <1>15. KeptInv'
    <2> SUFFICES ASSUME NEW s \in owed'
                 PROVE  \/ s \in pending' \cup active'
                        \/ /\ s = "TX" /\ pc'["thread"] \in {"en_write", "prime"} /\ src' = "TX"
                           /\ tx_ready' /\ ~tx_start'
      BY Zenon DEF KeptInv
    <2>1. s \in owed \/ s \in irq_edge(irq_in)
      BY <1>1, <1>2, <1>3, OwedFree, Zenon
    <2>2. tx_ready => tx_ready'
      BY <1>1, <1>2, <1>3, FreeBus, Zenon
    <2>3. CASE s \in owed
      BY <1>1, <1>6, <1>12, <1>13, <2>2, <2>3, ZenonT(30) DEF EventInv, KeptInv
    <2>4. CASE s \in irq_edge(irq_in)
      BY <1>12, <2>4, Zenon
    <2> QED BY <2>1, <2>3, <2>4, Zenon
  <1> QED BY <1>7, <1>8, <1>10, <1>11, <1>13, <1>14, <1>15, ZenonT(30) DEF EventInv

\* A cycle without progress of the software: the start pulse of a late write passes.
LEMMA WaitStep ==
  ASSUME EventInv, Wait
  PROVE  EventInv'
  <1>1. /\ Cycle(NoAcc, FALSE)
        /\ pc' = pc /\ active' = active /\ src' = src /\ reg' = reg
    BY Zenon DEF Wait
  <1>2. NoAcc.we \in BOOLEAN /\ \A r : ~Writes(NoAcc, r)
    BY Accesses, Zenon
  <1>3. Types /\ TxTiming /\ FALSE \in BOOLEAN
    BY Zenon DEF EventInv
  <1>4. Types'
    BY <1>1, <1>2, <1>3, HwTypes, Zenon DEF Types
  <1>5. TxTiming'
    BY <1>1, <1>2, <1>3, Timing, Zenon
  <1>6. /\ enable' = enable /\ locked' = locked /\ ex_irq' = (irq_out /\ mstatus_mie)
        /\ ~tx_start' /\ (tx_irq' <=> Rising)
        /\ owed' = Unsettled(NoAcc, FALSE) \cup (irq_edge(irq_in) \cap enable)
    BY <1>1, <1>2, <1>3, Effects, Zenon
  <1>7. owed' = owed \cup (irq_edge(irq_in) \cap enable)
    BY <1>2, <1>6, Zenon DEF Unsettled
  <1>8. BootInv'
    BY <1>1, <1>6, <1>7, Zenon DEF EventInv, BootInv, Booting
  <1>9. LockInv'
    BY <1>1, <1>6, Zenon DEF EventInv, LockInv
  <1>10. pending \cup irq_edge(irq_in) \subseteq pending'
    BY <1>1, <1>2, <1>3, PendingGrows, ZenonT(30)
  <1>11. ActiveInv'
    BY <1>1, <1>10, Zenon DEF EventInv, ActiveInv
  <1>12. SureInv'
    <2>1. Sure => Sure'
      BY <1>1, <1>2, <1>3, SureStays, Zenon
    <2> QED BY <1>1, <1>6, <2>1, Zenon DEF EventInv, SureInv
  <1>13. tx_ready /\ ~tx_ready' => tx_start
    <2>1. tx_ready => tx_state = "IDLE"
      BY <1>3, Zenon DEF TxTiming, Types
    <2> QED BY <1>1, <1>2, <1>3, <2>1, Effects, ZenonT(30)
  <1>14. Unguarded => Unguarded'
    BY <1>1, <1>6, Zenon DEF Unguarded
  <1>15. LateWrite'
    <2> SUFFICES ASSUME "TX" \in enable, ~tx_ready', tx_irq'
                 PROVE  Unguarded' /\ bus' = "done"
      BY <1>6, Zenon DEF LateWrite
    <2>1. tx_start /\ Rising
      BY <1>6, <1>13, Zenon DEF Rising
    <2>2. bus' = "done"
      BY <1>1, <1>2, <1>3, <2>1, BusMoves, ZenonT(30) DEF TxTiming
    <2> QED BY <1>14, <2>1, <2>2, Zenon DEF EventInv, LateWrite
  <1>16. OwedInv'
    <2> SUFFICES ASSUME "TX" \in owed', ~tx_ready'
                 PROVE  ~locked' /\ "TX" \in enable' /\ Caught'
      BY <1>6, Zenon DEF OwedInv
    <2>1. tx_start \/ ~tx_ready
      BY <1>13, Zenon
    <2>2. CASE "TX" \in owed
      <3>1. ~locked /\ "TX" \in enable /\ Caught
        BY <2>1, <2>2, Zenon DEF EventInv, OwedInv
      <3>2. pc["isr"] = "off" /\ "TX" \in pending => ex_irq'
        BY <1>6, <3>1, Zenon DEF irq_out, mstatus_mie
      <3> QED BY <1>1, <1>6, <1>10, <3>1, <3>2, ZenonT(30) DEF Caught
    <2>3. CASE "TX" \in irq_edge(irq_in) \cap enable
      <3>1. tx_irq
        BY <1>3, <2>3, Wires, Zenon
      <3>2. Unguarded
        BY <2>1, <2>3, <3>1, Zenon DEF EventInv, LateWrite
      <3> QED BY <1>1, <1>6, <1>10, <2>3, <3>2, Zenon DEF Caught, Unguarded
    <2> QED BY <1>7, <2>2, <2>3, Zenon
  <1>17. KeptInv'
    <2> SUFFICES ASSUME NEW s \in owed'
                 PROVE  \/ s \in pending' \cup active'
                        \/ /\ s = "TX" /\ pc'["thread"] \in {"en_write", "prime"} /\ src' = "TX"
                           /\ tx_ready' /\ ~tx_start'
      BY Zenon DEF KeptInv
    <2>1. tx_ready /\ ~tx_start => tx_ready'
      BY <1>13, Zenon
    <2>2. CASE s \in owed
      BY <1>1, <1>6, <1>10, <2>1, <2>2, ZenonT(30) DEF EventInv, KeptInv
    <2>3. CASE s \in irq_edge(irq_in)
      BY <1>10, <2>3, Zenon
    <2> QED BY <1>7, <2>2, <2>3, Zenon
  <1> QED BY <1>4, <1>5, <1>8, <1>9, <1>11, <1>12, <1>15, <1>16, <1>17, ZenonT(30) DEF EventInv

\* After reset nothing is enabled and the thread is about to initialise the controller.
LEMMA EventStart == Init => EventInv
  <1> SUFFICES ASSUME Init PROVE EventInv
    OBVIOUS
  <1>1. /\ pc["thread"] = "init_enable" /\ pc["isr"] = "off"
        /\ pc \in [Contexts -> ThreadLabels \cup IsrLabels]
        /\ reg \in [Contexts -> SUBSET Sources] /\ reg["thread"] = {}
    <2>1. "init_enable" \in ThreadLabels /\ "off" \in IsrLabels
      BY Labels, Zenon DEF BootLabels
    <2> QED BY <2>1, Labels, Zenon DEF Init
  <1>2. /\ enable = {} /\ pending = {} /\ irq_in_prev = {} /\ owed = {} /\ active = {}
        /\ src = "RX" /\ bus = "free" /\ ex_irq = FALSE /\ locked \in BOOLEAN
    BY ConsoleAssumption, Zenon DEF Init, IntcInit
  <1>3. /\ tx_start = FALSE /\ tx_ready \in BOOLEAN /\ tx_ready_prev \in BOOLEAN
        /\ tx_irq \in BOOLEAN /\ tx_state = "IDLE"
    BY Zenon DEF Init, UartInit
  <1>4. Types
    <2>1. "init_enable" \in ThreadLabels /\ "off" \in IsrLabels /\ src \in Sources
      BY <1>2, ConsoleAssumption, Labels, Zenon DEF BootLabels
    <2> QED BY <1>1, <1>2, <1>3, <2>1, Zenon DEF Types
  <1>5. BootInv /\ LockInv /\ ActiveInv /\ SureInv
    BY <1>1, <1>2, Zenon DEF BootInv, LockInv, ActiveInv, SureInv
  <1>6. TxTiming /\ LateWrite /\ OwedInv /\ KeptInv
    BY <1>2, <1>3, Zenon DEF TxTiming, LateWrite, OwedInv, KeptInv
  <1> QED BY <1>4, <1>5, <1>6, Zenon DEF EventInv

\* Every cycle keeps the events, whatever thread, handler and hardware do in it.
LEMMA EventStep == EventInv /\ [Next]_vars => EventInv'
  <1> SUFFICES ASSUME EventInv, [Next]_vars PROVE EventInv'
    OBVIOUS
  <1>1. CASE Thread
    <2>1. src = "TX" \/ src = "RX"
      BY ConsoleAssumption, Zenon DEF EventInv, Types
    <2> QED BY <1>1, <2>1, BootSteps, EnableSteps, ClearStep, EnqueueStep, ZenonT(30) DEF Thread
  <1>2. CASE Handler
    BY <1>2, HandlerSteps, TrapStep, Zenon DEF Handler
  <1>3. CASE Callback
    BY <1>3, CallbackSteps, ByteStep, Zenon DEF Callback
  <1>4. CASE Wait
    BY <1>4, WaitStep, Zenon
  <1>5. CASE UNCHANGED vars
    <2>1. /\ enable' = enable /\ pending' = pending /\ irq_in_prev' = irq_in_prev
          /\ active' = active /\ owed' = owed /\ src' = src /\ tx_start' = tx_start
          /\ tx_ready' = tx_ready /\ tx_ready_prev' = tx_ready_prev /\ tx_irq' = tx_irq
          /\ tx_state' = tx_state /\ locked' = locked /\ ex_irq' = ex_irq /\ bus' = bus
          /\ pc' = pc /\ reg' = reg
      BY <1>5, ZenonT(30) DEF vars, intcVars, uartVars, swVars, history
    <2>2. Types'
      BY <2>1 DEF EventInv, Types
    <2>6. BootInv'
      BY <2>1, Zenon DEF EventInv, BootInv, Booting
    <2>3. TxTiming' /\ SureInv' /\ LockInv' /\ ActiveInv'
      BY <2>1, Zenon DEF EventInv, TxTiming, Sure, SureInv, LockInv, ActiveInv
    <2>4. LateWrite'
      BY <2>1, Zenon DEF EventInv, LateWrite, Rising, Unguarded
    <2>5. OwedInv' /\ KeptInv'
      BY <2>1, Zenon DEF EventInv, Caught, OwedInv, KeptInv
    <2> QED BY <2>2, <2>3, <2>4, <2>5, <2>6, Zenon DEF EventInv
  <1> QED BY <1>1, <1>2, <1>3, <1>4, <1>5, ZenonT(30) DEF Next, Software

\* An enabled source that fired is pending, about to be dispatched by the handler, or the
\* thread that discarded it (intc_intr_enable) is about to look at the transmitter itself;
\* with and without a lock around the driver calls, for every number of bytes.
THEOREM NothingForgotten == Spec => []NoForgottenEvent
  <1>1. EventInv => NoForgottenEvent
    BY Zenon DEF EventInv, KeptInv, NoForgottenEvent
  <1> QED BY <1>1, EventStart, EventStep, PTL DEF Spec

\* Transmission: sequences of consecutive bytes.
LEMMA UpToIs ==
  ASSUME NEW n \in Nat, NEW s \in Seq(Nat)
  PROVE  s = UpTo(n) <=> Len(s) = n /\ \A i \in 1 .. n : s[i] = i
  <1>1. UpTo(n) \in Seq(Nat) /\ Len(UpTo(n)) = n /\ \A i \in 1 .. n : UpTo(n)[i] = i
    BY DEF UpTo
  <1> QED BY <1>1, SeqEqual

\* The transmitter puts the byte of the start pulse on the line.
LEMMA LineMoves ==
  ASSUME NEW s \in Seq(Nat), NEW q \in Seq(Nat), NEW x \in Nat
  PROVE  Append(s, x) \o <<>> \o q = s \o <<x>> \o q
  <1>1. Append(s, x) = s \o <<x>> /\ Append(s, x) \in Seq(Nat)
    BY SMTT(30)
  <1>2. Append(s, x) \o <<>> = Append(s, x)
    BY <1>1
  <1> QED BY <1>1, <1>2

\* uart_fifo_fill moves the first byte of the queue to the transmitter.
LEMMA LineTakes ==
  ASSUME NEW s \in Seq(Nat), NEW q \in Seq(Nat), q # <<>>
  PROVE  s \o <<Head(q)>> \o Tail(q) = s \o <<>> \o q
  <1>1. Head(q) \in Nat /\ Tail(q) \in Seq(Nat) /\ Len(Tail(q)) = Len(q) - 1 /\ Len(q) > 0
    BY EmptySeq
  <1>2. s \o <<>> = s
    OBVIOUS
  <1>3. <<Head(q)>> \o Tail(q) = q
    BY <1>1, SeqEqual
  <1>4. (s \o <<Head(q)>>) \o Tail(q) = s \o (<<Head(q)>> \o Tail(q))
    BY <1>1, SMTT(30)
  <1> QED BY <1>2, <1>3, <1>4, SMTT(30)

\* The application adds a byte: by uart_poll_out, or to the queue.
LEMMA LineGrows ==
  ASSUME NEW s \in Seq(Nat), NEW q \in Seq(Nat), NEW n \in Nat, s \o <<>> \o q = UpTo(n)
  PROVE  /\ q = <<>> => s \o <<n + 1>> \o <<>> = UpTo(n + 1)
         /\ s \o <<>> \o Append(q, n + 1) = UpTo(n + 1)
  <1>1. s \o <<>> = s
    OBVIOUS
  <1>2. s \o q \in Seq(Nat) /\ Len(s \o q) = n /\ \A i \in 1 .. n : (s \o q)[i] = i
    <2>1. s \o q \in Seq(Nat) /\ s \o q = UpTo(n)
      BY <1>1
    <2> DEFINE t == s \o q
    <2> HIDE DEF t
    <2>2. Len(t) = n /\ \A i \in 1 .. n : t[i] = i
      BY <2>1, UpToIs DEF t
    <2> QED BY <2>1, <2>2 DEF t
  <1>3. s \o Append(q, n + 1) = Append(s \o q, n + 1)
    BY SMTT(30)
  <1>4. Append(s \o q, n + 1) = UpTo(n + 1)
    <2> DEFINE t == Append(s \o q, n + 1)
    <2>1. t \in Seq(Nat) /\ Len(t) = n + 1 /\ \A i \in 1 .. n + 1 : t[i] = i
      <3> DEFINE r == s \o q
      <3> HIDE DEF r
      <3>1. r \in Seq(Nat) /\ Len(r) = n /\ \A i \in 1 .. n : r[i] = i
        BY <1>2 DEF r
      <3>2. Append(r, n + 1) \in Seq(Nat) /\ Len(Append(r, n + 1)) = n + 1
            /\ \A i \in 1 .. n + 1 : Append(r, n + 1)[i] = i
        BY <3>1, SMTT(30)
      <3> QED BY <3>2 DEF r
    <2> HIDE DEF t
    <2>2. n + 1 \in Nat
      OBVIOUS
    <2>3. t = UpTo(n + 1)
      BY <2>1, <2>2, UpToIs
    <2> QED BY <2>3 DEF t
  <1>5. q = <<>> => s \o <<n + 1>> \o <<>> = Append(s \o q, n + 1)
    OBVIOUS
  <1> QED BY <1>1, <1>3, <1>4, <1>5, ZenonT(30)

\* A cycle without a write of TX_DATA: the byte of a start pulse goes on the line.
LEMMA QuietSend ==
  ASSUME EventInv, SendInv, NEW acc, NEW cb \in BOOLEAN, acc.we \in BOOLEAN, Cycle(acc, cb),
         ~Writes(acc, "TX_DATA"), queue' = queue, enq' = enq, byte' \in [Contexts -> Nat],
         Booting' => Booting, locked => FillInv'
  PROVE  SendInv'
  <1>1. Types /\ SendTypes
    BY Zenon DEF EventInv, SendInv
  <1>2. /\ locked' = locked /\ ~tx_start' /\ tx_data' = tx_data
        /\ sent' = IF tx_state = "IDLE" /\ tx_start THEN Append(sent, tx_data) ELSE sent
    BY <1>1, Effects, Zenon
  <1>3. SendTypes'
    <2>1. Append(sent, tx_data) \in Seq(Nat)
      BY <1>1 DEF SendTypes
    <2> QED BY <1>1, <1>2, <2>1, ZenonT(30) DEF SendTypes
  <1>4. locked => InOrderOnLine'
    <2> SUFFICES ASSUME locked PROVE InOrderOnLine'
      OBVIOUS
    <2>1. sent' \o <<>> \o queue = UpTo(enq)
      <3>1. CASE tx_start
        <4>1. sent' = Append(sent, tx_data) /\ sent \o <<tx_data>> \o queue = UpTo(enq)
          BY <1>2, <3>1, Zenon DEF SendInv, StartInv, InOrderOnLine
        <4> QED BY <1>1, <4>1, LineMoves, SMTT(30) DEF SendTypes
      <3>2. CASE ~tx_start
        <4>1. sent' = sent /\ sent \o <<>> \o queue = UpTo(enq)
          BY <1>2, <3>2, Zenon DEF SendInv, InOrderOnLine
        <4> QED BY <4>1, Zenon
      <3> QED BY <3>1, <3>2, ZenonT(30)
    <2> QED BY <1>2, <2>1, Zenon DEF InOrderOnLine, UpTo
  <1>5. Booting' => queue' = <<>>
    BY Zenon DEF SendInv
  <1> QED BY <1>2, <1>3, <1>4, <1>5, ZenonT(30) DEF SendInv, StartInv

\* A step of c that leaves the byte to write alone.
LEMMA Holds ==
  ASSUME EventInv, SendInv, NEW c \in Contexts, NEW m, Goto(c, m),
         m \in {"fill_status", "fill_write"} => pc[c] \in {"fill_status", "fill_write"},
         queue' = queue, byte' = byte, locked
  PROVE  FillInv'
  <1>1. pc \in [Contexts -> ThreadLabels \cup IsrLabels]
    BY Zenon DEF EventInv, Types
  <1>2. \A d \in Contexts : pc'[d] \in {"fill_status", "fill_write"} =>
                            pc[d] \in {"fill_status", "fill_write"}
    BY <1>1, ZenonT(30) DEF Goto
  <1> QED BY <1>2, Zenon DEF SendInv, FillInv

\* What a step of context c that ends at label m, does the bus access acc and enters the
\* callback when cb leaves alone: the bytes to send and the byte received.
FillLabels == {"fill_status", "fill_write"}
Harmless(acc) == acc.we \in BOOLEAN /\ ~Writes(acc, "TX_DATA") /\ ~ReadsRxData(acc)
Moves(c, m, acc, cb) ==
  /\ cb \in BOOLEAN /\ Cycle(acc, cb) /\ Goto(c, m)
  /\ queue' = queue /\ enq' = enq /\ byte' = byte /\ src' = src
  /\ m \in FillLabels => pc[c] \in FillLabels
  /\ c = "thread" => /\ m \in BootLabels => pc[c] \in BootLabels
                     /\ m \in EnableLabels => pc[c] \in EnableLabels
  /\ m = "rx_data" => rx_has_data
Quietly == \E c \in Contexts : \E m, acc, cb : Harmless(acc) /\ Moves(c, m, acc, cb)

\* The accesses that neither start a byte nor take one.
LEMMA HarmlessAccesses ==
  /\ Harmless(NoAcc)
  /\ \A a : a # "RX_DATA" => Harmless(Read(a))
  /\ \A a, d : a # "TX_DATA" => Harmless(Write(a, d))
  BY DEF NoAcc, Read, Write, Writes, ReadsRxData, Harmless

\* Most steps are such.
LEMMA QuietSteps ==
  ASSUME EventInv, NEW c \in Contexts,
         \/ RxStatus(c) \/ FillStatus(c) \/ DisRead(c) \/ DisWrite(c)
         \/ InitEnable \/ InitPending \/ PollStatus \/ EnRead \/ EnClear \/ EnWrite \/ Prime
         \/ Handler
  PROVE  Quietly
  <1>0. /\ "thread" \in Contexts /\ "isr" \in Contexts /\ Primed \in BOOLEAN
        /\ AfterCallback("thread") = "idle" /\ AfterCallback("isr") = "isr_next"
        /\ c = "thread" \/ c = "isr"
    BY Labels, Zenon DEF EventInv, Types, Primed
  <1>1. ASSUME RxStatus(c) PROVE Quietly
    <2> DEFINE acc == Read("RX_STATUS")
               m == IF rx_has_data THEN "rx_data" ELSE "tx_status"
    <2>1. /\ Cycle(acc, FALSE) /\ Goto(c, m) /\ queue' = queue /\ enq' = enq /\ byte' = byte
          /\ src' = src /\ pc[c] = "rx_status"
      BY <1>1, Zenon DEF RxStatus, Access, Runs
    <2>2. Harmless(acc)
      BY HarmlessAccesses, Zenon
    <2>3. /\ m \in FillLabels => pc[c] \in FillLabels
          /\ m = "rx_data" => rx_has_data
          /\ c = "thread" /\ m \in BootLabels => pc[c] \in BootLabels
          /\ c = "thread" /\ m \in EnableLabels => pc[c] \in EnableLabels
      BY <1>0, <2>1, Zenon DEF FillLabels, BootLabels, EnableLabels
    <2> HIDE DEF acc, m
    <2>4. Moves(c, m, acc, FALSE)
      BY <1>0, <2>1, <2>3, ZenonT(30) DEF Moves
    <2> QED BY <1>0, <2>2, <2>4, ZenonT(30) DEF Quietly
  <1>2. ASSUME FillStatus(c) PROVE Quietly
    <2> DEFINE acc == Read("TX_STATUS")
               m == IF tx_ready THEN "fill_write" ELSE AfterCallback(c)
    <2>1. /\ Cycle(acc, FALSE) /\ Goto(c, m) /\ queue' = queue /\ enq' = enq /\ byte' = byte
          /\ src' = src /\ pc[c] = "fill_status"
      BY <1>2, Zenon DEF FillStatus, Access, Runs
    <2>2. Harmless(acc)
      BY HarmlessAccesses, Zenon
    <2>3. /\ m \in FillLabels => pc[c] \in FillLabels
          /\ m = "rx_data" => rx_has_data
          /\ c = "thread" /\ m \in BootLabels => pc[c] \in BootLabels
          /\ c = "thread" /\ m \in EnableLabels => pc[c] \in EnableLabels
      BY <1>0, <2>1, Zenon DEF FillLabels, BootLabels, EnableLabels
    <2> HIDE DEF acc, m
    <2>4. Moves(c, m, acc, FALSE)
      BY <1>0, <2>1, <2>3, Zenon DEF Moves
    <2> QED BY <1>0, <2>2, <2>4, ZenonT(30) DEF Quietly
  <1>3. ASSUME DisRead(c) PROVE Quietly
    <2> DEFINE acc == Read("ENABLE")
               m == "dis_write"
    <2>1. /\ Cycle(acc, FALSE) /\ Goto(c, m) /\ queue' = queue /\ enq' = enq /\ byte' = byte
          /\ src' = src /\ pc[c] = "dis_read"
      BY <1>3, Zenon DEF DisRead, Access, Runs
    <2>2. Harmless(acc)
      BY HarmlessAccesses, Zenon
    <2>3. /\ m \in FillLabels => pc[c] \in FillLabels
          /\ m = "rx_data" => rx_has_data
          /\ c = "thread" /\ m \in BootLabels => pc[c] \in BootLabels
          /\ c = "thread" /\ m \in EnableLabels => pc[c] \in EnableLabels
      BY <1>0, <2>1, Zenon DEF FillLabels, BootLabels, EnableLabels
    <2> HIDE DEF acc, m
    <2>4. Moves(c, m, acc, FALSE)
      BY <1>0, <2>1, <2>3, Zenon DEF Moves
    <2> QED BY <1>0, <2>2, <2>4, ZenonT(30) DEF Quietly
  <1>4. ASSUME DisWrite(c) PROVE Quietly
    <2> DEFINE acc == Write("ENABLE", reg[c] \ {"TX"})
               m == AfterCallback(c)
    <2>1. /\ Cycle(acc, FALSE) /\ Goto(c, m) /\ queue' = queue /\ enq' = enq /\ byte' = byte
          /\ src' = src /\ pc[c] = "dis_write"
      BY <1>4, Zenon DEF DisWrite, Access, Runs
    <2>2. Harmless(acc)
      BY HarmlessAccesses, Zenon
    <2>3. /\ m \in FillLabels => pc[c] \in FillLabels
          /\ m = "rx_data" => rx_has_data
          /\ c = "thread" /\ m \in BootLabels => pc[c] \in BootLabels
          /\ c = "thread" /\ m \in EnableLabels => pc[c] \in EnableLabels
      BY <1>0, <2>1, Zenon DEF FillLabels, BootLabels, EnableLabels
    <2> HIDE DEF acc, m
    <2>4. Moves(c, m, acc, FALSE)
      BY <1>0, <2>1, <2>3, Zenon DEF Moves
    <2> QED BY <1>0, <2>2, <2>4, ZenonT(30) DEF Quietly
  <1>5. ASSUME InitEnable PROVE Quietly
    <2> DEFINE acc == Write("ENABLE", {})
               m == "init_pending"
    <2>1. /\ Cycle(acc, FALSE) /\ Goto("thread", m) /\ queue' = queue /\ enq' = enq /\ byte' = byte
          /\ src' = src /\ pc["thread"] = "init_enable"
      BY <1>5, Zenon DEF InitEnable, Access, Runs
    <2>2. Harmless(acc)
      BY HarmlessAccesses, Zenon
    <2>3. /\ m \in FillLabels => pc["thread"] \in FillLabels
          /\ m = "rx_data" => rx_has_data
          /\ "thread" = "thread" /\ m \in BootLabels => pc["thread"] \in BootLabels
          /\ "thread" = "thread" /\ m \in EnableLabels => pc["thread"] \in EnableLabels
      BY <1>0, <2>1, Zenon DEF FillLabels, BootLabels, EnableLabels
    <2> HIDE DEF acc, m
    <2>4. Moves("thread", m, acc, FALSE)
      BY <1>0, <2>1, <2>3, ZenonT(30) DEF Moves
    <2> QED BY <1>0, <2>2, <2>4, ZenonT(30) DEF Quietly
  <1>6. ASSUME InitPending PROVE Quietly
    <2> DEFINE acc == Write("PENDING", Sources)
               m == "poll_status"
    <2>1. /\ Cycle(acc, FALSE) /\ Goto("thread", m) /\ queue' = queue /\ enq' = enq /\ byte' = byte
          /\ src' = src /\ pc["thread"] = "init_pending"
      BY <1>6, Zenon DEF InitPending, Access, Runs
    <2>2. Harmless(acc)
      BY HarmlessAccesses, Zenon
    <2>3. /\ m \in FillLabels => pc["thread"] \in FillLabels
          /\ m = "rx_data" => rx_has_data
          /\ "thread" = "thread" /\ m \in BootLabels => pc["thread"] \in BootLabels
          /\ "thread" = "thread" /\ m \in EnableLabels => pc["thread"] \in EnableLabels
      BY <1>0, <2>1, Zenon DEF FillLabels, BootLabels, EnableLabels
    <2> HIDE DEF acc, m
    <2>4. Moves("thread", m, acc, FALSE)
      BY <1>0, <2>1, <2>3, Zenon DEF Moves
    <2> QED BY <1>0, <2>2, <2>4, ZenonT(30) DEF Quietly
  <1>7. ASSUME PollStatus PROVE Quietly
    <2> DEFINE acc == Read("TX_STATUS")
               m == IF tx_ready THEN "poll_write" ELSE "poll_status"
    <2>1. /\ Cycle(acc, FALSE) /\ Goto("thread", m) /\ queue' = queue /\ enq' = enq /\ byte' = byte
          /\ src' = src /\ pc["thread"] = "poll_status"
      BY <1>7, Zenon DEF PollStatus, Access, Runs
    <2>2. Harmless(acc)
      BY HarmlessAccesses, Zenon
    <2>3. /\ m \in FillLabels => pc["thread"] \in FillLabels
          /\ m = "rx_data" => rx_has_data
          /\ "thread" = "thread" /\ m \in BootLabels => pc["thread"] \in BootLabels
          /\ "thread" = "thread" /\ m \in EnableLabels => pc["thread"] \in EnableLabels
      BY <1>0, <2>1, Zenon DEF FillLabels, BootLabels, EnableLabels
    <2> HIDE DEF acc, m
    <2>4. Moves("thread", m, acc, FALSE)
      BY <1>0, <2>1, <2>3, ZenonT(30) DEF Moves
    <2> QED BY <1>0, <2>2, <2>4, ZenonT(30) DEF Quietly
  <1>8. ASSUME EnRead PROVE Quietly
    <2> DEFINE acc == Read("ENABLE")
               m == "en_clear"
    <2>1. /\ Cycle(acc, FALSE) /\ Goto("thread", m) /\ queue' = queue /\ enq' = enq /\ byte' = byte
          /\ src' = src /\ pc["thread"] = "en_read"
      BY <1>8, ZenonT(30) DEF EnRead, Access, Runs
    <2>2. Harmless(acc)
      BY HarmlessAccesses, Zenon
    <2>3. /\ m \in FillLabels => pc["thread"] \in FillLabels
          /\ m = "rx_data" => rx_has_data
          /\ "thread" = "thread" /\ m \in BootLabels => pc["thread"] \in BootLabels
          /\ "thread" = "thread" /\ m \in EnableLabels => pc["thread"] \in EnableLabels
      BY <1>0, <2>1, Zenon DEF FillLabels, BootLabels, EnableLabels
    <2> HIDE DEF acc, m
    <2>4. Moves("thread", m, acc, FALSE)
      BY <1>0, <2>1, <2>3, Zenon DEF Moves
    <2> QED BY <1>0, <2>2, <2>4, ZenonT(30) DEF Quietly
  <1>9. ASSUME EnClear PROVE Quietly
    <2> DEFINE acc == Write("PENDING", {src})
               m == "en_write"
    <2>1. /\ Cycle(acc, FALSE) /\ Goto("thread", m) /\ queue' = queue /\ enq' = enq /\ byte' = byte
          /\ src' = src /\ pc["thread"] = "en_clear"
      BY <1>9, Zenon DEF EnClear, Access, Runs
    <2>2. Harmless(acc)
      BY HarmlessAccesses, Zenon
    <2>3. /\ m \in FillLabels => pc["thread"] \in FillLabels
          /\ m = "rx_data" => rx_has_data
          /\ "thread" = "thread" /\ m \in BootLabels => pc["thread"] \in BootLabels
          /\ "thread" = "thread" /\ m \in EnableLabels => pc["thread"] \in EnableLabels
      BY <1>0, <2>1, Zenon DEF FillLabels, BootLabels, EnableLabels
    <2> HIDE DEF acc, m
    <2>4. Moves("thread", m, acc, FALSE)
      BY <1>0, <2>1, <2>3, Zenon DEF Moves
    <2> QED BY <1>0, <2>2, <2>4, ZenonT(30) DEF Quietly
  <1>10. ASSUME EnWrite PROVE Quietly
    <2> DEFINE acc == Write("ENABLE", reg["thread"] \cup {src})
               m == IF src = "TX" THEN "prime" ELSE "idle"
    <2>1. /\ Cycle(acc, FALSE) /\ Goto("thread", m) /\ queue' = queue /\ enq' = enq /\ byte' = byte
          /\ src' = src /\ pc["thread"] = "en_write"
      BY <1>10, Zenon DEF EnWrite, Access, Runs
    <2>2. Harmless(acc)
      BY HarmlessAccesses, ZenonT(30)
    <2>3. /\ m \in FillLabels => pc["thread"] \in FillLabels
          /\ m = "rx_data" => rx_has_data
          /\ "thread" = "thread" /\ m \in BootLabels => pc["thread"] \in BootLabels
          /\ "thread" = "thread" /\ m \in EnableLabels => pc["thread"] \in EnableLabels
      BY <1>0, <2>1, Zenon DEF FillLabels, BootLabels, EnableLabels
    <2> HIDE DEF acc, m
    <2>4. Moves("thread", m, acc, FALSE)
      BY <1>0, <2>1, <2>3, ZenonT(30) DEF Moves
    <2> QED BY <1>0, <2>2, <2>4, ZenonT(30) DEF Quietly
  <1>11. ASSUME Prime PROVE Quietly
    <2> DEFINE acc == Read("TX_STATUS")
               m == IF Primed THEN "rx_status" ELSE "idle"
    <2>1. /\ Cycle(acc, Primed) /\ Goto("thread", m) /\ queue' = queue /\ enq' = enq /\ byte' = byte
          /\ src' = src /\ pc["thread"] = "prime"
      BY <1>11, ZenonT(30) DEF Prime, Access, Runs
    <2>2. Harmless(acc)
      BY HarmlessAccesses, Zenon
    <2>3. /\ m \in FillLabels => pc["thread"] \in FillLabels
          /\ m = "rx_data" => rx_has_data
          /\ "thread" = "thread" /\ m \in BootLabels => pc["thread"] \in BootLabels
          /\ "thread" = "thread" /\ m \in EnableLabels => pc["thread"] \in EnableLabels
      BY <1>0, <2>1, Zenon DEF FillLabels, BootLabels, EnableLabels
    <2> HIDE DEF acc, m
    <2>4. Moves("thread", m, acc, Primed)
      BY <1>0, <2>1, <2>3, ZenonT(30) DEF Moves
    <2> QED BY <1>0, <2>2, <2>4, ZenonT(30) DEF Quietly
  <1>12. ASSUME TrapEntry PROVE Quietly
    <2> DEFINE acc == NoAcc
               m == "isr_pending"
    <2>1. /\ Cycle(acc, FALSE) /\ Goto("isr", m) /\ queue' = queue /\ enq' = enq /\ byte' = byte
          /\ src' = src
      BY <1>12, Zenon DEF TrapEntry, Access, Runs
    <2>2. Harmless(acc)
      BY HarmlessAccesses, Zenon
    <2>3. /\ m \in FillLabels => pc["isr"] \in FillLabels
          /\ m = "rx_data" => rx_has_data
      BY <1>0, <2>1, ZenonT(30) DEF FillLabels, BootLabels, EnableLabels
    <2> HIDE DEF acc, m
    <2>4. Moves("isr", m, acc, FALSE)
      BY <1>0, <2>1, <2>3, ZenonT(30) DEF Moves
    <2> QED BY <1>0, <2>2, <2>4, ZenonT(30) DEF Quietly
  <1>13. ASSUME IsrPending PROVE Quietly
    <2> DEFINE acc == Read("PENDING")
               m == "isr_enable"
    <2>1. /\ Cycle(acc, FALSE) /\ Goto("isr", m) /\ queue' = queue /\ enq' = enq /\ byte' = byte
          /\ src' = src /\ pc["isr"] = "isr_pending"
      BY <1>13, Zenon DEF IsrPending, Access, Runs
    <2>2. Harmless(acc)
      BY HarmlessAccesses, Zenon
    <2>3. /\ m \in FillLabels => pc["isr"] \in FillLabels
          /\ m = "rx_data" => rx_has_data
      BY <1>0, <2>1, Zenon DEF FillLabels, BootLabels, EnableLabels
    <2> HIDE DEF acc, m
    <2>4. Moves("isr", m, acc, FALSE)
      BY <1>0, <2>1, <2>3, ZenonT(30) DEF Moves
    <2> QED BY <1>0, <2>2, <2>4, ZenonT(30) DEF Quietly
  <1>14. ASSUME IsrEnable PROVE Quietly
    <2> DEFINE acc == Read("ENABLE")
               m == "isr_clear"
    <2>1. /\ Cycle(acc, FALSE) /\ Goto("isr", m) /\ queue' = queue /\ enq' = enq /\ byte' = byte
          /\ src' = src /\ pc["isr"] = "isr_enable"
      BY <1>14, Zenon DEF IsrEnable, Access, Runs
    <2>2. Harmless(acc)
      BY HarmlessAccesses, Zenon
    <2>3. /\ m \in FillLabels => pc["isr"] \in FillLabels
          /\ m = "rx_data" => rx_has_data
      BY <1>0, <2>1, Zenon DEF FillLabels, BootLabels, EnableLabels
    <2> HIDE DEF acc, m
    <2>4. Moves("isr", m, acc, FALSE)
      BY <1>0, <2>1, <2>3, Zenon DEF Moves
    <2> QED BY <1>0, <2>2, <2>4, ZenonT(30) DEF Quietly
  <1>15. ASSUME IsrClear PROVE Quietly
    <2> DEFINE acc == Write("PENDING", ClearedByIsr)
               m == "isr_next"
    <2>1. /\ Cycle(acc, FALSE) /\ Goto("isr", m) /\ queue' = queue /\ enq' = enq /\ byte' = byte
          /\ src' = src /\ pc["isr"] = "isr_clear"
      BY <1>15, Zenon DEF IsrClear, Access, Runs
    <2>2. Harmless(acc)
      BY HarmlessAccesses, Zenon
    <2>3. /\ m \in FillLabels => pc["isr"] \in FillLabels
          /\ m = "rx_data" => rx_has_data
      BY <1>0, <2>1, Zenon DEF FillLabels, BootLabels, EnableLabels
    <2> HIDE DEF acc, m
    <2>4. Moves("isr", m, acc, FALSE)
      BY <1>0, <2>1, <2>3, Zenon DEF Moves
    <2> QED BY <1>0, <2>2, <2>4, ZenonT(30) DEF Quietly
  <1>16. ASSUME IsrDispatch PROVE Quietly
    <2> DEFINE acc == NoAcc
               m == "rx_status"
    <2>1. /\ Cycle(acc, TRUE) /\ Goto("isr", m) /\ queue' = queue /\ enq' = enq /\ byte' = byte
          /\ src' = src /\ pc["isr"] = "isr_next"
      BY <1>16, ZenonT(30) DEF IsrDispatch, Access, Runs
    <2>2. Harmless(acc)
      BY HarmlessAccesses, Zenon
    <2>3. /\ m \in FillLabels => pc["isr"] \in FillLabels
          /\ m = "rx_data" => rx_has_data
      BY <1>0, <2>1, Zenon DEF FillLabels, BootLabels, EnableLabels
    <2> HIDE DEF acc, m
    <2>4. Moves("isr", m, acc, TRUE)
      BY <1>0, <2>1, <2>3, ZenonT(30) DEF Moves
    <2> QED BY <1>0, <2>2, <2>4, ZenonT(30) DEF Quietly
  <1>17. ASSUME IsrReturn PROVE Quietly
    <2> DEFINE acc == NoAcc
               m == "off"
    <2>1. /\ Cycle(acc, FALSE) /\ Goto("isr", m) /\ queue' = queue /\ enq' = enq /\ byte' = byte
          /\ src' = src /\ pc["isr"] = "isr_next"
      BY <1>17, Zenon DEF IsrReturn, Access, Runs
    <2>2. Harmless(acc)
      BY HarmlessAccesses, Zenon
    <2>3. /\ m \in FillLabels => pc["isr"] \in FillLabels
          /\ m = "rx_data" => rx_has_data
      BY <1>0, <2>1, Zenon DEF FillLabels, BootLabels, EnableLabels
    <2> HIDE DEF acc, m
    <2>4. Moves("isr", m, acc, FALSE)
      BY <1>0, <2>1, <2>3, Zenon DEF Moves
    <2> QED BY <1>0, <2>2, <2>4, ZenonT(30) DEF Quietly
  <1> QED BY <1>1, <1>2, <1>3, <1>4, <1>5, <1>6, <1>7, <1>8, <1>9, <1>10, <1>11, <1>12, <1>13, <1>14, <1>15, <1>16, <1>17, ZenonT(30) DEF Handler

\* A step that moves one context and touches neither the queue nor the transmitter.
LEMMA MoveSend ==
  ASSUME EventInv, SendInv, NEW c \in Contexts, NEW m, NEW acc, NEW cb, acc.we \in BOOLEAN,
         ~Writes(acc, "TX_DATA"), Moves(c, m, acc, cb)
  PROVE  SendInv'
  <1>1. /\ cb \in BOOLEAN /\ Cycle(acc, cb) /\ Goto(c, m)
        /\ queue' = queue /\ enq' = enq /\ byte' = byte /\ src' = src
        /\ m \in FillLabels => pc[c] \in FillLabels
        /\ c = "thread" /\ m \in BootLabels => pc[c] \in BootLabels
        /\ c = "thread" /\ m \in EnableLabels => pc[c] \in EnableLabels
    BY Zenon DEF Moves
  <1>2. /\ c = "thread" => pc'["thread"] = m
        /\ c = "isr" => pc'["thread"] = pc["thread"]
        /\ c = "thread" \/ c = "isr"
    BY <1>1, Labels, Zenon DEF Goto, EventInv, Types
  <1>3. Booting' => Booting
    BY <1>1, <1>2, Zenon DEF Booting
  <1>4. locked => FillInv'
    BY <1>1, Holds, Zenon DEF FillLabels
  <1>5. byte' \in [Contexts -> Nat]
    BY <1>1, Zenon DEF SendInv, SendTypes
  <1> QED BY <1>1, <1>3, <1>4, <1>5, QuietSend, ZenonT(30)

\* Reading a received byte.
LEMMA ReceiveSend ==
  ASSUME EventInv, SendInv, NEW c \in Contexts, RxData(c)
  PROVE  SendInv'
  <1> DEFINE acc == Read("RX_DATA")
  <1>1. /\ Cycle(acc, FALSE) /\ Goto(c, "rx_status") /\ queue' = queue /\ enq' = enq
        /\ byte' = byte /\ src' = src
    BY Zenon DEF RxData, Access
  <1>2. acc.we \in BOOLEAN /\ ~Writes(acc, "TX_DATA")
    BY Accesses, ZenonT(30)
  <1>3. "rx_status" \notin FillLabels \cup BootLabels \cup EnableLabels
    BY Zenon DEF FillLabels, BootLabels, EnableLabels
  <1> HIDE DEF acc
  <1>4. Moves(c, "rx_status", acc, FALSE)
    BY <1>1, <1>3, Zenon DEF Moves
  <1> QED BY <1>2, <1>4, MoveSend, Zenon

\* The callback takes the first byte of the queue.
LEMMA TakeSend ==
  ASSUME EventInv, SendInv, NEW c \in Contexts, TxStatus(c)
  PROVE  SendInv'
  <1> DEFINE acc == Read("TX_STATUS")
             m == CASE ~tx_ready -> AfterCallback(c)
                    [] tx_ready /\ queue = <<>> -> "dis_read"
                    [] OTHER -> "fill_status"
  <1>1. /\ Cycle(acc, FALSE) /\ Goto(c, m) /\ queue' = queue /\ enq' = enq /\ src' = src
        /\ byte' = IF tx_ready /\ queue # <<>> THEN [byte EXCEPT ![c] = Head(queue)] ELSE byte
        /\ pc[c] = "tx_status" /\ (c = "thread" => pc["isr"] = "off")
    BY Zenon DEF TxStatus, Access, Runs
  <1>2. acc.we \in BOOLEAN /\ ~Writes(acc, "TX_DATA")
    BY Accesses, ZenonT(30)
  <1>3. m \in {AfterCallback(c), "dis_read", "fill_status"}
        /\ (m = "fill_status" => tx_ready /\ queue # <<>>)
    <2>1. CASE ~tx_ready
      BY <2>1, Labels, Zenon
    <2>2. CASE tx_ready /\ queue = <<>>
      BY <2>2, Zenon
    <2>3. CASE tx_ready /\ queue # <<>>
      BY <2>3, Zenon
    <2> QED BY <2>1, <2>2, <2>3, Zenon
  <1> HIDE DEF acc, m
  <1>4. m \notin BootLabels \cup EnableLabels /\ m # "fill_write"
    BY <1>3, Labels, Zenon DEF BootLabels, EnableLabels
  <1>5. pc \in [Contexts -> ThreadLabels \cup IsrLabels] /\ byte \in [Contexts -> Nat]
    BY Zenon DEF EventInv, Types, SendInv, SendTypes
  <1>6. queue # <<>> => Head(queue) \in Nat
    BY HeadTailProperties DEF SendInv, SendTypes
  <1>7. byte' \in [Contexts -> Nat]
    BY <1>1, <1>5, <1>6, Zenon
  <1>8. Booting' => Booting
    BY <1>1, <1>4, <1>5, Labels, ZenonT(30) DEF Goto, Booting
  <1>9. ASSUME locked PROVE FillInv'
    <2> SUFFICES ASSUME NEW d \in Contexts, pc'[d] \in FillLabels
                 PROVE  queue' # <<>> /\ byte'[d] = Head(queue')
      BY Zenon DEF FillInv, FillLabels
    <2>1. CASE d = c
      <3>1. m = "fill_status"
        BY <1>1, <1>4, <1>5, <2>1, ZenonT(30) DEF Goto, FillLabels
      <3> QED BY <1>1, <1>3, <1>5, <2>1, <3>1, ZenonT(30)
    <2>2. CASE d # c
      <3>1. pc[d] \in FillLabels
        BY <1>1, <1>5, <2>2, Zenon DEF Goto
      <3>2. queue # <<>> /\ byte[d] = Head(queue)
        BY <1>9, <3>1, Zenon DEF SendInv, FillInv, FillLabels
      <3> QED BY <1>1, <1>5, <2>2, <3>2, ZenonT(30)
    <2> QED BY <2>1, <2>2, Zenon
  <1> QED BY <1>1, <1>2, <1>7, <1>8, <1>9, QuietSend, Zenon

\* What is on the line, in the transmitter and queued.
OnLine(s, x, q, n) == s \o x \o q = UpTo(n)

\* A byte is handed to the transmitter: it starts when the byte before is on the line.
LEMMA StartSend ==
  ASSUME EventInv, SendInv, NEW acc, NEW cb \in BOOLEAN, acc.we \in BOOLEAN, Cycle(acc, cb),
         Writes(acc, "TX_DATA"), acc.wdata \in Nat, queue' \in Seq(Nat), enq' \in Nat,
         byte' = byte, bus = "free", Booting' => queue' = <<>>,
         locked => tx_ready /\ FillInv',
         locked /\ OnLine(sent, <<>>, queue, enq) =>
           OnLine(sent, <<acc.wdata>>, queue', enq')
  PROVE  SendInv'
  <1>1. Types /\ TxTiming /\ SendTypes
    BY Zenon DEF EventInv, SendInv
  <1>2. ~tx_start
    BY <1>1, Zenon DEF TxTiming, Types
  <1>3. /\ locked' = locked /\ tx_start' /\ tx_data' = acc.wdata /\ sent' = sent
        /\ tx_state = "IDLE" => tx_state' = "IDLE"
    BY <1>1, <1>2, Effects, Zenon
  <1>4. SendTypes'
    BY <1>1, <1>3, Zenon DEF SendTypes
  <1>5. tx_ready => tx_state = "IDLE"
    BY <1>1, Zenon DEF TxTiming, Types
  <1>6. locked => StartInv'
    BY <1>3, <1>5, Zenon DEF StartInv
  <1>7. locked => InOrderOnLine'
    <2> SUFFICES ASSUME locked PROVE InOrderOnLine'
      OBVIOUS
    <2>1. OnLine(sent, <<>>, queue, enq)
      BY <1>2, Zenon DEF SendInv, InOrderOnLine, OnLine
    <2>2. sent' \o <<tx_data'>> \o queue' = UpTo(enq')
      BY <1>3, <2>1, ZenonT(30) DEF OnLine
    <2> QED BY <1>3, <2>2, ZenonT(30) DEF InOrderOnLine, UpTo
  <1> QED BY <1>3, <1>4, <1>6, <1>7, ZenonT(30) DEF SendInv

\* uart_fifo_fill writes the first byte of the queue.
LEMMA FillSend ==
  ASSUME EventInv, SendInv, NEW c \in Contexts, FillWrite(c)
  PROVE  SendInv'
  <1> DEFINE d == byte[c]
             acc == Write("TX_DATA", d)
  <1>1. /\ Cycle(acc, FALSE) /\ Goto(c, AfterCallback(c)) /\ enq' = enq /\ byte' = byte
        /\ src' = src /\ queue' = IF queue = <<>> THEN queue ELSE Tail(queue)
        /\ pc[c] = "fill_write" /\ bus = "free" /\ (c = "thread" => pc["isr"] = "off")
    BY Zenon DEF FillWrite, Access, Runs
  <1>2. d \in Nat /\ queue \in Seq(Nat) /\ enq \in Nat /\ sent \in Seq(Nat)
    BY Zenon DEF SendInv, SendTypes
  <1>3. pc \in [Contexts -> ThreadLabels \cup IsrLabels] /\ (c = "thread" \/ c = "isr")
    BY Labels, Zenon DEF EventInv, Types
  <1>4. locked => queue # <<>> /\ d = Head(queue)
    BY <1>1, Zenon DEF SendInv, FillInv
  <1> HIDE DEF d
  <1>5. acc.we \in BOOLEAN /\ Writes(acc, "TX_DATA") /\ acc.wdata = d
    BY Accesses, ZenonT(30)
  <1> HIDE DEF acc
  <1>6. queue' \in Seq(Nat)
    BY <1>1, <1>2, HeadTailProperties
  <1>7. Booting' => queue' = <<>>
    <2>1. Booting' => Booting
      BY <1>1, <1>3, Labels, Zenon DEF Goto, Booting, BootLabels, EnableLabels
    <2> QED BY <1>1, <2>1, Zenon DEF SendInv
  <1>8. ASSUME locked
        PROVE  /\ tx_ready /\ FillInv'
               /\ OnLine(sent, <<>>, queue, enq) => OnLine(sent, <<acc.wdata>>, queue', enq')
    <2>1. tx_ready
      BY <1>1, <1>3, <1>8, ZenonT(30) DEF EventInv, SureInv, Sure
    <2>2. /\ c = "thread" => pc'["thread"] = "idle" /\ pc'["isr"] = "off"
          /\ c = "isr" => pc'["thread"] = "idle" /\ pc'["isr"] = "isr_next"
      BY <1>1, <1>3, <1>8, Labels, ZenonT(30) DEF Goto, EventInv, LockInv
    <2>3. \A k \in Contexts : pc'[k] \notin {"fill_status", "fill_write"}
      BY <1>3, <2>2, Labels, ZenonT(30)
    <2>4. FillInv'
      BY <2>3, Zenon DEF FillInv
    <2>5. sent \o <<Head(queue)>> \o Tail(queue) = sent \o <<>> \o queue
      BY <1>2, <1>4, <1>8, LineTakes, SMTT(30)
    <2> QED BY <1>1, <1>4, <1>5, <1>8, <2>1, <2>4, <2>5, Zenon DEF OnLine
  <1>9. enq' \in Nat
    BY <1>1, <1>2, Zenon
  <1>10. bus = "free" /\ byte' = byte /\ acc.wdata \in Nat /\ Cycle(acc, FALSE)
         /\ FALSE \in BOOLEAN
    BY <1>1, <1>2, <1>5, Zenon
  <1>11. (locked => tx_ready /\ FillInv') /\ (locked /\ OnLine(sent, <<>>, queue, enq) =>
           OnLine(sent, <<acc.wdata>>, queue', enq'))
    BY <1>8, ZenonT(30)
  <1> QED BY ONLY EventInv, SendInv, <1>5, <1>6, <1>7, <1>9, <1>10, <1>11, StartSend, ZenonT(30)

\* uart_poll_out writes the next byte; nothing is queued yet.
LEMMA PollSend ==
  ASSUME EventInv, SendInv, PollWrite
  PROVE  SendInv'
  <1> DEFINE d == enq + 1
             acc == Write("TX_DATA", d)
             m == IF enq + 1 < NPoll THEN "poll_status" ELSE "en_read"
  <1>1. /\ Cycle(acc, FALSE) /\ Goto("thread", m) /\ enq' = d /\ byte' = byte
        /\ queue' = queue /\ bus = "free" /\ pc["thread"] = "poll_write" /\ pc["isr"] = "off"
    BY Zenon DEF PollWrite, Access, Runs
  <1>2. d \in Nat /\ queue \in Seq(Nat) /\ enq \in Nat /\ sent \in Seq(Nat) /\ queue = <<>>
    BY DEF SendInv, SendTypes, Booting, BootLabels, PollWrite, Runs
  <1>3. pc \in [Contexts -> ThreadLabels \cup IsrLabels]
    BY Zenon DEF EventInv, Types
  <1>4. m \notin {"fill_status", "fill_write"}
    BY Zenon
  <1>5. sent \o <<>> \o queue = UpTo(enq) => sent \o <<d>> \o <<>> = UpTo(d)
    BY <1>2, LineGrows, ZenonT(30)
  <1> HIDE DEF d, m
  <1>6. acc.we \in BOOLEAN /\ Writes(acc, "TX_DATA") /\ acc.wdata = d
    BY Accesses, ZenonT(30)
  <1> HIDE DEF acc
  <1>7. ASSUME locked PROVE tx_ready /\ FillInv'
    <2>1. \A k \in Contexts : pc'[k] \notin {"fill_status", "fill_write"}
      BY <1>1, <1>3, <1>4, Labels, Zenon DEF Goto
    <2> QED BY <1>1, <1>7, <2>1, Zenon DEF EventInv, SureInv, Sure, FillInv
  <1>8. enq' \in Nat /\ queue' \in Seq(Nat) /\ queue' = <<>>
    BY <1>1, <1>2, Zenon
  <1>9. OnLine(sent, <<>>, queue, enq) => OnLine(sent, <<acc.wdata>>, queue', enq')
    BY <1>1, <1>5, <1>6, <1>8, ZenonT(30) DEF OnLine
  <1>10. bus = "free" /\ byte' = byte /\ acc.wdata \in Nat /\ Cycle(acc, FALSE)
         /\ FALSE \in BOOLEAN
    BY <1>1, <1>2, <1>6, ZenonT(30)
  <1> QED BY ONLY EventInv, SendInv, <1>6, <1>7, <1>8, <1>9, <1>10, StartSend, ZenonT(30)

\* The application queues a byte.
LEMMA EnqueueSend ==
  ASSUME EventInv, SendInv, Enqueue
  PROVE  SendInv'
  <1>1. /\ Cycle(NoAcc, FALSE) /\ Goto("thread", "en_read") /\ enq' = enq + 1 /\ byte' = byte
        /\ queue' = Append(queue, enq + 1) /\ src' = "TX" /\ bus = "free"
        /\ pc["thread"] = "idle" /\ pc["isr"] = "off"
    BY Zenon DEF Enqueue, Runs
  <1>2. NoAcc.we \in BOOLEAN /\ ~Writes(NoAcc, "TX_DATA") /\ FALSE \in BOOLEAN
    BY Accesses, ZenonT(30)
  <1>3. Types /\ TxTiming /\ SendTypes
    BY Zenon DEF EventInv, SendInv
  <1>4. ~tx_start
    BY <1>1, <1>3, Zenon DEF TxTiming, Types
  <1>5. locked' = locked /\ ~tx_start' /\ tx_data' = tx_data /\ sent' = sent
    BY <1>1, <1>2, <1>3, <1>4, Effects, Zenon
  <1>6. SendTypes'
    <2>1. Append(queue, enq + 1) \in Seq(Nat) /\ enq + 1 \in Nat
      BY <1>3 DEF SendTypes
    <2> QED BY <1>1, <1>3, <1>5, <2>1, Zenon DEF SendTypes
  <1>7. pc'["thread"] = "en_read" /\ pc'["isr"] = "off"
    BY <1>1, <1>3, Labels, Zenon DEF Goto, Types
  <1>8. ~Booting'
    BY <1>1, <1>7, Zenon DEF Booting, BootLabels
  <1>9. FillInv'
    BY <1>7, Labels, ZenonT(30) DEF FillInv
  <1>10. locked => InOrderOnLine'
    <2> SUFFICES ASSUME locked PROVE InOrderOnLine'
      OBVIOUS
    <2>1. sent \o <<>> \o queue = UpTo(enq)
      BY <1>4, ZenonT(30) DEF SendInv, InOrderOnLine
    <2>2. sent \o <<>> \o Append(queue, enq + 1) = UpTo(enq + 1)
      BY <1>3, <2>1, LineGrows, ZenonT(30) DEF SendTypes
    <2> QED BY <1>1, <1>5, <2>2, ZenonT(30) DEF InOrderOnLine, UpTo
  <1> QED BY <1>5, <1>6, <1>8, <1>9, <1>10, ZenonT(30) DEF SendInv, StartInv

\* A cycle without progress of the software.
LEMMA WaitSend ==
  ASSUME EventInv, SendInv, Wait
  PROVE  SendInv'
  <1>1. Cycle(NoAcc, FALSE) /\ pc' = pc /\ queue' = queue /\ enq' = enq /\ byte' = byte /\ src' = src
    BY Zenon DEF Wait
  <1>2. NoAcc.we \in BOOLEAN /\ ~Writes(NoAcc, "TX_DATA") /\ FALSE \in BOOLEAN
    BY Accesses, ZenonT(30)
  <1>3. (Booting' => Booting) /\ byte' \in [Contexts -> Nat] /\ (locked => FillInv')
    BY <1>1, Zenon DEF Booting, SendInv, SendTypes, FillInv
  <1> QED BY <1>1, <1>2, <1>3, QuietSend, Zenon

\* After reset nothing was sent or queued.
LEMMA SendStart == Init => SendInv
  <1> SUFFICES ASSUME Init PROVE SendInv
    OBVIOUS
  <1>1. /\ queue = <<>> /\ enq = 0 /\ sent = <<>> /\ byte \in [Contexts -> Nat] /\ tx_start = FALSE
        /\ tx_data = 0
    BY DEF Init, UartInit
  <1>2. \A c \in Contexts : pc[c] \in {"init_enable", "off"}
    BY Labels, Zenon DEF Init
  <1>3. SendTypes
    BY <1>1 DEF SendTypes
  <1>4. UpTo(0) = <<>>
    BY DEF UpTo
  <1>5. InOrderOnLine
    BY <1>1, <1>4, SMTT(30) DEF InOrderOnLine
  <1>6. FillInv /\ StartInv
    BY <1>1, <1>2, Zenon DEF FillInv, StartInv
  <1> QED BY <1>1, <1>3, <1>5, <1>6, Zenon DEF SendInv

\* Every cycle keeps what is on the line, in the transmitter and queued in order.
LEMMA SendStep == EventInv /\ SendInv /\ [Next]_vars => SendInv'
  <1> SUFFICES ASSUME EventInv, SendInv, [Next]_vars PROVE SendInv'
    OBVIOUS
  <1>1. ASSUME Quietly PROVE SendInv'
    <2>0. PICK c \in Contexts : \E m, acc, cb : Harmless(acc) /\ Moves(c, m, acc, cb)
      BY <1>1, Zenon DEF Quietly
    <2>1. PICK m, acc, cb : Harmless(acc) /\ Moves(c, m, acc, cb)
      BY <2>0, Zenon
    <2>2. acc.we \in BOOLEAN /\ ~Writes(acc, "TX_DATA")
      BY <2>1, Zenon DEF Harmless
    <2> QED BY <2>1, <2>2, MoveSend
  <1>2. CASE Thread
    <2>1. "thread" \in Contexts
      BY Labels, Zenon
    <2> QED BY <1>1, <1>2, <2>1, QuietSteps, PollSend, EnqueueSend, ZenonT(30) DEF Thread
  <1>3. CASE Handler
    <2>1. "isr" \in Contexts
      BY Labels, Zenon
    <2> QED BY <1>1, <1>3, <2>1, QuietSteps, ZenonT(30)
  <1>4. CASE Callback
    BY <1>1, <1>4, QuietSteps, ReceiveSend, TakeSend, FillSend, ZenonT(30) DEF Callback
  <1>5. CASE Wait
    BY <1>5, WaitSend, Zenon
  <1>6. CASE UNCHANGED vars
    <2>1. /\ byte' = byte /\ enq' = enq /\ queue' = queue /\ sent' = sent /\ tx_data' = tx_data
          /\ pc' = pc /\ src' = src /\ locked' = locked /\ tx_start' = tx_start
          /\ tx_state' = tx_state
      BY <1>6, Zenon DEF vars, uartVars, swVars, history
    <2>2. SendTypes' /\ (Booting' => queue' = <<>>)
      BY <2>1, Zenon DEF SendInv, SendTypes, Booting
    <2>3. locked' => FillInv' /\ StartInv'
      BY <2>1, Zenon DEF SendInv, FillInv, StartInv
    <2>4. locked' => InOrderOnLine'
      BY <2>1, Zenon DEF SendInv, InOrderOnLine, UpTo
    <2> QED BY <2>2, <2>3, <2>4, ZenonT(30) DEF SendInv
  <1> QED BY <1>2, <1>3, <1>4, <1>5, <1>6, ZenonT(30) DEF Next, Software

\* With a thread that locks, every byte handed to the driver goes on the line once and in
\* order, whoever writes it: uart_poll_out, the primed callback or the handler.
THEOREM SentInOrder == Spec => []TransmittedInOrder
  <1>1. SendInv => TransmittedInOrder
    BY Zenon DEF SendInv, TransmittedInOrder
  <1> QED BY <1>1, EventStart, EventStep, SendStart, SendStep, PTL DEF Spec

\* Reception: a byte younger than all before it is appended to what was read.
LEMMA Appended ==
  ASSUME NEW s \in Seq(Nat), NEW h \in Nat, \A v \in Vals(s) : v < h,
         \A j, k \in DOMAIN s : j < k => s[j] < s[k]
  PROVE  /\ Append(s, h) \in Seq(Nat) /\ Vals(Append(s, h)) = Vals(s) \cup {h}
         /\ \A j, k \in DOMAIN Append(s, h) : j < k => Append(s, h)[j] < Append(s, h)[k]
  <1> DEFINE t == Append(s, h)
  <1>1. /\ t \in Seq(Nat) /\ DOMAIN s = 1 .. Len(s) /\ DOMAIN t = 1 .. Len(s) + 1
        /\ \A i \in 1 .. Len(s) : t[i] = s[i]
        /\ t[Len(s) + 1] = h /\ Len(s) \in Nat
    OBVIOUS
  <1> HIDE DEF t
  <1>2. Vals(t) = Vals(s) \cup {h}
    BY <1>1, SMTT(30) DEF Vals
  <1>3. \A j, k \in DOMAIN t : j < k => t[j] < t[k]
    <2> SUFFICES ASSUME NEW j \in 1 .. Len(s) + 1, NEW k \in 1 .. Len(s) + 1, j < k
                 PROVE  t[j] < t[k]
      BY <1>1, Zenon
    <2>1. j \in 1 .. Len(s)
      BY <1>1, SMTT(30)
    <2>2. t[j] = s[j] /\ s[j] \in Vals(s)
      BY <1>1, <2>1, ZenonT(30) DEF Vals
    <2>3. CASE k \in 1 .. Len(s)
      BY <1>1, <2>1, <2>3, ZenonT(30)
    <2>4. CASE k = Len(s) + 1
      BY <1>1, <2>2, <2>4
    <2>5. k \in 1 .. Len(s) \/ k = Len(s) + 1
      <3>1. Len(s) \in Nat
        BY <1>1, Zenon
      <3> QED BY ONLY <3>1, k \in 1 .. Len(s) + 1
    <2> QED BY <2>3, <2>4, <2>5
  <1> QED BY <1>1, <1>2, <1>3, SMTT(30) DEF t

\* What one cycle does to the receiver.
LEMMA RxEffects ==
  ASSUME RecvTypes, NEW acc, NEW cb \in BOOLEAN, Cycle(acc, cb)
  PROVE  /\ \/ ~rx_valid' /\ rx_data' = rx_data /\ arrived' = arrived
            \/ ~rx_valid /\ rx_valid' /\ rx_data' = arrived + 1 /\ arrived' = arrived + 1
         /\ rx_valid' \in BOOLEAN /\ rx_has_data' \in BOOLEAN
         /\ rx_holding' = IF rx_valid THEN rx_data ELSE rx_holding
         /\ rx_has_data' <=> rx_valid \/ (rx_has_data /\ ~ReadsRxData(acc))
         /\ got' = IF ReadsRxData(acc) THEN Append(got, rx_holding) ELSE got
         /\ overrun' = IF rx_valid /\ rx_has_data /\ ~ReadsRxData(acc)
                         THEN overrun \cup {rx_holding} ELSE overrun
         /\ locked' = locked
  <1>1. PICK frameEnd \in BOOLEAN, arrives \in Arrivals :
          /\ UartTick(acc, frameEnd, arrives) /\ Histories(acc, arrives, cb) /\ locked' = locked
    BY Zenon DEF Cycle
  <1>2. /\ rx_valid' = (arrives # <<>>)
        /\ rx_data' = IF arrives # <<>> THEN Head(arrives) ELSE rx_data
        /\ rx_holding' = IF rx_valid THEN rx_data ELSE rx_holding
        /\ rx_has_data' = (rx_valid \/ (rx_has_data /\ ~ReadsRxData(acc)))
        /\ got' = IF ReadsRxData(acc) THEN Append(got, rx_holding) ELSE got
        /\ overrun' = IF rx_valid /\ rx_has_data /\ ~ReadsRxData(acc)
                        THEN overrun \cup {rx_holding} ELSE overrun
        /\ arrived' = arrived + Len(arrives)
    BY <1>1, Zenon DEF UartTick, RxTick, NextHasData, Histories
  <1>3. CASE arrives = <<>>
    <2>1. ~rx_valid' /\ rx_data' = rx_data /\ rx_valid' \in BOOLEAN
      BY <1>2, <1>3, ZenonT(30)
    <2>2. arrived' = arrived
      <3>1. arrived' = arrived + 0
        BY <1>2, <1>3
      <3> QED BY <3>1 DEF RecvTypes
    <2> QED BY <1>1, <1>2, <2>1, <2>2, ZenonT(30)
  <1>4. CASE arrives = <<arrived + 1>> /\ ~rx_valid
    <2>1. arrives # <<>> /\ Head(arrives) = arrived + 1 /\ Len(arrives) = 1
      BY <1>4
    <2>2. rx_valid' /\ rx_data' = arrived + 1 /\ arrived' = arrived + 1 /\ rx_valid' \in BOOLEAN
      BY <1>2, <2>1, Zenon
    <2> QED BY <1>1, <1>2, <1>4, <2>2, ZenonT(30)
  <1> QED BY <1>1, <1>3, <1>4, ZenonT(30) DEF Arrivals

\* The set of the bytes not read and not lost.
LEMMA UnreadIs ==
  /\ rx_has_data /\ rx_valid => Unread = {rx_holding, rx_data}
  /\ rx_has_data /\ ~rx_valid => Unread = {rx_holding}
  /\ ~rx_has_data /\ rx_valid => Unread = {rx_data}
  /\ ~rx_has_data /\ ~rx_valid => Unread = {}
  BY Zenon DEF Unread

\* A cycle keeps the order of the received bytes, provided that RX_DATA is read only
\* when it holds a byte.
LEMMA RecvCycle ==
  ASSUME RecvTypes, HoldInv, ReceivedInOrder, locked, NEW acc, NEW cb \in BOOLEAN,
         Cycle(acc, cb), ReadsRxData(acc) => rx_has_data
  PROVE  /\ RecvTypes' /\ HoldInv' /\ ReceivedInOrder'
         /\ rx_has_data /\ ~ReadsRxData(acc) => rx_has_data'
  <1> DEFINE r == ReadsRxData(acc)
             n == arrived
             V == Vals(got)
  <1>1. /\ \/ ~rx_valid' /\ rx_data' = rx_data /\ arrived' = arrived
           \/ ~rx_valid /\ rx_valid' /\ rx_data' = arrived + 1 /\ arrived' = arrived + 1
        /\ rx_valid' \in BOOLEAN /\ rx_has_data' \in BOOLEAN
        /\ rx_holding' = IF rx_valid THEN rx_data ELSE rx_holding
        /\ rx_has_data' <=> rx_valid \/ (rx_has_data /\ ~r)
        /\ got' = IF r THEN Append(got, rx_holding) ELSE got
        /\ overrun' = IF rx_valid /\ rx_has_data /\ ~r THEN overrun \cup {rx_holding} ELSE overrun
        /\ locked' = locked
    BY RxEffects, ZenonT(30)
  <1>2. /\ got \in Seq(Nat) /\ n \in Nat /\ n + 1 \in Nat
        /\ V = (1 .. n) \ (overrun \cup Unread)
        /\ \A j, k \in DOMAIN got : j < k => got[j] < got[k]
    BY DEF RecvTypes, ReceivedInOrder, Vals
  <1>3. /\ rx_has_data => rx_holding \in 1 .. n
        /\ rx_valid => rx_data = n /\ n # 0
        /\ rx_has_data /\ rx_valid => rx_holding < rx_data
        /\ \A v \in V \cup overrun :
             v \in 1 .. n /\ (rx_has_data => v < rx_holding) /\ (rx_valid => v < rx_data)
    BY Zenon DEF HoldInv
  <1>4. /\ r => rx_has_data /\ rx_holding \in 1 .. n
        /\ rx_has_data => rx_holding \in Nat
    BY <1>2, <1>3
  <1>5. r => /\ Append(got, rx_holding) \in Seq(Nat)
             /\ Vals(Append(got, rx_holding)) = V \cup {rx_holding}
             /\ \A j, k \in DOMAIN Append(got, rx_holding) :
                  j < k => Append(got, rx_holding)[j] < Append(got, rx_holding)[k]
    <2> SUFFICES ASSUME r PROVE /\ rx_holding \in Nat /\ \A v \in V : v < rx_holding
      BY <1>2, Appended, SMTT(30)
    <2> QED BY <1>3, <1>4, ZenonT(30)
  <1>6. /\ got' \in Seq(Nat)
        /\ Vals(got') = IF r THEN V \cup {rx_holding} ELSE V
        /\ \A j, k \in DOMAIN got' : j < k => got'[j] < got'[k]
    <2>1. CASE r
      BY <1>1, <1>5, <2>1, Zenon
    <2>2. CASE ~r
      BY <1>1, <1>2, <2>2, ZenonT(30)
    <2> QED BY <2>1, <2>2, Zenon
  <1>7. RecvTypes'
    BY <1>1, <1>2, <1>6, ZenonT(30) DEF RecvTypes
  <1>8. SUFFICES HoldInv' /\ Vals(got') = (1 .. arrived') \ (overrun' \cup Unread')
    BY <1>1, <1>6, <1>7, ZenonT(30) DEF ReceivedInOrder, Vals
  <1> DEFINE Goal == HoldInv' /\ Vals(got') = (1 .. arrived') \ (overrun' \cup Unread')
  <1> HIDE DEF r, V
  <1>9. ASSUME rx_valid /\ r PROVE Goal
    <2>1. /\ rx_has_data' /\ ~rx_valid' /\ arrived' = n
          /\ rx_holding' = n /\ overrun' = overrun /\ Vals(got') = V \cup {rx_holding}
          /\ rx_has_data
      BY <1>1, <1>3, <1>4, <1>6, <1>9, ZenonT(30)
    <2>2. V = (1 .. n) \ (overrun \cup {rx_holding, n})
      BY <1>2, <1>3, <1>9, <2>1, UnreadIs, ZenonT(30)
    <2>3. Unread' = {n}
      BY <2>1, Zenon DEF Unread
    <2>4. \A v \in V \cup overrun : v \in 1 .. n /\ v < rx_holding /\ v < n
      BY <1>3, <1>9, <2>1, ZenonT(30)
    <2>5. HoldInv'
      BY <1>2, <1>3, <1>9, <2>1, <2>4, SMTT(30) DEF HoldInv
    <2>6. V \cup {rx_holding} = (1 .. n) \ ((overrun) \cup {n})
      BY <1>2, <1>3, <1>9, <2>1, <2>2, <2>4, SMTT(30)
    <2> QED BY <2>1, <2>3, <2>5, <2>6, ZenonT(30)
  <1>10. ASSUME rx_valid /\ ~r /\ rx_has_data PROVE Goal
    <2>1. /\ rx_has_data' /\ ~rx_valid' /\ arrived' = n
          /\ rx_holding' = n /\ overrun' = overrun \cup {rx_holding} /\ Vals(got') = V
          /\ rx_has_data
      BY <1>1, <1>3, <1>4, <1>6, <1>10, ZenonT(30)
    <2>2. V = (1 .. n) \ (overrun \cup {rx_holding, n})
      BY <1>2, <1>3, <1>10, <2>1, UnreadIs, ZenonT(30)
    <2>3. Unread' = {n}
      BY <2>1, Zenon DEF Unread
    <2>4. \A v \in V \cup overrun : v \in 1 .. n /\ v < rx_holding /\ v < n
      BY <1>3, <1>10, <2>1, ZenonT(30)
    <2>5. HoldInv'
      BY <1>2, <1>3, <1>10, <2>1, <2>4, SMTT(30) DEF HoldInv
    <2>6. V = (1 .. n) \ ((overrun \cup {rx_holding}) \cup {n})
      BY <1>2, <1>3, <1>10, <2>1, <2>2, <2>4, SMTT(30)
    <2> QED BY <2>1, <2>3, <2>5, <2>6, ZenonT(30)
  <1>11. ASSUME rx_valid /\ ~r /\ ~rx_has_data PROVE Goal
    <2>1. /\ rx_has_data' /\ ~rx_valid' /\ arrived' = n
          /\ rx_holding' = n /\ overrun' = overrun /\ Vals(got') = V
          /\ ~rx_has_data
      BY <1>1, <1>3, <1>4, <1>6, <1>11, ZenonT(30)
    <2>2. V = (1 .. n) \ (overrun \cup {n})
      BY <1>2, <1>3, <1>11, <2>1, UnreadIs, ZenonT(30)
    <2>3. Unread' = {n}
      BY <2>1, Zenon DEF Unread
    <2>4. \A v \in V \cup overrun : v \in 1 .. n /\ v < n
      BY <1>3, <1>11, <2>1, ZenonT(30)
    <2>5. HoldInv'
      BY <1>2, <1>3, <1>11, <2>1, <2>4, SMTT(30) DEF HoldInv
    <2>6. V = (1 .. n) \ ((overrun) \cup {n})
      BY <1>2, <1>3, <1>11, <2>1, <2>2, <2>4, SMTT(30)
    <2> QED BY <2>1, <2>3, <2>5, <2>6, ZenonT(30)
  <1>12. ASSUME ~rx_valid /\ ~rx_valid' /\ r PROVE Goal
    <2>1. /\ ~rx_has_data' /\ ~rx_valid' /\ arrived' = n
          /\ overrun' = overrun /\ Vals(got') = V \cup {rx_holding}
          /\ rx_has_data
      BY <1>1, <1>3, <1>4, <1>6, <1>12, ZenonT(30)
    <2>2. V = (1 .. n) \ (overrun \cup {rx_holding})
      BY <1>2, <1>3, <1>12, <2>1, UnreadIs, ZenonT(30)
    <2>3. Unread' = {}
      BY <2>1, Zenon DEF Unread
    <2>4. \A v \in V \cup overrun : v \in 1 .. n /\ v < rx_holding
      BY <1>3, <1>12, <2>1, ZenonT(30)
    <2>5. HoldInv'
      BY <1>2, <1>3, <1>12, <2>1, <2>4, SMTT(30) DEF HoldInv
    <2>6. V \cup {rx_holding} = (1 .. n) \ ((overrun) \cup {})
      BY <1>2, <1>3, <1>12, <2>1, <2>2, <2>4, SMTT(30)
    <2> QED BY <2>1, <2>3, <2>5, <2>6, ZenonT(30)
  <1>13. ASSUME ~rx_valid /\ ~rx_valid' /\ ~r /\ rx_has_data PROVE Goal
    <2>1. /\ rx_has_data' /\ ~rx_valid' /\ arrived' = n
          /\ rx_holding' = rx_holding /\ overrun' = overrun /\ Vals(got') = V
          /\ rx_has_data
      BY <1>1, <1>3, <1>4, <1>6, <1>13, ZenonT(30)
    <2>2. V = (1 .. n) \ (overrun \cup {rx_holding})
      BY <1>2, <1>3, <1>13, <2>1, UnreadIs, ZenonT(30)
    <2>3. Unread' = {rx_holding}
      BY <2>1, ZenonT(30) DEF Unread
    <2>4. \A v \in V \cup overrun : v \in 1 .. n /\ v < rx_holding
      BY <1>3, <1>13, <2>1, ZenonT(30)
    <2>5. HoldInv'
      BY <1>2, <1>3, <1>13, <2>1, <2>4, SMTT(30) DEF HoldInv
    <2>6. V = (1 .. n) \ ((overrun) \cup {rx_holding})
      BY <1>2, <1>3, <1>13, <2>1, <2>2, <2>4, SMTT(30)
    <2> QED BY <2>1, <2>3, <2>5, <2>6, ZenonT(30)
  <1>14. ASSUME ~rx_valid /\ ~rx_valid' /\ ~r /\ ~rx_has_data PROVE Goal
    <2>1. /\ ~rx_has_data' /\ ~rx_valid' /\ arrived' = n
          /\ overrun' = overrun /\ Vals(got') = V
          /\ ~rx_has_data
      BY <1>1, <1>3, <1>4, <1>6, <1>14, ZenonT(30)
    <2>2. V = (1 .. n) \ (overrun \cup {})
      BY <1>2, <1>3, <1>14, <2>1, UnreadIs, ZenonT(30)
    <2>3. Unread' = {}
      BY <2>1, Zenon DEF Unread
    <2>4. \A v \in V \cup overrun : v \in 1 .. n
      BY <1>3, <1>14, <2>1, ZenonT(30)
    <2>5. HoldInv'
      BY <1>2, <1>3, <1>14, <2>1, <2>4, SMTT(30) DEF HoldInv
    <2>6. V = (1 .. n) \ ((overrun) \cup {})
      BY <1>2, <1>3, <1>14, <2>1, <2>2, <2>4, SMTT(30)
    <2> QED BY <2>1, <2>3, <2>5, <2>6, ZenonT(30)
  <1>15. ASSUME ~rx_valid /\ rx_valid' /\ r PROVE Goal
    <2>1. /\ ~rx_has_data' /\ rx_valid' /\ arrived' = n + 1
          /\ rx_data' = n + 1 /\ overrun' = overrun /\ Vals(got') = V \cup {rx_holding}
          /\ rx_has_data
      BY <1>1, <1>3, <1>4, <1>6, <1>15, ZenonT(30)
    <2>2. V = (1 .. n) \ (overrun \cup {rx_holding})
      BY <1>2, <1>3, <1>15, <2>1, UnreadIs, ZenonT(30)
    <2>3. Unread' = {n + 1}
      BY <2>1, Zenon DEF Unread
    <2>4. \A v \in V \cup overrun : v \in 1 .. n /\ v < rx_holding
      BY <1>3, <1>15, <2>1, ZenonT(30)
    <2>5. HoldInv'
      BY <1>2, <1>3, <1>15, <2>1, <2>4, SMTT(30) DEF HoldInv
    <2>6. V \cup {rx_holding} = (1 .. n + 1) \ ((overrun) \cup {n + 1})
      BY <1>2, <1>3, <1>15, <2>1, <2>2, <2>4, SMTT(30)
    <2> QED BY <2>1, <2>3, <2>5, <2>6, ZenonT(30)
  <1>16. ASSUME ~rx_valid /\ rx_valid' /\ ~r /\ rx_has_data PROVE Goal
    <2>1. /\ rx_has_data' /\ rx_valid' /\ arrived' = n + 1
          /\ rx_holding' = rx_holding /\ rx_data' = n + 1 /\ overrun' = overrun /\ Vals(got') = V
          /\ rx_has_data
      BY <1>1, <1>3, <1>4, <1>6, <1>16, ZenonT(30)
    <2>2. V = (1 .. n) \ (overrun \cup {rx_holding})
      BY <1>2, <1>3, <1>16, <2>1, UnreadIs, ZenonT(30)
    <2>3. Unread' = {rx_holding, n + 1}
      BY <2>1, Zenon DEF Unread
    <2>4. \A v \in V \cup overrun : v \in 1 .. n /\ v < rx_holding
      BY <1>3, <1>16, <2>1, ZenonT(30)
    <2>5. HoldInv'
      BY <1>2, <1>3, <1>16, <2>1, <2>4, SMTT(30) DEF HoldInv
    <2>6. V = (1 .. n + 1) \ ((overrun) \cup {rx_holding, n + 1})
      BY <1>2, <1>3, <1>16, <2>1, <2>2, <2>4, SMTT(30)
    <2> QED BY <2>1, <2>3, <2>5, <2>6, Zenon
  <1>17. ASSUME ~rx_valid /\ rx_valid' /\ ~r /\ ~rx_has_data PROVE Goal
    <2>1. /\ ~rx_has_data' /\ rx_valid' /\ arrived' = n + 1
          /\ rx_data' = n + 1 /\ overrun' = overrun /\ Vals(got') = V
          /\ ~rx_has_data
      BY <1>1, <1>3, <1>4, <1>6, <1>17, ZenonT(30)
    <2>2. V = (1 .. n) \ (overrun \cup {})
      BY <1>2, <1>3, <1>17, <2>1, UnreadIs, ZenonT(30)
    <2>3. Unread' = {n + 1}
      BY <2>1, Zenon DEF Unread
    <2>4. \A v \in V \cup overrun : v \in 1 .. n
      BY <1>3, <1>17, <2>1, ZenonT(30)
    <2>5. HoldInv'
      BY <1>2, <1>3, <1>17, <2>1, <2>4, SMTT(30) DEF HoldInv
    <2>6. V = (1 .. n + 1) \ ((overrun) \cup {n + 1})
      BY <1>2, <1>3, <1>17, <2>1, <2>2, <2>4, SMTT(30)
    <2> QED BY <2>1, <2>3, <2>5, <2>6, ZenonT(30)
  <1>18. r \/ (~r /\ rx_has_data) \/ (~r /\ ~rx_has_data)
    BY Zenon
  <1> QED BY <1>9, <1>10, <1>11, <1>12, <1>13, <1>14, <1>15, <1>16, <1>17, <1>18, ZenonT(30)

\* A step that does not read RX_DATA.
LEMMA BlindRecv ==
  ASSUME EventInv, RecvInv, NEW acc, NEW cb \in BOOLEAN, Cycle(acc, cb), ~ReadsRxData(acc),
         acc.we \in BOOLEAN,
         \A d \in Contexts : pc'[d] = "rx_data" => pc[d] = "rx_data" \/ rx_has_data
  PROVE  RecvInv'
  <1>1. locked' = locked
    BY Effects, Zenon DEF EventInv
  <1> SUFFICES ASSUME locked PROVE RecvTypes' /\ HoldInv' /\ ReadInv' /\ ReceivedInOrder'
    BY <1>1, Zenon DEF RecvInv
  <1>2. RecvTypes /\ HoldInv /\ ReadInv /\ ReceivedInOrder
    BY Zenon DEF RecvInv
  <1>3. RecvTypes' /\ HoldInv' /\ ReceivedInOrder' /\ (rx_has_data => rx_has_data')
    BY <1>2, RecvCycle, Zenon
  <1>4. ReadInv'
    BY <1>2, <1>3, Zenon DEF ReadInv
  <1> QED BY <1>3, <1>4, Zenon

\* A step of one context that does not read RX_DATA.
LEMMA MoveRecv ==
  ASSUME EventInv, RecvInv, NEW c \in Contexts, NEW m, NEW acc, NEW cb \in BOOLEAN,
         Cycle(acc, cb), ~ReadsRxData(acc), acc.we \in BOOLEAN, Goto(c, m),
         m = "rx_data" => rx_has_data
  PROVE  RecvInv'
  <1>1. \A d \in Contexts : pc'[d] = "rx_data" => pc[d] = "rx_data" \/ rx_has_data
    BY Zenon DEF Goto, EventInv, Types
  <1> QED BY <1>1, BlindRecv, Zenon

\* Reading the byte: with a lock nobody took it since the status was read.
LEMMA ReadRecv ==
  ASSUME EventInv, RecvInv, NEW c \in Contexts, RxData(c)
  PROVE  RecvInv'
  <1> DEFINE acc == Read("RX_DATA")
  <1>1. /\ Cycle(acc, FALSE) /\ Goto(c, "rx_status") /\ pc[c] = "rx_data" /\ FALSE \in BOOLEAN
        /\ c = "thread" => pc["isr"] = "off"
    BY ZenonT(30) DEF RxData, Access, Runs
  <1>2. acc.we \in BOOLEAN
    BY Accesses, ZenonT(30)
  <1> HIDE DEF acc
  <1>3. locked' = locked
    BY <1>1, <1>2, Effects, Zenon DEF EventInv
  <1> SUFFICES ASSUME locked PROVE RecvTypes' /\ HoldInv' /\ ReadInv' /\ ReceivedInOrder'
    BY <1>3, Zenon DEF RecvInv
  <1>4. RecvTypes /\ HoldInv /\ ReadInv /\ ReceivedInOrder
    BY Zenon DEF RecvInv
  <1>5. rx_has_data
    BY <1>1, <1>4, Zenon DEF ReadInv
  <1>6. RecvTypes' /\ HoldInv' /\ ReceivedInOrder'
    BY <1>1, <1>4, <1>5, RecvCycle, Zenon
  <1>7. pc \in [Contexts -> ThreadLabels \cup IsrLabels] /\ (c = "thread" \/ c = "isr")
    BY Labels, Zenon DEF EventInv, Types
  <1>8. /\ c = "thread" => pc'["thread"] = "rx_status" /\ pc'["isr"] = "off"
        /\ c = "isr" => pc'["thread"] = "idle" /\ pc'["isr"] = "rx_status"
    BY <1>1, <1>7, Labels, ZenonT(30) DEF Goto, EventInv, LockInv
  <1>9. ReadInv'
    BY <1>7, <1>8, Labels, ZenonT(30) DEF ReadInv
  <1> QED BY <1>6, <1>9, Zenon

\* The other steps of the transmit side.
LEMMA OtherRecv ==
  ASSUME EventInv, RecvInv, NEW c \in Contexts,
         TxStatus(c) \/ FillWrite(c) \/ PollWrite \/ Enqueue
  PROVE  RecvInv'
  <1>0. "thread" \in Contexts /\ FALSE \in BOOLEAN /\ AfterCallback(c) \in {"idle", "isr_next"}
    BY Labels, Zenon
  <1>1. ASSUME TxStatus(c) PROVE RecvInv'
    <2> DEFINE acc == Read("TX_STATUS")
               m == CASE ~tx_ready -> AfterCallback(c)
                      [] tx_ready /\ queue = <<>> -> "dis_read"
                      [] OTHER -> "fill_status"
    <2>1. Cycle(acc, FALSE) /\ Goto(c, m)
      BY <1>1, Zenon DEF TxStatus, Access
    <2>2. Harmless(acc)
      BY HarmlessAccesses, Zenon
    <2>3. m \in {AfterCallback(c), "dis_read", "fill_status"}
      BY Zenon
    <2> HIDE DEF acc, m
    <2>4. m # "rx_data"
      BY <1>0, <2>3, Zenon
    <2> QED BY <1>0, <2>1, <2>2, <2>4, MoveRecv, ZenonT(30) DEF Harmless
  <1>2. ASSUME FillWrite(c) PROVE RecvInv'
    <2> DEFINE acc == Write("TX_DATA", byte[c])
    <2>1. Cycle(acc, FALSE) /\ Goto(c, AfterCallback(c)) /\ AfterCallback(c) # "rx_data"
      BY <1>0, <1>2, ZenonT(30) DEF FillWrite, Access
    <2>2. acc.we \in BOOLEAN /\ ~ReadsRxData(acc)
      BY DEF Write, ReadsRxData
    <2> HIDE DEF acc
    <2> QED BY <1>0, <2>1, <2>2, MoveRecv, ZenonT(30)
  <1>3. ASSUME PollWrite PROVE RecvInv'
    <2> DEFINE acc == Write("TX_DATA", enq + 1)
               m == IF enq + 1 < NPoll THEN "poll_status" ELSE "en_read"
    <2>1. Cycle(acc, FALSE) /\ Goto("thread", m) /\ m # "rx_data"
      BY <1>3, ZenonT(30) DEF PollWrite, Access
    <2>2. acc.we \in BOOLEAN /\ ~ReadsRxData(acc)
      BY DEF Write, ReadsRxData
    <2> HIDE DEF acc, m
    <2> QED BY <1>0, <2>1, <2>2, MoveRecv, ZenonT(30)
  <1>4. ASSUME Enqueue PROVE RecvInv'
    <2>1. Cycle(NoAcc, FALSE) /\ Goto("thread", "en_read") /\ "en_read" # "rx_data"
      BY <1>4, ZenonT(30) DEF Enqueue
    <2>2. NoAcc.we \in BOOLEAN /\ ~ReadsRxData(NoAcc)
      BY DEF NoAcc, ReadsRxData
    <2> QED BY <1>0, <2>1, <2>2, MoveRecv, ZenonT(30)
  <1> QED BY <1>1, <1>2, <1>3, <1>4, ZenonT(30)

\* After reset nothing has arrived.
LEMMA RecvStart == Init => RecvInv
  <1> SUFFICES ASSUME Init PROVE RecvInv
    OBVIOUS
  <1>1. /\ got = <<>> /\ arrived = 0 /\ overrun = {} /\ rx_valid = FALSE /\ rx_has_data = FALSE
    BY ZenonT(30) DEF Init, UartInit
  <1>2. \A c \in Contexts : pc[c] \in {"init_enable", "off"}
    BY Labels, Zenon DEF Init
  <1>3. RecvTypes /\ Vals(got) = {} /\ DOMAIN got = {}
    <2>1. got \in Seq(Nat) /\ Len(got) = 0 /\ arrived \in Nat
      BY <1>1
    <2>2. DOMAIN got = 1 .. Len(got)
      BY <2>1, LenProperties
    <2>3. DOMAIN got = {}
      BY <2>1, <2>2
    <2> QED BY <1>1, <2>1, <2>3, ZenonT(30) DEF RecvTypes, Vals
  <1>4. HoldInv /\ ReadInv
    BY <1>1, <1>2, <1>3, ZenonT(30) DEF HoldInv, ReadInv
  <1>5. Unread = {}
    BY <1>1, Zenon DEF Unread
  <1>6. ReceivedInOrder
    <2>1. (1 .. 0) = {}
      OBVIOUS
    <2>2. {got[k] : k \in DOMAIN got} = {}
      BY <1>3, ZenonT(30)
    <2> QED BY <1>1, <1>3, <1>5, <2>1, <2>2, ZenonT(30) DEF ReceivedInOrder
  <1> QED BY <1>3, <1>4, <1>6, ZenonT(30) DEF RecvInv

\* Every cycle accounts for every byte that arrived: read, overwritten or not read yet.
LEMMA RecvStep == EventInv /\ RecvInv /\ [Next]_vars => RecvInv'
  <1> SUFFICES ASSUME EventInv, RecvInv, [Next]_vars PROVE RecvInv'
    OBVIOUS
  <1>0. "thread" \in Contexts /\ "isr" \in Contexts
    BY Labels, Zenon
  <1>1. ASSUME Quietly PROVE RecvInv'
    <2>0. PICK c \in Contexts : \E m, acc, cb : Harmless(acc) /\ Moves(c, m, acc, cb)
      BY <1>1, Zenon DEF Quietly
    <2>1. PICK m, acc, cb : Harmless(acc) /\ Moves(c, m, acc, cb)
      BY <2>0, Zenon
    <2> QED BY <2>1, MoveRecv, ZenonT(30) DEF Harmless, Moves
  <1>2. CASE Thread
    BY <1>0, <1>1, <1>2, QuietSteps, OtherRecv, ZenonT(30) DEF Thread
  <1>3. CASE Handler
    BY <1>0, <1>1, <1>3, QuietSteps, ZenonT(30)
  <1>4. CASE Callback
    BY <1>1, <1>4, QuietSteps, ReadRecv, OtherRecv, ZenonT(30) DEF Callback
  <1>5. CASE Wait
    <2>1. Cycle(NoAcc, FALSE) /\ pc' = pc /\ FALSE \in BOOLEAN
      BY <1>5, Zenon DEF Wait
    <2>2. NoAcc.we \in BOOLEAN /\ ~ReadsRxData(NoAcc)
      BY DEF NoAcc, ReadsRxData
    <2> QED BY <2>1, <2>2, BlindRecv, ZenonT(30)
  <1>6. CASE UNCHANGED vars
    <2>1. /\ got' = got /\ arrived' = arrived /\ overrun' = overrun /\ rx_valid' = rx_valid
          /\ rx_data' = rx_data /\ rx_holding' = rx_holding /\ rx_has_data' = rx_has_data
          /\ pc' = pc /\ locked' = locked
      BY <1>6, Zenon DEF vars, uartVars, swVars, history
    <2>2. locked' => RecvTypes' /\ HoldInv' /\ ReadInv'
      BY <2>1, Zenon DEF RecvInv, RecvTypes, HoldInv, Vals, ReadInv
    <2>3. locked' => ReceivedInOrder'
      BY <2>1, ZenonT(30) DEF RecvInv, ReceivedInOrder, Unread
    <2> QED BY <2>2, <2>3, ZenonT(30) DEF RecvInv
  <1> QED BY <1>2, <1>3, <1>4, <1>5, <1>6, ZenonT(30) DEF Next, Software

\* With a thread that locks, the application receives each byte once and in order, except
\* the ones overwritten in the holding register before anybody read them.
THEOREM GotInOrder == Spec => []ReceivedInOrder
  <1>1. RecvInv => ReceivedInOrder
    BY Zenon DEF RecvInv, ReceivedInOrder
  <1> QED BY <1>1, EventStart, EventStep, RecvStart, RecvStep, PTL DEF Spec
=============================================================================
