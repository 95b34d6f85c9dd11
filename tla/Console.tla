------------------------------- MODULE Console -------------------------------
(***************************************************************************)
(* The interrupt-driven console: UART, interrupt controller, the CPU's     *)
(* peripheral handshake and trap entry, the interrupt controller driver    *)
(* (intc_rv32_5stage.c), the UART driver (uart_rv32_5stage.c), and an      *)
(* application that uses the standard callback pattern.                    *)
(*                                                                         *)
(* Every step is one clock cycle: the hardware advances and software does  *)
(* at most one bus access.  There are two software contexts: the thread    *)
(* and the interrupt handler that preempts it.  Source TX is bit 0 and RX  *)
(* bit 1.                                                                  *)
(***************************************************************************)
EXTENDS Naturals, Sequences, Intc, UartMmio

CONSTANTS
  NSend,   \* bytes the thread sends
  NPoll,   \* of these, the first ones are sent by polling
  NRecv,   \* bytes that arrive
  Locking  \* {TRUE}: the thread locks interrupts around driver calls

ASSUME ConsoleAssumption ==
  /\ NSend \in Nat /\ NPoll \in 1 .. NSend /\ NRecv \in Nat /\ Locking \subseteq BOOLEAN
  /\ Sources = {"TX", "RX"}

VARIABLES
  locked,   \* whether this application locks (never changes)
  bus,      \* phase of the CPU's peripheral access
  ex_irq,   \* the instruction in EX was refused because of an interrupt
  pc,       \* of each context
  reg,      \* ENABLE as last read by each context
  byte,     \* byte each context is about to write
  src,      \* source the thread is enabling
  active,   \* sources the handler has still to dispatch
  queue,    \* the application's transmit queue
  enq,      \* bytes handed to the driver so far
  sent,     \* bytes put on the line
  got,      \* bytes the application received
  arrived,  \* bytes that arrived on the line
  overrun,  \* received bytes overwritten before they were read
  owed      \* enabled sources that fired and have not been looked after since

swVars == <<locked, bus, ex_irq, pc, reg, byte, src, active, queue, enq>>
history == <<sent, got, arrived, overrun, owed>>
vars == <<intcVars, uartVars, swVars, history>>

Contexts == {"thread", "isr"}
Bytes == 0 .. (NSend + NRecv)
UpTo(n) == [i \in 1 .. n |-> i]

irq_in == (IF tx_irq THEN {"TX"} ELSE {}) \cup (IF rx_irq THEN {"RX"} ELSE {})

NoAcc == [reg |-> "none", we |-> FALSE]
Read(r) == [reg |-> r, we |-> FALSE]
Write(r, d) == [reg |-> r, we |-> TRUE, wdata |-> d]

\* mstatus.MIE: off in the handler, and while the thread holds the lock.
mstatus_mie == pc["isr"] = "off" /\ ~(locked /\ pc["thread"] # "idle")

----------------------------------------------------------------------------
\* One cycle of the hardware.

\* The access is sampled, acknowledged, latched as done, and only then does
\* the pipeline move: the next access is three cycles later at the earliest.
BusTick_no_done_latch(acc) == bus' = "free"
BusTick(acc) ==
  bus' = CASE acc # NoAcc -> "pending"
           [] acc = NoAcc /\ bus = "pending" -> "done"
           [] OTHER -> "free"

\* A callback settles what fired before it; a new byte settles TX.
Unsettled(acc, cb) ==
  IF cb THEN {} ELSE owed \ (IF Writes(acc, "TX_DATA") THEN {"TX"} ELSE {})

Histories(acc, arrives, cb) ==
  /\ sent' = IF tx_state = "IDLE" /\ tx_start THEN Append(sent, tx_data) ELSE sent
  /\ got' = IF ReadsRxData(acc) THEN Append(got, rx_holding) ELSE got
  /\ arrived' = arrived + Len(arrives)
  /\ overrun' = IF rx_valid /\ rx_has_data /\ ~ReadsRxData(acc)
                  THEN overrun \cup {rx_holding} ELSE overrun
  /\ owed' = Unsettled(acc, cb) \cup (irq_edge(irq_in) \cap enable)

Arrivals == {<<>>} \cup (IF rx_valid \/ arrived = NRecv THEN {} ELSE {<<arrived + 1>>})

\* cb: software enters the callback in this cycle.
Cycle(acc, cb) ==
  \E frameEnd \in (IF tx_state = "SEND" THEN BOOLEAN ELSE {FALSE}) :
  \E arrives \in Arrivals :
    /\ IntcTick(acc, irq_in)
    /\ UartTick(acc, frameEnd, arrives)
    /\ BusTick(acc)
    /\ ex_irq' = (irq_out /\ mstatus_mie) /\ UNCHANGED locked
    /\ Histories(acc, arrives, cb)

\* A bus access by context c.
Access(acc) == bus = "free" /\ Cycle(acc, FALSE)
Goto(c, label) == pc' = [pc EXCEPT ![c] = label]
Runs(c, label) ==
  /\ pc[c] = label
  /\ c = "thread" => pc["isr"] = "off" /\ ~ex_irq

----------------------------------------------------------------------------
\* The UART callback of the application: take what was received, then send
\* one byte, or stop transmit interrupts when there is nothing to send.

AfterCallback(c) == IF c = "thread" THEN "idle" ELSE "isr_next"

\* uart_fifo_read
RxStatus(c) ==
  /\ Runs(c, "rx_status") /\ Access(Read("RX_STATUS"))
  /\ Goto(c, IF rx_has_data THEN "rx_data" ELSE "tx_status")
  /\ UNCHANGED <<reg, byte, src, active, queue, enq>>

RxData(c) ==
  /\ Runs(c, "rx_data") /\ Access(Read("RX_DATA")) /\ Goto(c, "rx_status")
  /\ UNCHANGED <<reg, byte, src, active, queue, enq>>

\* uart_irq_tx_ready
TxStatus(c) ==
  /\ Runs(c, "tx_status") /\ Access(Read("TX_STATUS"))
  /\ Goto(c, CASE ~tx_ready -> AfterCallback(c)
               [] tx_ready /\ queue = <<>> -> "dis_read"
               [] OTHER -> "fill_status")
  /\ byte' = IF tx_ready /\ queue # <<>> THEN [byte EXCEPT ![c] = Head(queue)] ELSE byte
  /\ UNCHANGED <<reg, src, active, queue, enq>>

\* uart_fifo_fill
FillStatus(c) ==
  /\ Runs(c, "fill_status") /\ Access(Read("TX_STATUS"))
  /\ Goto(c, IF tx_ready THEN "fill_write" ELSE AfterCallback(c))
  /\ UNCHANGED <<reg, byte, src, active, queue, enq>>

FillWrite(c) ==
  /\ Runs(c, "fill_write") /\ Access(Write("TX_DATA", byte[c])) /\ Goto(c, AfterCallback(c))
  /\ queue' = IF queue = <<>> THEN queue ELSE Tail(queue)
  /\ UNCHANGED <<reg, byte, src, active, enq>>

\* uart_irq_tx_disable: a read-modify-write of ENABLE
DisRead(c) ==
  /\ Runs(c, "dis_read") /\ Access(Read("ENABLE")) /\ Goto(c, "dis_write")
  /\ reg' = [reg EXCEPT ![c] = enable]
  /\ UNCHANGED <<byte, src, active, queue, enq>>

DisWrite(c) ==
  /\ Runs(c, "dis_write") /\ Access(Write("ENABLE", reg[c] \ {"TX"})) /\ Goto(c, AfterCallback(c))
  /\ UNCHANGED <<reg, byte, src, active, queue, enq>>

Callback ==
  \E c \in Contexts :
    \/ RxStatus(c) \/ RxData(c) \/ TxStatus(c)
    \/ FillStatus(c) \/ FillWrite(c) \/ DisRead(c) \/ DisWrite(c)

----------------------------------------------------------------------------
\* The thread.

\* rv32_5stage_intc_initialize
InitEnable ==
  /\ Runs("thread", "init_enable") /\ Access(Write("ENABLE", {})) /\ Goto("thread", "init_pending")
  /\ UNCHANGED <<reg, byte, src, active, queue, enq>>

InitPending ==
  /\ Runs("thread", "init_pending") /\ Access(Write("PENDING", Sources)) /\ Goto("thread", "poll_status")
  /\ UNCHANGED <<reg, byte, src, active, queue, enq>>

\* uart_poll_out of the first bytes, then uart_irq_rx_enable
PollStatus ==
  /\ Runs("thread", "poll_status") /\ Access(Read("TX_STATUS"))
  /\ Goto("thread", IF tx_ready THEN "poll_write" ELSE "poll_status")
  /\ UNCHANGED <<reg, byte, src, active, queue, enq>>

PollWrite ==
  /\ Runs("thread", "poll_write") /\ Access(Write("TX_DATA", enq + 1))
  /\ enq' = enq + 1 /\ src' = "RX"
  /\ Goto("thread", IF enq + 1 < NPoll THEN "poll_status" ELSE "en_read")
  /\ UNCHANGED <<reg, byte, active, queue>>

\* The application queues a byte and calls uart_irq_tx_enable.
Enqueue ==
  /\ Runs("thread", "idle") /\ enq < NSend /\ bus = "free" /\ Cycle(NoAcc, FALSE)
  /\ enq' = enq + 1 /\ queue' = Append(queue, enq + 1)
  /\ src' = "TX" /\ Goto("thread", "en_read")
  /\ UNCHANGED <<reg, byte, active>>

\* rv32_5stage_intc_intr_enable: read ENABLE, discard a stale edge, unmask
EnRead ==
  /\ Runs("thread", "en_read") /\ Access(Read("ENABLE")) /\ Goto("thread", "en_clear")
  /\ reg' = [reg EXCEPT !["thread"] = enable]
  /\ UNCHANGED <<byte, src, active, queue, enq>>

EnClear ==
  /\ Runs("thread", "en_clear") /\ Access(Write("PENDING", {src})) /\ Goto("thread", "en_write")
  /\ UNCHANGED <<reg, byte, src, active, queue, enq>>

EnWrite ==
  /\ Runs("thread", "en_write") /\ Access(Write("ENABLE", reg["thread"] \cup {src}))
  /\ Goto("thread", IF src = "TX" THEN "prime" ELSE "idle")
  /\ UNCHANGED <<reg, byte, src, active, queue, enq>>

\* uart_irq_tx_enable primes the callback when the transmitter is idle.
Primed_never == FALSE
Primed == tx_ready

Prime ==
  /\ Runs("thread", "prime") /\ bus = "free" /\ Cycle(Read("TX_STATUS"), Primed)
  /\ Goto("thread", IF Primed THEN "rx_status" ELSE "idle")
  /\ UNCHANGED <<reg, byte, src, active, queue, enq>>

Thread ==
  \/ InitEnable \/ InitPending \/ PollStatus \/ PollWrite
  \/ Enqueue \/ EnRead \/ EnClear \/ EnWrite \/ Prime

----------------------------------------------------------------------------
\* The interrupt handler.

\* external_fires: taken between two instructions of the thread
TrapEntry ==
  /\ irq_out /\ mstatus_mie /\ bus = "free" /\ Cycle(NoAcc, FALSE)
  /\ Goto("isr", "isr_pending")
  /\ UNCHANGED <<reg, byte, src, active, queue, enq>>

\* rv32_5stage_intc_isr: PENDING & ENABLE, cleared up front, then dispatched
IsrPending ==
  /\ Runs("isr", "isr_pending") /\ Access(Read("PENDING")) /\ Goto("isr", "isr_enable")
  /\ active' = pending
  /\ UNCHANGED <<reg, byte, src, queue, enq>>

IsrEnable ==
  /\ Runs("isr", "isr_enable") /\ Access(Read("ENABLE")) /\ Goto("isr", "isr_clear")
  /\ active' = active \cap enable
  /\ UNCHANGED <<reg, byte, src, queue, enq>>

ClearedByIsr_every_source == Sources
ClearedByIsr == active

IsrClear ==
  /\ Runs("isr", "isr_clear") /\ Access(Write("PENDING", ClearedByIsr)) /\ Goto("isr", "isr_next")
  /\ UNCHANGED <<reg, byte, src, active, queue, enq>>

Lowest == IF "TX" \in active THEN "TX" ELSE "RX"

IsrDispatch ==
  /\ Runs("isr", "isr_next") /\ active # {} /\ bus = "free" /\ Cycle(NoAcc, TRUE)
  /\ active' = active \ {Lowest} /\ Goto("isr", "rx_status")
  /\ UNCHANGED <<reg, byte, src, queue, enq>>

IsrReturn ==
  /\ Runs("isr", "isr_next") /\ active = {} /\ bus = "free" /\ Cycle(NoAcc, FALSE)
  /\ Goto("isr", "off")
  /\ UNCHANGED <<reg, byte, src, active, queue, enq>>

Handler == TrapEntry \/ IsrPending \/ IsrEnable \/ IsrClear \/ IsrDispatch \/ IsrReturn

----------------------------------------------------------------------------

Init ==
  /\ IntcInit /\ UartInit
  /\ locked \in Locking /\ bus = "free" /\ ex_irq = FALSE
  /\ pc = [c \in Contexts |-> IF c = "thread" THEN "init_enable" ELSE "off"]
  /\ reg = [c \in Contexts |-> {}] /\ byte = [c \in Contexts |-> 0]
  /\ src = "RX" /\ active = {} /\ queue = <<>> /\ enq = 0
  /\ sent = <<>> /\ got = <<>> /\ arrived = 0 /\ overrun = {} /\ owed = {}

\* A cycle in which software makes no progress: a stall, or other work.
Wait == Cycle(NoAcc, FALSE) /\ UNCHANGED <<pc, reg, byte, src, active, queue, enq>>

Software == Thread \/ Handler \/ Callback

Next == Software \/ Wait

FrameEnds == tx_state = "SEND" /\ tx_state' = "IDLE" /\ Next

\* The CPU always makes progress and a frame takes a bounded time.
Fairness == WF_vars(Software) /\ WF_vars(FrameEnds) /\ WF_vars(Next)

Spec == Init /\ [][Next]_vars /\ Fairness

----------------------------------------------------------------------------

\* Every byte handed to the UART goes on the line once and in order, whoever
\* wrote it (poll_out, the primed callback, or the interrupt handler).
InOrderOnLine ==
  sent \o (IF tx_start THEN <<tx_data>> ELSE <<>>) \o queue = UpTo(enq)

\* So it is when the thread locks interrupts around its driver calls: the
\* status read and the data write of the driver are not interrupted.
TransmittedInOrder == locked => InOrderOnLine

\* The application receives each byte once and in order, except the ones
\* overwritten in the holding register before anybody read them; again if the
\* thread locks around its calls.
Unread == (IF rx_has_data THEN {rx_holding} ELSE {}) \cup (IF rx_valid THEN {rx_data} ELSE {})
ReceivedInOrder ==
  locked => /\ {got[k] : k \in DOMAIN got} = (1 .. arrived) \ (overrun \cup Unread)
            /\ \A j, k \in DOMAIN got : j < k => got[j] < got[k]

\* An enabled source that fired is never forgotten: it is pending, or about
\* to be dispatched, or the thread that cleared it is about to look at the
\* transmitter itself.  Clearing PENDING drops an edge of the same cycle, so
\* this rests on the order of clearing and servicing in both drivers.
NoForgottenEvent ==
  \A s \in owed :
    \/ s \in pending \cup active
    \/ s = "TX" /\ pc["thread"] \in {"en_write", "prime"}

\* Queued bytes are sent in the end, although the transmit interrupt is an
\* edge that an idle transmitter never produces.
QueueDrains == (queue # <<>>) ~> (queue = <<>>)

\* "New edges latch every cycle regardless of bus activity": an edge is
\* pending in the next cycle.
EveryEdgeLatches == [][irq_edge(irq_in) \subseteq pending']_vars
=============================================================================
