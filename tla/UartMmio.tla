------------------------------ MODULE UartMmio ------------------------------
(***************************************************************************)
(* The UART (uart_mmio.v with its uart_tx.v and uart_rx.v): one clock edge *)
(* per step.  Bit timing is abstracted: a frame being sent ends in any     *)
(* cycle (frameEnd) and a received byte is complete in any cycle (arrives, *)
(* the byte in a sequence of at most one).                                 *)
(***************************************************************************)
EXTENDS Sequences

VARIABLES
  tx_start, tx_data,              \* bus to transmitter
  tx_state, saved_data, tx_ready, \* uart_tx
  tx_ready_prev, tx_irq,          \* edge detector
  rx_valid, rx_data,              \* uart_rx outputs
  rx_holding, rx_has_data

uartVars == <<tx_start, tx_data, tx_state, saved_data, tx_ready, tx_ready_prev,
              tx_irq, rx_valid, rx_data, rx_holding, rx_has_data>>

\* Byte 0 is the reset value of the data registers.
UartInit ==
  /\ tx_start = FALSE /\ tx_data = 0
  /\ tx_state = "IDLE" /\ saved_data = 0 /\ tx_ready = TRUE
  /\ tx_ready_prev = TRUE /\ tx_irq = FALSE
  /\ rx_valid = FALSE /\ rx_data = 0 /\ rx_holding = 0 /\ rx_has_data = FALSE

rx_irq == rx_valid

\* uart_tx: a start pulse is taken in IDLE only, and tx_ready rises one cycle
\* after the frame ended.
TxIdle ==
  /\ tx_state = "IDLE"
  /\ tx_ready' = ~tx_start
  /\ tx_state' = IF tx_start THEN "SEND" ELSE "IDLE"
  /\ saved_data' = IF tx_start THEN tx_data ELSE saved_data

TxSend(frameEnd) ==
  /\ tx_state = "SEND"
  /\ tx_state' = IF frameEnd THEN "IDLE" ELSE "SEND"
  /\ UNCHANGED <<tx_ready, saved_data>>

TxIrq == tx_ready /\ ~tx_ready_prev

TxBus(acc) ==
  /\ tx_start' = (acc.we /\ acc.reg = "TX_DATA")
  /\ tx_data' = IF acc.we /\ acc.reg = "TX_DATA" THEN acc.wdata ELSE tx_data

ReadsRxData(acc) == ~acc.we /\ acc.reg = "RX_DATA"

\* Reading RX_DATA consumes the byte unless another lands in the same cycle.
NextHasData_sticky(acc) == rx_valid \/ rx_has_data
NextHasData_read_wins(acc) == IF ReadsRxData(acc) THEN FALSE ELSE rx_has_data \/ rx_valid
NextHasData(acc) == rx_valid \/ (rx_has_data /\ ~ReadsRxData(acc))

RxTick(acc, arrives) ==
  /\ rx_valid' = (arrives # <<>>)
  /\ rx_data' = IF arrives # <<>> THEN Head(arrives) ELSE rx_data
  /\ rx_holding' = IF rx_valid THEN rx_data ELSE rx_holding
  /\ rx_has_data' = NextHasData(acc)

UartTick(acc, frameEnd, arrives) ==
  /\ TxIdle \/ TxSend(frameEnd)
  /\ tx_ready_prev' = tx_ready /\ tx_irq' = TxIrq
  /\ TxBus(acc)
  /\ RxTick(acc, arrives)
=============================================================================
