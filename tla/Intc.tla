-------------------------------- MODULE Intc --------------------------------
(***************************************************************************)
(* The interrupt controller (intc.v): one clock edge per step.  Bit        *)
(* vectors are sets of sources.  acc is the bus access of the cycle: a     *)
(* record of the register, whether it is a write, and the data written.    *)
(***************************************************************************)
CONSTANT Sources

VARIABLES enable, pending, irq_in_prev

intcVars == <<enable, pending, irq_in_prev>>

IntcInit == enable = {} /\ pending = {} /\ irq_in_prev = {}

irq_out == pending \cap enable # {}

irq_edge(irq_in) == irq_in \ irq_in_prev

Writes(acc, reg) == acc.we /\ acc.reg = reg

\* PENDING is write-1-to-clear, and the clear also covers this cycle's edges.
NextPending(acc, irq_in) ==
  IF Writes(acc, "PENDING") THEN (pending \cup irq_edge(irq_in)) \ acc.wdata
                            ELSE pending \cup irq_edge(irq_in)

IntcTick(acc, irq_in) ==
  /\ irq_in_prev' = irq_in
  /\ pending' = NextPending(acc, irq_in)
  /\ enable' = IF Writes(acc, "ENABLE") THEN acc.wdata ELSE enable
=============================================================================
