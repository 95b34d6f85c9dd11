---------------------------- MODULE CacheDriver -----------------------------
(***************************************************************************)
(* Cache maintenance by displacement (cache_rv32_5stage.c) over the direct *)
(* mapped write-back data cache of dcache_bram.v.  The hardware has no     *)
(* flush, so the driver loads a line of displace_buf that falls in the set *)
(* of the line it wants out: whatever was there goes to DRAM if dirty.     *)
(*                                                                         *)
(* Memory is a function from line numbers to line contents; addresses and  *)
(* sizes are in bytes.  Every operation maps a memory state                *)
(* [cache, dram] to the next one, one line at a time, because other        *)
(* threads and the DMA run between two loads of a walk.                    *)
(***************************************************************************)
EXTENDS Integers, Sequences

CONSTANTS DC_LINE,   \* bytes in a line
          DC_SETS,   \* lines in the cache, the DC_BYTES / DC_LINE of the driver
          BufLine    \* the first line of displace_buf

ASSUME CacheAssumption ==
  /\ DC_LINE \in Nat \ {0} /\ DC_SETS \in Nat \ {0}
  /\ BufLine \in Nat /\ BufLine % DC_SETS = 0  \* __aligned(DC_BYTES)

SetOf(line) == line % DC_SETS
LineAt(addr) == addr \div DC_LINE
BufLines == BufLine .. (BufLine + DC_SETS - 1)

\* The lines that hold a byte of the range.
LinesOf(addr, size) == LineAt(addr) .. LineAt(addr + size - 1)

-----------------------------------------------------------------------------
(* The data cache. *)

Resident(c, line) == c[SetOf(line)].line = line

\* What the CPU would read.
CpuView(c, d, line) == IF Resident(c, line) THEN c[SetOf(line)].val ELSE d[line]

WrittenBack_slip(c, d, set) == d
\* DRAM once the line in a set has been written back.
WrittenBack(c, d, set) ==
  IF c[set].dirty THEN [d EXCEPT ![c[set].line] = c[set].val] ELSE d

Load(c, d, line) ==
  IF Resident(c, line) THEN [cache |-> c, dram |-> d]
  ELSE LET set == SetOf(line)
           back == WrittenBack(c, d, set)
       IN [cache |-> [c EXCEPT ![set] = [line |-> line, val |-> back[line], dirty |-> FALSE]],
           dram |-> back]

Store(c, d, line, v) ==
  LET m == Load(c, d, line)
  IN [m EXCEPT !.cache[SetOf(line)] = [line |-> line, val |-> v, dirty |-> TRUE]]

-----------------------------------------------------------------------------
(* The driver: a walk is the sequence of sets whose displace_buf line is   *)
(* loaded, in order.                                                       *)

displace_buf(set) == BufLine + set

Displace(c, d, set) == Load(c, d, displace_buf(set))

ROUND_DOWN(addr) == addr - (addr % DC_LINE)

\* A walk that starts at addr itself stops a line short.
displace_range_slip(addr, size) ==
  [j \in 1 .. ((size + DC_LINE - 1) \div DC_LINE) |-> SetOf(LineAt(addr) + j - 1)]

displace_range(addr, size) ==
  LET a == ROUND_DOWN(addr)
      end == addr + size
  IN [j \in 1 .. ((end - a + DC_LINE - 1) \div DC_LINE) |-> SetOf(LineAt(a) + j - 1)]

displace_all == [j \in 1 .. DC_SETS |-> j - 1]

\* There is one walk: the three range operations and the three on the whole
\* cache differ only in name.
cache_data_flush_range(addr, size) == displace_range(addr, size)
cache_data_invd_range(addr, size) == displace_range(addr, size)
cache_data_flush_all == displace_all
=============================================================================
