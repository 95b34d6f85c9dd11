----------------------------- MODULE MCMemStage -----------------------------
(* A cache of two sets, two tags, two words of two bytes a line, and lines *)
(* of four halfwords on the instruction side.                              *)
EXTENDS MemStage

MCTags == {0, 1}
MCBanks == {0, 1}
MCLanes == {0, 1}

Ddr(t, s, b) == [region |-> "ddr", tag |-> t, set |-> s, bank |-> b]
Tcm == [region |-> "tcm", tag |-> 0, set |-> 1, bank |-> 0]
Dev == [region |-> "uart", tag |-> 0, set |-> 1, bank |-> 0]
Accel(r) == [region |-> "accel", reg |-> r, tag |-> 0, set |-> 1, bank |-> 0]
Timer(r) == [region |-> "clint", reg |-> r, tag |-> 0, set |-> 0, bank |-> 0]

Op(kind, a, v, mask, fn) == [kind |-> kind, addr |-> a, wdata |-> v, wmask |-> mask, fn |-> fn]
Load(a) == Op("load", a, 0, {}, "swap")
LR(a) == Op("lr", a, 0, {}, "swap")
Stores(a, masks) == {Op("store", a, v, m, "swap") : v \in Values, m \in masks}
SCs(a) == {Op("sc", a, v, MCLanes, "swap") : v \in Values}
Amos(a) == {Op("amo", a, v, MCLanes, f) : v \in Values, f \in {"swap", "or"}}

Pc(r, h) == [region |-> r, h |-> h]
AnyDdrFetch == {Pc("ddr", h) : h \in Halves}

\* Loads, stores and AMOs over a set with two tags, its other word and the
\* other set.
Caching ==
  LET as == {Ddr(0, 0, 0), Ddr(1, 0, 0), Ddr(0, 0, 1)} IN
  [ops |-> {Load(a) : a \in as} \cup Stores(Ddr(0, 0, 0), {{0}, {0, 1}})
           \cup Stores(Ddr(1, 0, 0), {{0, 1}}) \cup {Load(Ddr(0, 1, 0))}
           \cup Amos(Ddr(0, 0, 0)),
   fetches |-> {Pc("tcm", 0)}, traps |-> FALSE, divides |-> FALSE, timer |-> FALSE]

\* LR, SC and what breaks a reservation, with a fetch that misses meanwhile.
Reservations ==
  LET a == Ddr(0, 0, 0) IN
  [ops |-> {LR(a), Load(Tcm)} \cup SCs(a) \cup Stores(Ddr(0, 0, 1), {{0, 1}})
           \cup {o \in Amos(a) : o.fn = "swap" /\ o.wdata = 0},
   fetches |-> {Pc("ddr", 1)}, traps |-> TRUE, divides |-> FALSE, timer |-> FALSE]

\* The same within the TCM, with no cache involved.
TcmAtomics ==
  [ops |-> {LR(Tcm), Load(Tcm)} \cup SCs(Tcm) \cup Stores(Tcm, {{0}}) \cup Amos(Tcm),
   fetches |-> {Pc("tcm", 1)}, traps |-> TRUE, divides |-> TRUE, timer |-> FALSE]

\* Device accesses beside every other source of a stall.
Devices ==
  [ops |-> {Load(Dev), Load(Tcm), Load(Ddr(0, 0, 0))}
           \cup {o \in Stores(Dev, {{0, 1}}) \cup Amos(Tcm) : o.wdata = 0 /\ o.fn = "swap"},
   fetches |-> {Pc("ddr", 1)}, traps |-> FALSE, divides |-> TRUE, timer |-> FALSE]

\* Every fetch address, alone.
Fetching == [ops |-> {}, fetches |-> AnyDdrFetch \cup {Pc("tcm", 1), Pc("tcm", 2)},
             traps |-> FALSE, divides |-> FALSE, timer |-> FALSE]

\* Registers of the accelerator, with an access to another device in between.
Bridge ==
  [ops |-> {Load(Accel(r)) : r \in {"DEST_ADDR", "RESULT"}} \cup {Load(Dev)}
           \cup UNION {Stores(Accel(r), {{0, 1}}) : r \in {"DEST_ADDR", "RESULT_IDX"}},
   fetches |-> {Pc("tcm", 1)}, traps |-> FALSE, divides |-> TRUE, timer |-> FALSE]

\* Setting and reading the timer, also while mtime is moved.
Arms ==
  [ops |-> UNION {Stores(Timer(r), {{0, 1}}) : r \in {"mtimecmp_lo", "mtimecmp_hi"}}
           \cup {Load(Timer("mtimecmp_lo")), Load(Timer("mtimecmp_hi"))}
           \cup {Op("store", Timer(r), 0, {0, 1}, "swap") : r \in {"mtime_lo", "mtime_hi"}},
   fetches |-> {Pc("tcm", 1)}, traps |-> FALSE, divides |-> FALSE, timer |-> TRUE]

MCResults == [i \in 0 .. 1 |-> i]
MCWorkloads == {Caching, Reservations, TcmAtomics, Devices, Fetching, Bridge, Arms}
=============================================================================
