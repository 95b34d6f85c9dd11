----------------------------- MODULE AccelBatch -----------------------------
(***************************************************************************)
(* What the accelerator promises to whoever queues descriptors: each tile  *)
(* is fetched, computed and stored in turn, in the order of the pushes,    *)
(* as if nothing overlapped, and DONE is reported when nothing is left.    *)
(*                                                                         *)
(* A descriptor names its sources and says how many operands a lane has    *)
(* (k), packed in how many lines (lines), which B panel it fills (load),   *)
(* which one it multiplies with (use), and whether it keeps the resident A *)
(* panel (bOnly).                                                          *)
(***************************************************************************)
EXTENDS Naturals, Sequences

CONSTANT rowBytes  \* operands in a line

VARIABLES
  lane,      \* the lane that is followed
  pushed,    \* descriptors accepted since the last reset
  out,       \* results in memory, one per finished tile
  running,   \* a batch is running
  reported   \* DONE

bvars == <<lane, pushed, out, running, reported>>

\* The last tile up to i that satisfies P.
LastTile(i, P(_)) == CHOOSE j \in 1 .. i : P(j) /\ \A l \in (j + 1) .. i : ~P(l)

ATile(ds, i) == LET full(j) == ~ds[j].bOnly IN ds[LastTile(i, full)]
BTile(ds, i) == LET fills(j) == ds[j].load = ds[i].use IN ds[LastTile(i, fills)]

\* Where operand number r of the lane is in the panel of descriptor d.
LineOf(d, r) == (lane * d.lines) + (r \div rowBytes)

\* The product of tile i: the pairs of lines its terms come from, in order.
Product(ds, i) ==
  LET A == ATile(ds, i)
      B == BTile(ds, i)
  IN [r \in 1 .. ds[i].k |-> << <<A.a, LineOf(A, r - 1)>>, <<B.b, LineOf(B, r - 1)>> >>]

\* Operands a descriptor relies on have been loaded, with enough lines.
WellFormed(ds) ==
  LET n == Len(ds) IN
  /\ \E j \in 1 .. n : /\ ~ds[j].bOnly /\ ds[j].k >= ds[n].k
                       /\ \A l \in (j + 1) .. n : ds[l].bOnly
  /\ \E j \in 1 .. n : /\ ds[j].load = ds[n].use /\ ds[j].k >= ds[n].k
                       /\ \A l \in (j + 1) .. n : ds[l].load # ds[n].use

BInit == pushed = <<>> /\ out = <<>> /\ running = FALSE /\ reported = FALSE

Push == \/ UNCHANGED pushed
        \/ Len(pushed') = Len(pushed) + 1 /\ SubSeq(pushed', 1, Len(pushed)) = pushed

Start == ~running /\ running' = TRUE /\ reported' = FALSE /\ UNCHANGED <<pushed, out>>

\* The next tile in order is in memory.
Finish ==
  /\ running /\ Len(out) < Len(pushed)
  /\ out' = Append(out, Product(pushed, Len(out) + 1))
  /\ Push /\ UNCHANGED <<running, reported>>

Report ==
  /\ running /\ Len(out) = Len(pushed)
  /\ running' = FALSE /\ reported' = TRUE
  /\ Push /\ UNCHANGED out

Reset == pushed' = <<>> /\ out' = <<>> /\ running' = FALSE /\ reported' = FALSE

Idle == Push /\ UNCHANGED <<out, running, reported>>

BNext == Start \/ Finish \/ Report \/ Reset \/ Idle

BSpec == BInit /\ [][BNext /\ UNCHANGED lane]_bvars
=============================================================================
