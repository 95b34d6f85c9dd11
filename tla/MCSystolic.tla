----------------------------- MODULE MCSystolic -----------------------------
(* A small array for TLC, with operands whose products differ. *)
EXTENDS SystolicArray

MCMaxK == 3
MCLanes == 0 .. 2
MCA == [x \in MCLanes \X (0 .. MCMaxK) |-> 1 + (2 * x[1]) + (3 * x[2])]
MCB == [x \in MCLanes \X (0 .. MCMaxK) |-> 2 - (5 * x[1]) + (7 * x[2])]

\* Sum of the first n terms, for n up to 3.
Terms(i, j, n) == MCA[<<i, n>>] * MCB[<<j, n>>]
MCDot == [x \in MCLanes \X MCLanes \X (0 .. MCMaxK) |->
  LET term(n) == IF n < x[3] THEN Terms(x[1], x[2], n) ELSE 0
  IN term(0) + term(1) + term(2)]
MCStale == {100}
=============================================================================
