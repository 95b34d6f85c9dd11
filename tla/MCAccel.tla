------------------------------ MODULE MCAccel -------------------------------
(* Small instances of the accelerator path for TLC. *)
EXTENDS AccelPath

MCPanels == {0, 1}

Full(ks) == [k : ks, use : {0}, load : {0}, bOnly : {FALSE}]
BOnly(ks, uses, loads) == [k : ks, use : uses, load : loads, bOnly : {TRUE}]

\* Tiles of one operand and of two whole lines, with every choice of panels;
\* four tiles in a row that use one panel while the other is filled; and a
\* reset in any cycle of a batch in which the memory ports are quiet.
ResetPlan == [shapes |-> Full({1, 3}) \cup BOnly({3}, {1}, {1}), tiles |-> 2, resets |-> 1]
MCPlans == { [shapes |-> Full({1, 4}) \cup BOnly({4}, MCPanels, MCPanels), tiles |-> 3, resets |-> 0],
             [shapes |-> Full({4}) \cup BOnly({4}, {0}, {1}) \cup BOnly({4}, {1}, {0}),
              tiles |-> 4, resets |-> 0],
             ResetPlan }
=============================================================================
