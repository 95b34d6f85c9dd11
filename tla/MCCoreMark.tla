----------------------------- MODULE MCCoreMark -----------------------------
(***************************************************************************)
(* CoreMark on the builds with known results, on small memories, and with  *)
(* the iteration count left to the calibration.                            *)
(***************************************************************************)
EXTENDS CoreMark

(* Kind of run, TOTAL_DATA_SIZE, ITERATIONS, milliseconds per iteration,   *)
(* and the counter when main starts.                                       *)
Build(run, total, n, tau, t0) ==
    [run |-> run, total |-> total, iterations |-> n, tau |-> tau, t0 |-> t0]

Known == {Build("performance", 2000, 200, 60, 0), Build("validation", 2000, 200, 60, 0),
          Build("unset", 1200, 200, 60, 71000)}

Small == {Build(run, total, 200, 60, 0) : run \in {"unset", "performance", "profile"},
                                          total \in {360, 480, 600, 800, 1000}}

Calibrated == {Build("performance", 360, 0, tau, t0) :
                  tau \in {1, 7, 99, 100, 101, 110, 500, 1000}, t0 \in {0, 71000}}

MCConfigs == Known \cup Small \cup Calibrated
=============================================================================
