----------------------------- MODULE MCWorkSite ------------------------------
(***************************************************************************)
(* Instance of WorkSite for TLC: two trucks that report what matters to the *)
(* queue, and two timers, which is one more than one message needs.         *)
(***************************************************************************)
EXTENDS WorkSite, TLC

CONSTANTS t1, t2

MCTrucks == {t1, t2}
MCReports == {"IN", "FINISH", "CLEAR"}
MCTimers == {1, 2}
MCClockSteps == {-2, 2}
Symmetry == Permutations(MCTrucks)
==============================================================================
