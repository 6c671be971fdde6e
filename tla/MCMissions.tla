----------------------------- MODULE MCMissions -----------------------------
(***************************************************************************)
(* Small instances of Missions.  Threads and runs are model values that no *)
(* definition tells apart; missions are numbered in the order they are     *)
(* queued, which the claim depends on.                                     *)
(***************************************************************************)
EXTENDS Missions, TLC

CONSTANTS t1, t2, r1, r2, r3

OneThread  == {t1}
TwoThreads == {t1, t2}
TwoRuns    == {r1, r2}
ThreeRuns  == {r1, r2, r3}

RowSymmetry == Permutations(Thread) \cup Permutations(Run)
=============================================================================
