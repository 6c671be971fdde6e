----------------------------- MODULE MCSessions -----------------------------
(* Instances of Sessions for TLC. *)
EXTENDS Sessions, TLC

CONSTANTS s1, s2, w1, w2, c1, c2, ida, xdbg

TwoIds == {s1, s2}
BothKinds == {ida, xdbg}
TwoWorkers == {w1, w2}
TwoThreads == {c1, c2}

IdSymmetry == Permutations(Ids) \cup Permutations(Workers) \cup Permutations(Threads)
=============================================================================
