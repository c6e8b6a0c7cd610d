--------------------------- MODULE MC_Evaluation ---------------------------
(* One candidate on the target and one off it; lists may repeat the first. *)
EXTENDS Evaluation, TLC

CONSTANTS cOn, cOff, t1, t2, t3, l1, l2, l3

MCCandidate == {cOn, cOff}
MCOnTarget == {cOn}
MCTwoThreads == {t1, t2}
MCTwoLaunches == {l1, l2}
MCThreeThreads == {t1, t2, t3}
MCThreeLaunches == {l1, l2, l3}
MCSymmetry == Permutations(Thread) \cup Permutations(Launch)
=============================================================================
