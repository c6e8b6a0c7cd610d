------------------------ MODULE MC_SessionLifecycle ------------------------
(* Two candidates, of which one may be off the target; lists of up to two. *)
EXTENDS SessionLifecycle, TLC

CONSTANTS c1, c2, cOff, t1, t2, t3, l1, l2, l3

MCCandidate == {c1, c2, cOff}
MCOnTarget == {c1, c2}
MCThread == {t1, t2, t3}
MCLaunch == {l1, l2, l3}

MCSymmetry ==
  Permutations(MCOnTarget) \cup Permutations(MCThread) \cup Permutations(MCLaunch)
=============================================================================
