----------------------- MODULE MC_CompletionProjection -----------------------
(***************************************************************************)
(* Three candidates, two of one root cause that differ in severity, and    *)
(* lists of up to two, so that two equal ones, two of one root and two     *)
(* apart occur; targets with and without reviewable and manual atoms, and  *)
(* one that is no partition.                                               *)
(***************************************************************************)
EXTENDS CompletionProjection, TLC

MCCandidates ==
  {[root |-> "x", severity |-> "Important"], [root |-> "x", severity |-> "Nit"],
   [root |-> "y", severity |-> "Important"]}

Says(d, s, t) == [disposition |-> d, severity |-> s, text |-> t, bound |-> TRUE]
MCAnswers ==
  {Says("confirmed", "Important", "p"), Says("confirmed", "Nit", "q"),
   Says("pre_existing", "none", "p"), Says("needs_manual_review", "none", "p"),
   [Says("confirmed", "Nit", "p") EXCEPT !.bound = FALSE]}

Target(reviewable, manual) ==
  [atoms |-> 1..2, reviewable |-> reviewable, manual |-> manual]
MCTargets ==
  {Target(1..2, {}), Target({1}, {{2}}), Target({}, {{1}, {2}}), Target(1..2, {{2}})}

MCSymmetry == Permutations(Executions)
=============================================================================
