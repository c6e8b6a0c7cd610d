------------------------- MODULE MC_WorktreeSession -------------------------
(***************************************************************************)
(* Two runs, for the same session or for two whose paths begin alike, and  *)
(* three versions of the live file.                                        *)
(***************************************************************************)
EXTENDS WorktreeSession, TLC

MCLonger == {<<"s", "s">>, <<"s1", "s1">>, <<"s", "s1">>}
MCRules == <<"rule">>
MCSymmetry == Permutations(Runs) \cup Permutations(Versions)
=============================================================================
