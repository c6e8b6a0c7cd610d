----------------------- MODULE MC_ViewMaterialization -----------------------
(***************************************************************************)
(* Two calls for one path, with the same text, as the recovery views of    *)
(* two sessions may have, or with two.                                     *)
(***************************************************************************)
EXTENDS ViewMaterialization, TLC

Symmetry == Permutations(Call) \cup Permutations(Directory) \cup Permutations(Text)
=============================================================================
