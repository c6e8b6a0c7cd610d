------------------------- MODULE MC_TargetPartition -------------------------
(***************************************************************************)
(* Targets of two paths.  The changes are those git can report: an added   *)
(* path has no old mode, a deleted one no new mode, and a type change goes *)
(* between files, links and submodules.  Passages do not overlap, except   *)
(* that two may lie in one hunk.                                           *)
(***************************************************************************)
EXTENDS TargetPartition

Plain == [status |-> "M", old |-> "file", new |-> "file", sensitive |-> FALSE,
          empty |-> FALSE, binary |-> FALSE, nul |-> FALSE, utf8 |-> TRUE,
          hunks |-> 2, passages |-> {}]

Moded(s, o, n) == [Plain EXCEPT !.status = s, !.old = o, !.new = n]

\* What happened to the path, with and without hunks.
Kinds ==
  {[c EXCEPT !.hunks = h] : h \in {0, 1},
     c \in {Moded("A", "none", "file"), Moded("D", "exec", "none"), Moded("M", "file", "exec"),
            Moded("A", "none", "link"), Moded("A", "none", "gitlink"),
            Moded("T", "file", "gitlink"), Moded("T", "link", "exec"),
            Moded("M", "other", "file"), Moded("U", "none", "none")}}

\* Diffs that are withheld, with a reason that hides another one.
Withheld ==
  {[Plain EXCEPT !.sensitive = TRUE], [Plain EXCEPT !.utf8 = FALSE],
   [Plain EXCEPT !.nul = TRUE, !.utf8 = FALSE], [Plain EXCEPT !.empty = TRUE, !.hunks = 0],
   [Plain EXCEPT !.binary = TRUE, !.hunks = 0],
   [Moded("M", "file", "exec") EXCEPT !.binary = TRUE, !.hunks = 0],
   [Moded("M", "exec", "file") EXCEPT !.sensitive = TRUE, !.hunks = 0]}

\* Diffs with redacted passages before, in and across their hunks.
Apart(p, q) == p[2] <= q[1] \/ q[2] <= p[1]
Redacted ==
  {[Plain EXCEPT !.passages = ps] :
     ps \in {s \in SUBSET Passages : \A p, q \in s : p # q => Apart(p, q)}}
  \cup {[Moded("M", "file", "exec") EXCEPT !.hunks = 0, !.passages = {<<0, 0>>}],
        [Plain EXCEPT !.sensitive = TRUE, !.passages = {<<1, 2>>}]}

MCChanges == Kinds \cup Withheld \cup Redacted
=============================================================================
