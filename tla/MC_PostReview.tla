---------------------------- MODULE MC_PostReview ----------------------------
(***************************************************************************)
(* Two reviewers and a file of three lines.  The candidates fail each gate *)
(* in turn; three share a key, with different severities and evidence.     *)
(***************************************************************************)
EXTENDS PostReview

Good == [id |-> 1, valid |-> TRUE, severity |-> "Important", place |-> 1, title |-> 1,
         verdict |-> "confirmed", decided |-> TRUE, proven |-> TRUE,
         introduced |-> TRUE, high |-> TRUE, evidence |-> <<1>>, text |-> 1]

Gates ==
  {Good,
   [Good EXCEPT !.id = 2, !.valid = FALSE],
   [Good EXCEPT !.id = 3, !.place = 0],
   [Good EXCEPT !.id = 4, !.place = 4],
   [Good EXCEPT !.id = 5, !.decided = FALSE],
   [Good EXCEPT !.id = 6, !.verdict = "pre_existing"],
   [Good EXCEPT !.id = 7, !.verdict = "false_positive"],
   [Good EXCEPT !.id = 8, !.severity = "Pre-existing", !.evidence = <<2, 3>>]}
Unverified ==
  {[Good EXCEPT !.id = 10, !.verdict = "none"],
   [Good EXCEPT !.id = 11, !.verdict = "none", !.introduced = FALSE],
   [Good EXCEPT !.id = 12, !.verdict = "none", !.high = FALSE],
   [Good EXCEPT !.id = 13, !.verdict = "none", !.proven = FALSE],
   [Good EXCEPT !.id = 14, !.verdict = "none", !.decided = FALSE],
   [Good EXCEPT !.id = 15, !.verdict = "none", !.place = 2, !.severity = "Nit"]}
Mergeable ==
  {[Good EXCEPT !.id = 20, !.severity = "Nit", !.evidence = <<2, 1>>, !.text = 2],
   [Good EXCEPT !.id = 21, !.place = 2, !.evidence = <<3, 3, 4>>],
   [Good EXCEPT !.id = 22, !.place = 3, !.title = 2, !.severity = "Nit"],
   [Good EXCEPT !.id = 23, !.place = 3, !.severity = "Nit"]}

MCRows == Gates \cup Unverified \cup Mergeable

Line(k) == [kind |-> k, at |-> 0, starts |-> TRUE]
Hunk(n) == [kind |-> "hunk", at |-> n, starts |-> TRUE]
Rest(line) == [line EXCEPT !.starts = FALSE]

\* A plain hunk; one in which the parser loses count; two hunks, and an added
\* line of the second cut in two, so that the parser gives a third line; one
\* whose lines are cut before what looks like headers, of which the first
\* leads the parser to a line above the hunk; no patch, as for a binary file.
MCPatchTexts ==
  {<<Hunk(1), Line("context"), Line("removed"), Line("added")>>,
   <<Hunk(1), Line("added_plus"), Line("removed_minus"), Line("added"), Line("other")>>,
   <<Hunk(1), Line("removed"), Hunk(2), Line("added"), Rest(Line("context"))>>,
   <<Hunk(2), Line("added"), Rest(Hunk(1)), Line("added"),
     Rest(Line("bare_header")), Line("context")>>,
   <<>>}
=============================================================================
