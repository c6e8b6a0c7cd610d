----------------------------- MODULE PostReview -----------------------------
(***************************************************************************)
(* post-github-review.py and post-github-summary.py, run on the findings   *)
(* that CandidatePipeline produced.  The context of the pull request was   *)
(* collected when the session began; its author may push at any time       *)
(* since, and the files are fetched only now.  A call of gh may fail, time *)
(* out before GitHub did anything, or after; the user may run the script   *)
(* again when it failed.                                                   *)
(*                                                                         *)
(* Abstracted data: one reviewed file.  Its patch is the lines that the    *)
(* parser gets from splitlines(), each with what it looks like and whether *)
(* it `starts` a line of the diff: splitlines() also cuts a line of the    *)
(* diff at a form feed and at other characters that end no line for git,   *)
(* and the rest of it then looks like a line of any kind.  "added_plus"    *)
(* and "removed_minus" begin with three signs, as a line does whose own    *)
(* text begins with two, and the parser takes them for file headers;       *)
(* "bare_header" begins like a hunk header and has no number; "other" is   *)
(* the remark about a missing newline, or no line of a diff at all.        *)
(***************************************************************************)
EXTENDS CandidatePipeline

CONSTANTS
  PatchTexts,   \* the patches a push may leave
  MaxComments,  \* --max-comments
  ListLimit, AppendixLimit,  \* 20 and 10 in the scripts
  MaxHeads,     \* bound on the heads the pull request goes through
  MaxTries      \* bound on the runs of the posting script

LineKinds ==
  {"hunk", "bare_header", "added", "added_plus", "context", "removed", "removed_minus", "other"}
RawLine == [kind : LineKinds, at : Nat, starts : BOOLEAN]
Events == {"COMMENT", "REQUEST_CHANGES", "APPROVE"}

ASSUME PostAssumption ==
  /\ \A p \in PatchTexts : p \in Seq(RawLine)
  /\ MaxComments \in Nat /\ ListLimit \in Nat /\ AppendixLimit \in Nat
  /\ MaxHeads \in Nat \ {0} /\ MaxTries \in Nat

VARIABLES
  patch,    \* the patch of each head the pull request had; the session
            \* collected the first
  mode,     \* --post review or --post summary, once posting began
  posting,  \* where the script is
  fetched,  \* the head whose files it has
  payload,  \* what it is to post
  tries,    \* how often it was run
  posts,    \* the reviews or comments on GitHub
  lost      \* those whose answer the script did not get (history)

post == <<patch, mode, posting, fetched, payload, tries, posts, lost>>
postingVars == <<pipeline, post>>

NoPayload == [comments |-> <<>>, skipped |-> <<>>, listed |-> <<>>, appendix |-> <<>>]
ContextHead == 1

PostingInit ==
  /\ PipelineInit
  /\ \E p \in PatchTexts : patch = <<p>>
  /\ mode = "none"
  /\ posting = "idle" /\ fetched = 0 /\ payload = NoPayload
  /\ tries = 0 /\ posts = 0 /\ lost = 0

-----------------------------------------------------------------------------
(* The payload.                                                            *)

\* Bug: removed lines are counted too.
Bug_CountRemoved(acc, raw) ==
  CASE raw.kind = "hunk" -> [open |-> TRUE, right |-> raw.at, lines |-> acc.lines]
    [] raw.kind = "bare_header" -> [acc EXCEPT !.open = FALSE]
    [] raw.kind \in {"added", "context"} /\ acc.open ->
         [acc EXCEPT !.lines = @ \cup {acc.right}, !.right = @ + 1]
    [] raw.kind = "removed" /\ acc.open -> [acc EXCEPT !.right = @ + 1]
    [] OTHER -> acc

\* parse_commentable_right_lines: one pass with a counter that what looks like
\* a hunk header sets, or takes away when it has no number; before the first
\* header there is no counter.
CountLine(acc, raw) ==
  CASE raw.kind = "hunk" -> [open |-> TRUE, right |-> raw.at, lines |-> acc.lines]
    [] raw.kind = "bare_header" -> [acc EXCEPT !.open = FALSE]
    [] raw.kind \in {"added", "context"} /\ acc.open ->
         [acc EXCEPT !.lines = @ \cup {acc.right}, !.right = @ + 1]
    [] OTHER -> acc

CommentableLines(raw) ==
  LET counted[n \in 0..Len(raw)] ==
        IF n = 0 THEN [open |-> FALSE, right |-> 0, lines |-> {}]
        ELSE CountLine(counted[n - 1], raw[n])
  IN counted[Len(raw)].lines

Appendix == Prefix(findings.pre_existing, AppendixLimit) \o Prefix(findings.needs_manual, AppendixLimit)

\* Bug: a finding beyond --max-comments is dropped.
Bug_PlaceOrDrop(lines, acc, row) ==
  IF row.place > 0 /\ row.place \in lines
  THEN IF Len(acc.comments) < MaxComments THEN [acc EXCEPT !.comments = Append(@, row)] ELSE acc
  ELSE [acc EXCEPT !.skipped = Append(@, row)]

\* A finding becomes an inline comment while there is room for one and its
\* line is commentable; the others are skipped, and the body lists them.
PlaceFinding(lines, acc, row) ==
  IF Len(acc.comments) < MaxComments /\ row.place > 0 /\ row.place \in lines
  THEN [acc EXCEPT !.comments = Append(@, row)]
  ELSE [acc EXCEPT !.skipped = Append(@, row)]

PlaceFindings(lines, rows) ==
  LET placed[n \in 0..Len(rows)] ==
        IF n = 0 THEN NoPayload ELSE PlaceFinding(lines, placed[n - 1], rows[n])
  IN placed[Len(rows)]

ReviewPayload ==
  LET placed == PlaceFindings(CommentableLines(patch[fetched]), Kept)
  IN [placed EXCEPT !.listed = Prefix(placed.skipped, ListLimit), !.appendix = Appendix]

\* The comment of render-github-summary.py holds every finding.
SummaryPayload == [NoPayload EXCEPT !.listed = Kept, !.appendix = Appendix]

-----------------------------------------------------------------------------
(* The steps.                                                              *)

\* The author of the pull request pushes.
Push ==
  /\ Len(patch) < MaxHeads
  /\ \E p \in PatchTexts : patch' = Append(patch, p)
  /\ UNCHANGED <<pipeline, mode, posting, fetched, payload, tries, posts, lost>>

\* A run starts, and reads the files of the pull request as they are now, or
\* from a file that was saved since the session began; or that call fails.
FetchFiles ==
  /\ stage = "report" /\ mode \in {"none", "review"}
  /\ posting \in {"idle", "failed"} /\ tries < MaxTries
  /\ tries' = tries + 1 /\ mode' = "review"
  /\ \/ /\ posting' = "build"
        /\ \E h \in DOMAIN patch : fetched' = h
     \/ posting' = "failed" /\ UNCHANGED fetched
  /\ UNCHANGED <<pipeline, patch, payload, posts, lost>>

\* An approval with inline comments is refused; a dry run ends here.
BuildReview ==
  /\ posting = "build"
  /\ payload' = ReviewPayload
  /\ \E event \in Events :
       IF event = "APPROVE" /\ payload'.comments # <<>>
       THEN posting' = "failed"
       ELSE posting' \in {"dry", "send"}
  /\ UNCHANGED <<pipeline, patch, mode, fetched, tries, posts, lost>>

StartSummary ==
  /\ stage = "report" /\ mode \in {"none", "summary"}
  /\ posting \in {"idle", "failed"} /\ tries < MaxTries
  /\ tries' = tries + 1 /\ mode' = "summary"
  /\ payload' = SummaryPayload
  /\ posting' = "send"
  /\ UNCHANGED <<pipeline, patch, fetched, posts, lost>>

\* Bug: a call that failed is made again.
Bug_SendTwiceOnFailure ==
  /\ posting = "send"
  /\ \/ posting' = "posted" /\ posts' = posts + 1 /\ UNCHANGED lost
     \/ posting' = "failed" /\ posts' = posts + 1 /\ lost' = lost + 1
     \/ posting' = "failed" /\ posts' = posts + 2 /\ lost' = lost + 1
     \/ posting' = "posted" /\ posts' = posts + 2 /\ UNCHANGED lost
  /\ UNCHANGED <<pipeline, patch, mode, fetched, payload, tries>>

\* GitHub creates the review or the comment, and the answer arrives or not;
\* or nothing is created and the script fails.
Send ==
  /\ posting = "send"
  /\ \/ posting' = "posted" /\ posts' = posts + 1 /\ UNCHANGED lost
     \/ posting' = "failed" /\ posts' = posts + 1 /\ lost' = lost + 1
     \/ posting' = "failed" /\ UNCHANGED <<posts, lost>>
  /\ UNCHANGED <<pipeline, patch, mode, fetched, payload, tries>>

\* --edit-last: gh replaces the last comment of the user, whatever it is, or fails.
EditLast ==
  /\ posting = "send" /\ mode = "summary"
  /\ posting' \in {"posted", "failed"}
  /\ UNCHANGED <<pipeline, patch, mode, fetched, payload, tries, posts, lost>>

PostingNext ==
  \/ PipelineNext /\ UNCHANGED post
  \/ Push \/ FetchFiles \/ BuildReview \/ StartSummary \/ Send \/ EditLast

PostingSpec == PostingInit /\ [][PostingNext]_postingVars

-----------------------------------------------------------------------------
(* Properties.                                                             *)

Built == posting \in {"dry", "send", "posted"}
TimesIn(rows, row) == Cardinality({i \in DOMAIN rows : rows[i] = row})

\* The last number of a set up to k, 0 if there is none.
LatestIn(S, k) == Max({0} \cup {i \in S : i <= k})

\* The right side of a diff, counted over the lines of the diff itself.
DiffHeaders(raw) == {j \in DOMAIN raw : raw[j].starts /\ raw[j].kind = "hunk"}
OnRight(raw) ==
  {j \in DOMAIN raw : raw[j].starts /\ raw[j].kind \in {"added", "added_plus", "context"}}
LineNumber(raw, k) ==
  LET header == LatestIn(DiffHeaders(raw), k)
  IN raw[header].at + Cardinality({j \in OnRight(raw) : header <= j /\ j < k})
RightSide(raw) ==
  {LineNumber(raw, k) : k \in {k \in OnRight(raw) : LatestIn(DiffHeaders(raw), k) # 0}}

\* The lines from the start of what the parser takes for a hunk, where a line
\* of the diff is cut in that hunk.
Overrun(raw) ==
  LET headers == {j \in DOMAIN raw : raw[j].kind = "hunk"}
      cut == {k \in DOMAIN raw : ~raw[k].starts /\ LatestIn(headers, k) # 0}
  IN UNION {{line \in CommentableLines(raw) : line >= raw[LatestIn(headers, k)].at} : k \in cut}

\* An inline comment is on a line that is in the diff of the commit the review
\* names, also where the parser takes a line for a file header and loses
\* count.  Two things lead it off the diff: the files were fetched after a
\* push, or splitlines() cuts a line of the diff, from whose hunk on the
\* counter may run ahead.
InlineOnDiffLine ==
  Built /\ fetched = ContextHead =>
    \A row \in ToSet(payload.comments) :
      row.place \in RightSide(patch[ContextHead]) \cup Overrun(patch[ContextHead])

\* Every confirmed finding of the report is posted, once: inline or, as long
\* as the list has room, in the body.
EveryFindingPlaced ==
  Built /\ Len(payload.skipped) <= ListLimit =>
    \A row \in ToSet(Kept) :
      TimesIn(payload.comments, row) + TimesIn(payload.listed, row) = 1

\* Only an answer that got lost can lead to a second review or comment.
PostedOnce == posts <= lost + 1

\* README.md:121: a verified finding that cannot be placed on a commentable line
\* of the diff is listed in the review body instead.
UnplaceableListed ==
  Built => \A row \in ToSet(payload.skipped) :
             row.place \notin CommentableLines(patch[fetched]) => row \in ToSet(payload.listed)
=============================================================================
