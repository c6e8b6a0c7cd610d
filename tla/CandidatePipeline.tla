-------------------------- MODULE CandidatePipeline --------------------------
(***************************************************************************)
(* The scripts that turn the answers of the reviewers into the findings of *)
(* a report: run-reviewers.py runs one command per role, each writing a    *)
(* file of candidates of its own; verify-findings.py gates every candidate *)
(* in the files of the directory; dedupe-rank.py merges the confirmed ones *)
(* that have the same key, ranks them and cuts the nits; render-report.py  *)
(* shows the sections.  The files outlive a run of the reviewers.          *)
(*                                                                         *)
(* Abstracted data: `place` stands for category, file and line in the      *)
(* order dedupe-rank.py sorts them, `title` for the first words of the     *)
(* title, which are part of the key; an item of evidence is a number, and  *)
(* each of the texts of which a merge keeps the longest is its length.     *)
(* The title and the failure scenario of a finding are those of its first  *)
(* row and are left out, and so is a row whose evidence is null, on which  *)
(* dedupe-rank.py fails when it merges.                                    *)
(***************************************************************************)
EXTENDS Naturals, Sequences, FiniteSets, SequencesExt

CONSTANTS
  Roles,       \* the roles of the mode, numbered as their files sort
  Rows,        \* the candidates a reviewer may return
  MaxRows,     \* bound on the candidates of one reviewer
  LastLine,    \* the last line of the reviewed file
  MaxNits, MaxFindings,  \* --max-nits, --max-findings
  EvidenceLimit  \* 5 in render-report.py

Severities == {"Important", "Nit", "Pre-existing", "NeedsManualReview"}
Statuses == {"confirmed", "false_positive", "pre_existing", "needs_manual_review"}

(***************************************************************************)
(* A candidate: what the gates look at.  `verdict` is the status that the  *)
(* candidate carries: a verifier is to write it, but the script believes   *)
(* whoever did, the reviewer too.  `decided` says that it has all the      *)
(* decision fields, `proven` all the other required fields, `introduced`   *)
(* is false when the candidate says so itself.                             *)
(***************************************************************************)
Row == [id : Nat, valid : BOOLEAN, severity : Severities, place : Nat, title : Nat,
        verdict : Statuses \cup {"none"}, decided : BOOLEAN, proven : BOOLEAN,
        introduced : BOOLEAN, high : BOOLEAN, evidence : Seq(Nat), text : Nat]

ASSUME PipelineAssumption ==
  /\ IsFiniteSet(Roles) /\ Roles = 1..Cardinality(Roles)
  /\ Rows \subseteq Row
  /\ MaxRows \in Nat /\ LastLine \in Nat
  /\ MaxNits \in Nat /\ MaxFindings \in Nat /\ EvidenceLimit \in Nat

VARIABLES
  outcome,    \* whether each role's command has answered
  jsonl,      \* the candidate file of each role
  stage,      \* what the host agent runs next
  static,     \* whether --static-confirm was passed
  verified,   \* verification.jsonl
  findings    \* findings.json

pipeline == <<outcome, jsonl, stage, static, verified, findings>>

Answers == SeqOf(Rows, MaxRows)

\* A directory that an earlier run of the reviewers used holds its files.
PipelineInit ==
  /\ outcome = [r \in Roles |-> "running"]
  /\ jsonl \in [Roles -> SeqOf(Rows, 1)]
  /\ stage = "review"
  /\ static = FALSE
  /\ verified = <<>>
  /\ findings = [important |-> <<>>, nits |-> <<>>, pre_existing |-> <<>>,
                 needs_manual |-> <<>>, main |-> <<>>]

-----------------------------------------------------------------------------
(* verify-findings.py                                                      *)

LineExists(row) == 1 <= row.place /\ row.place <= LastLine

\* The row that is written, with the status the gates give it.
Gated(row, status, severity) ==
  [id |-> row.id, status |-> status, severity |-> severity, place |-> row.place,
   title |-> row.title, evidence |-> row.evidence, text |-> row.text]

\* Bug: the status a candidate carries is believed before it passes a gate.
Bug_VerifyVerdictFirst(row, confirm) ==
  IF row.verdict # "none" THEN Gated(row, row.verdict, row.severity)
  ELSE IF row.valid /\ LineExists(row) /\ row.introduced /\ row.high /\ row.proven /\ confirm
  THEN Gated(row, "confirmed", row.severity)
  ELSE Gated(row, "needs_manual_review", row.severity)

VerifyCandidate(row, confirm) ==
  LET explicit(severity) == Gated(row, row.verdict, severity)
      manual(severity) == Gated(row, "needs_manual_review", severity)
  IN CASE ~row.valid \/ ~LineExists(row) -> Gated(row, "false_positive", row.severity)
       [] OTHER ->
     CASE row.verdict = "confirmed" ->
            IF row.decided THEN explicit(row.severity) ELSE manual("NeedsManualReview")
       [] row.verdict = "pre_existing" -> explicit("Pre-existing")
       [] row.verdict \in {"false_positive", "needs_manual_review"} -> explicit(row.severity)
       [] row.verdict = "none" ->
            IF ~row.introduced \/ row.severity = "Pre-existing"
            THEN Gated(row, "pre_existing", "Pre-existing")
            ELSE IF row.high /\ row.proven /\ row.decided /\ confirm
            THEN Gated(row, "confirmed", row.severity)
            ELSE manual(row.severity)

\* The files in the order of their names.
Collected == FlattenSeq(jsonl)

-----------------------------------------------------------------------------
(* dedupe-rank.py                                                          *)

Key(row) == <<row.place, row.title>>

\* The items of `more` that are not there yet, one after the other.
AddEvidence(evidence, more) ==
  LET added[n \in 0..Len(more)] ==
        IF n = 0 THEN evidence
        ELSE IF more[n] \in ToSet(added[n - 1]) THEN added[n - 1]
        ELSE Append(added[n - 1], more[n])
  IN added[Len(more)]

\* Bug: a merge keeps the texts of the first row.
Bug_AbsorbEvidenceOnly(target, row) ==
  [target EXCEPT !.evidence = AddEvidence(@, row.evidence)]

Absorb(target, row) ==
  [target EXCEPT !.evidence = AddEvidence(@, row.evidence),
                 !.text = IF row.text > @ THEN row.text ELSE @]

\* The first row of a key stays and takes what the others have.
Merge(rows, row) ==
  LET at == SelectInSeq(rows, LAMBDA r : Key(r) = Key(row))
  IN IF at = 0 THEN Append(rows, row) ELSE [rows EXCEPT ![at] = Absorb(@, row)]

MergeRows(rows) ==
  LET merged[n \in 0..Len(rows)] == IF n = 0 THEN <<>> ELSE Merge(merged[n - 1], rows[n])
  IN merged[Len(rows)]

SeverityRank(row) ==
  CASE row.severity = "Important" -> 0 [] row.severity = "Nit" -> 6
    [] row.severity = "Pre-existing" -> 7 [] OTHER -> 8

\* The rows at some positions of a list, in the order `before`.
Arranged(rows, positions, before) ==
  LET rank(i) == Cardinality({j \in positions : <<j, i>> \in before})
  IN [n \in 1..Cardinality(positions) |-> rows[CHOOSE i \in positions : rank(i) = n - 1]]

Pairs(rows) == (DOMAIN rows) \X (DOMAIN rows)
ListOrder(rows) == {p \in Pairs(rows) : p[1] < p[2]}

\* sorted by sort_key, which is stable.
SortsBefore(rows, i, j) ==
  \/ SeverityRank(rows[i]) < SeverityRank(rows[j])
  \/ /\ SeverityRank(rows[i]) = SeverityRank(rows[j])
     /\ \/ rows[i].place < rows[j].place
        \/ rows[i].place = rows[j].place /\ i < j
SortOrder(rows) == {p \in Pairs(rows) : SortsBefore(rows, p[1], p[2])}
Sorted(rows) == Arranged(rows, DOMAIN rows, SortOrder(rows))

WithStatus(rows, status) ==
  Arranged(rows, {i \in DOMAIN rows : rows[i].status = status}, ListOrder(rows))
WithSeverity(rows, severity) ==
  Arranged(rows, {i \in DOMAIN rows : rows[i].severity = severity}, ListOrder(rows))
Prefix(rows, n) == SubSeq(rows, 1, IF Len(rows) < n THEN Len(rows) ELSE n)

Ranked(rows) ==
  LET deduped == Sorted(MergeRows(WithStatus(rows, "confirmed")))
      important == WithSeverity(deduped, "Important")
      nits == Prefix(WithSeverity(deduped, "Nit"), MaxNits)
  IN [important |-> important, nits |-> nits,
      pre_existing |-> Sorted(WithStatus(rows, "pre_existing")),
      needs_manual |-> Sorted(WithStatus(rows, "needs_manual_review")),
      main |-> Prefix(important \o nits, MaxFindings)]

-----------------------------------------------------------------------------
(* The steps.  The reviewers run side by side; each touches its own file.  *)

\* The command answered; whatever its exit code, its candidates are kept.
ReviewerAnswers(r) ==
  /\ stage = "review" /\ outcome[r] = "running"
  /\ \E rows \in Answers : jsonl' = [jsonl EXCEPT ![r] = rows]
  /\ outcome' = [outcome EXCEPT ![r] = "answered"]
  /\ UNCHANGED <<stage, static, verified, findings>>

\* It did not answer in time, or there is no command to run: the file that an
\* earlier run left stays where it is.
ReviewerSilent(r) ==
  /\ stage = "review" /\ outcome[r] = "running"
  /\ outcome' = [outcome EXCEPT ![r] = "silent"]
  /\ UNCHANGED <<jsonl, stage, static, verified, findings>>

\* main of run-reviewers.py waits for all of them and writes the manifest; a
\* command that could not be started ends it before that.
WriteManifest ==
  /\ stage = "review"
  /\ \A r \in Roles : outcome[r] # "running"
  /\ \/ stage' = "verify"
     \/ stage' = "aborted" /\ \E r \in Roles : outcome[r] = "silent"
  /\ UNCHANGED <<outcome, jsonl, static, verified, findings>>

Verify ==
  /\ stage = "verify"
  /\ static' \in BOOLEAN
  /\ verified' = [i \in DOMAIN Collected |-> VerifyCandidate(Collected[i], static')]
  /\ stage' = "rank"
  /\ UNCHANGED <<outcome, jsonl, findings>>

Rank ==
  /\ stage = "rank"
  /\ findings' = Ranked(verified)
  /\ stage' = "report"
  /\ UNCHANGED <<outcome, jsonl, static, verified>>

PipelineNext ==
  \/ \E r \in Roles : ReviewerAnswers(r) \/ ReviewerSilent(r)
  \/ WriteManifest \/ Verify \/ Rank

-----------------------------------------------------------------------------
(* render-report.py                                                        *)

\* The confirmed findings, in the order in which they are shown and posted.
Kept == findings.important \o findings.nits

\* What the report shows of them: some items of evidence are enough.
Shown == [n \in DOMAIN Kept |-> [Kept[n] EXCEPT !.evidence = Prefix(@, EvidenceLimit)]]

-----------------------------------------------------------------------------
(* Properties.                                                             *)

\* Nothing stands among the confirmed findings of a report without a candidate
\* of its name whose line exists, which has the fields a reader decides by,
\* and which either carries the status "confirmed", whoever wrote it, or passed
\* every gate of --static-confirm.
ConfirmedEarned ==
  stage = "report" =>
    \A f \in ToSet(Kept) : \E row \in ToSet(Collected) :
      /\ row.id = f.id /\ row.valid /\ LineExists(row) /\ row.decided
      /\ row.verdict = "confirmed" \/
           (row.verdict = "none" /\ static /\ row.high /\ row.proven /\ row.introduced)

\* The first confirmed row with the key of a row; a merge keeps its severity.
Representative(row) ==
  LET same == {j \in DOMAIN verified : verified[j].status = "confirmed" /\ Key(verified[j]) = Key(row)}
  IN verified[CHOOSE j \in same : \A k \in same : j <= k]

\* A finding shows what a row says: texts as long as its own, and its evidence
\* or as much evidence as a report shows.
Tells(finding, row) ==
  /\ row.text <= finding.text
  /\ ToSet(row.evidence) \subseteq ToSet(finding.evidence) \/ Len(finding.evidence) = EvidenceLimit

\* The merge, the ranking and the limits lose nothing but what the limits say:
\* at most one finding of the report has the key of a confirmed candidate, and
\* it tells the candidate; there is none only when the first candidate with
\* the key is a nit and the report has all the nits it may have, or when that
\* candidate has a severity without a section.  The limit is on what the first
\* candidate is: an Important one that comes behind a Nit with its key goes
\* with the Nit.
ConfirmedShown ==
  stage = "report" =>
    \A row \in ToSet(verified) : row.status = "confirmed" =>
      LET mine == {n \in DOMAIN Shown : Key(Shown[n]) = Key(row)}
          severity == Representative(row).severity
      IN /\ Cardinality(mine) <= 1
         /\ \A n \in mine : Tells(Shown[n], row)
         /\ mine = {} => \/ severity = "Nit" /\ Len(findings.nits) = MaxNits
                         \/ severity \notin {"Important", "Nit"}
=============================================================================
