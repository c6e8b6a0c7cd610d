----------------------- MODULE SessionLifecycle_proofs -----------------------
(***************************************************************************)
(* What every session that the Store accepts satisfies, proved for any     *)
(* candidates, workers and bound on a reviewer's candidates.               *)
(*                                                                         *)
(* The properties speak of the ledger, the guards of the validator's       *)
(* state, so each invariant ties a part of that state to the artifacts     *)
(* that are in the ledger.                                                 *)
(***************************************************************************)
EXTENDS SessionLifecycle, FiniteSetTheorems, TLAPS

\* The stages that the validator's state can be in.
Staged ==
  /\ plan.reviewable \in BOOLEAN
  /\ life.packet => plan.reviewable
  /\ life.pending.role \in {"none", "reviewer", "verifier"}
  /\ life.pending.role = "none" => life.pending = NoTask
  /\ life.pending.role = "reviewer" <=> life.packet /\ ~life.reviewed
  /\ life.pending.role = "verifier" => life.reviewed /\ life.covered
  /\ life.pending.role = "verifier" => life.verified < Len(life.cands)
  /\ life.reviewed => life.packet
  /\ ~life.reviewed => life.verified = 0
  /\ life.verified <= Len(life.cands)
  /\ life.reported => life.terminal # "none"
  /\ ~life.begun => life = Fresh

\* The validator remembers the terminal, and nothing but its report follows.
Ending ==
  \A i \in Terminals :
    /\ life.terminal = ledger[i].type
    /\ ~life.reported => Len(ledger) = i
    /\ life.reported =>
         /\ Len(ledger) = i + 1
         /\ ledger[i + 1].type = ReportOf(ledger[i].type)
         /\ ledger[i + 1].inputs = {i}

\* The identities of all accepted executions are remembered.
Remembered ==
  \A i \in Results :
    /\ ledger[i].task \in life.tasks
    /\ ledger[i].thread \in life.threads
    /\ ledger[i].launch \in life.launches

\* The remembered dispositions are the ledger's, and a completion's verdict
\* was computed from them.
Accounted ==
  /\ \A i \in At("verifier_result") :
       \E k \in DOMAIN life.dispositions : life.dispositions[k] = ledger[i].disposition
  /\ \A k \in DOMAIN life.dispositions :
       \E i \in At("verifier_result") : life.dispositions[k] = ledger[i].disposition
  /\ \A i \in At("evaluation_completion") :
       ledger[i].verdict = Verdict(plan, life.dispositions)

Inv == TypeOK /\ Staged /\ Ending /\ Remembered /\ ExecutionsDistinct /\ Accounted

-----------------------------------------------------------------------------
(* The data *)

\* A candidate list is a sequence no longer than the bound.
LEMMA CandidateListIsSequence ==
  ASSUME NEW c \in CandidateLists
  PROVE  c \in Seq(Candidate) /\ Len(c) \in 0 .. MaxCandidates
  BY LifecycleAssumption DEF CandidateLists

LEMMA EmptyCandidateList == << >> \in CandidateLists
<1>1. << >> \in [1 .. 0 -> Candidate]
  OBVIOUS
<1> QED
  BY <1>1, LifecycleAssumption DEF CandidateLists

\* An artifact stays one while the ledger grows: what a terminal or a report
\* can name only increases.
LEMMA ArtifactGrows == ASSUME NEW n \in Nat PROVE Artifact(n) \subseteq Artifact(n + 1)
<1> SUFFICES ASSUME NEW a \in EndArtifact(n) PROVE a \in EndArtifact(n + 1)
  BY DEF Artifact
<1>1. ASSUME NEW d \in Diagnosis, NEW k \in 0 .. n, a = Diagnostic(d, 1 .. k)
      PROVE  a \in EndArtifact(n + 1)
  <2>1. k \in 0 .. (n + 1)
    OBVIOUS
  <2> QED
    BY <1>1, <2>1 DEF EndArtifact
<1>2. ASSUME NEW v \in Verdicts, NEW k \in 0 .. n, a = Completion(v, 1 .. k)
      PROVE  a \in EndArtifact(n + 1)
  <2>1. k \in 0 .. (n + 1)
    OBVIOUS
  <2> QED
    BY <1>2, <2>1 DEF EndArtifact
<1>3. ASSUME NEW r \in ReportKinds, NEW i \in 1 .. n,
             a = Report(r, i)
      PROVE  a \in EndArtifact(n + 1)
  <2>1. i \in 1 .. (n + 1)
    OBVIOUS
  <2> QED
    BY <1>3, <2>1 DEF EndArtifact
<1> QED
  BY <1>1, <1>2, <1>3 DEF EndArtifact

\* What an extended ledger holds.
LEMMA Extended ==
  ASSUME NEW S, NEW s \in Seq(S), NEW a, NEW t, t = Append(s, a)
  PROVE  /\ Len(s) \in Nat /\ DOMAIN s = 1 .. Len(s)
         /\ Len(t) = Len(s) + 1
         /\ DOMAIN t = 1 .. (Len(s) + 1)
         /\ \A i \in 1 .. Len(s) : t[i] = s[i]
         /\ t[Len(s) + 1] = a
  OBVIOUS

LEMMA StageRoles ==
  /\ ReviewerTask.role = "reviewer"
  /\ \A c, k : VerifierTask(c, k).role = "verifier"
  /\ NoTask.role = "none"
  /\ \A k \in Task : k.role = "reviewer" \/ k.role = "verifier"
  BY DEF ReviewerTask, VerifierTask, NoTask, Task

-----------------------------------------------------------------------------
(* The commits one by one: the guard that applies and what it changes *)

LEMMA TargetPacketCommitted ==
  ASSUME NEW p, Commit(TargetPacket(p))
  PROVE  /\ AdmitsTargetPacket(plan, life, TargetPacket(p))
         /\ life' = [life EXCEPT !.begun = TRUE]
  BY DEF Commit, Admits, Advance, TargetPacket, ReportKinds

LEMMA ReviewerPacketCommitted ==
  ASSUME NEW k, Commit(RolePacket("reviewer_packet", k))
  PROVE  /\ AdmitsReviewerPacket(plan, life, RolePacket("reviewer_packet", k))
         /\ life' = [life EXCEPT !.packet = TRUE, !.pending = k]
  BY DEF Commit, Admits, Advance, RolePacket, ReportKinds

\* The validator's state after a reviewer result and after a verifier result.
Reviewed(t, l, c, f) ==
  [life EXCEPT !.pending = NoTask, !.reviewed = TRUE, !.tasks = @ \cup {ReviewerTask},
               !.threads = @ \cup {t}, !.launches = @ \cup {l},
               !.cands = c, !.covered = f]
Judged(k, t, l, d) ==
  [life EXCEPT !.pending = NoTask, !.verified = @ + 1, !.tasks = @ \cup {k},
               !.threads = @ \cup {t}, !.launches = @ \cup {l},
               !.dispositions = Append(@, d)]

LEMMA ReviewerResultCommitted ==
  ASSUME NEW t, NEW l, NEW c, NEW f, Commit(ReviewerResult(ReviewerTask, t, l, c, f))
  PROVE  /\ AdmitsReviewerResult(life, ReviewerResult(ReviewerTask, t, l, c, f))
         /\ life' = Reviewed(t, l, c, f)
  BY DEF Reviewed, Commit, Admits, Advance, Executed, ReviewerResult, ReportKinds

LEMMA VerifierPacketCommitted ==
  ASSUME NEW k, Commit(RolePacket("verifier_packet", k))
  PROVE  /\ AdmitsVerifierPacket(life, RolePacket("verifier_packet", k))
         /\ life' = [life EXCEPT !.pending = k]
  BY DEF Commit, Admits, Advance, RolePacket, ReportKinds

LEMMA VerifierResultCommitted ==
  ASSUME NEW k, NEW t, NEW l, NEW d, Commit(VerifierResult(k, t, l, d))
  PROVE  /\ AdmitsVerifierResult(life, VerifierResult(k, t, l, d))
         /\ life' = Judged(k, t, l, d)
  BY DEF Judged, Commit, Admits, Advance, Executed, VerifierResult, ReportKinds

LEMMA DiagnosticCommitted ==
  ASSUME NEW d, NEW i, Commit(Diagnostic(d, i))
  PROVE  /\ AdmitsDiagnostic(plan, life, Len(ledger), Diagnostic(d, i))
         /\ life' = [life EXCEPT !.terminal = "diagnostic"]
  BY DEF Commit, Admits, Advance, Diagnostic, ReportKinds

LEMMA CompletionCommitted ==
  ASSUME NEW v, NEW i, Commit(Completion(v, i))
  PROVE  /\ AdmitsCompletion(plan, life, Len(ledger), Completion(v, i))
         /\ life' = [life EXCEPT !.terminal = "evaluation_completion"]
  BY DEF Commit, Admits, Advance, Completion, ReportKinds

LEMMA ReportCommitted ==
  ASSUME NEW r \in ReportKinds, NEW i, Commit(Report(r, i))
  PROVE  /\ AdmitsReport(life, Len(ledger), Report(r, i))
         /\ life' = [life EXCEPT !.reported = TRUE]
  BY DEF Commit, Admits, Advance, Report, ReportKinds
-----------------------------------------------------------------------------
(* Types and stages *)

LEMMA LedgerTyped ==
  ASSUME TypeOK, NEW a \in Artifact(Len(ledger)), ledger' = Append(ledger, a)
  PROVE  ledger' \in Seq(Artifact(Len(ledger')))
<1> DEFINE n == Len(ledger)
<1>1. n \in Nat /\ Len(ledger') = n + 1
  BY DEF TypeOK
<1>2. Artifact(n) \subseteq Artifact(n + 1)
  BY <1>1, ArtifactGrows
<1>3. ledger \in Seq(Artifact(n + 1)) /\ a \in Artifact(n + 1)
  BY <1>1, <1>2 DEF TypeOK
<1> QED
  BY <1>1, <1>3

\* A committed artifact is well formed, and the validator's state keeps its
\* shape and stays in one of its stages.
LEMMA StageInv == ASSUME TypeOK, Staged, Next PROVE TypeOK' /\ Staged'
<1>0. /\ life.cands \in Seq(Candidate)
      /\ Len(life.cands) \in 0 .. MaxCandidates
      /\ UNCHANGED plan
  <2>1. life.cands \in CandidateLists
    BY DEF TypeOK
  <2> QED
    BY <2>1, CandidateListIsSequence
       DEF Next, Commit, CommitTargetPacket, CommitReviewerPacket, CommitReviewerResult,
           CommitVerifierPacket, CommitVerifierResult, CommitDiagnostic,
           CommitCompletion, CommitReport
<1>1. CASE CommitTargetPacket
  <2>1. PICK p \in Plan : Commit(TargetPacket(p))
    BY <1>1 DEF CommitTargetPacket
  <2>2. TargetPacket(p) \in Artifact(Len(ledger))
    BY DEF Artifact, WorkArtifact
  <2>3. ledger' \in Seq(Artifact(Len(ledger')))
    BY <2>1, <2>2, LedgerTyped DEF Commit
  <2>4. life' = [life EXCEPT !.begun = TRUE]
    BY <2>1, TargetPacketCommitted
  <2> QED
    BY <1>0, <2>3, <2>4 DEF TypeOK, Staged
<1>2. CASE CommitReviewerPacket
  <2>1. PICK k \in Task : Commit(RolePacket("reviewer_packet", k))
    BY <1>2 DEF CommitReviewerPacket
  <2>2. RolePacket("reviewer_packet", k) \in Artifact(Len(ledger))
    BY DEF Artifact, WorkArtifact
  <2>3. ledger' \in Seq(Artifact(Len(ledger')))
    BY <2>1, <2>2, LedgerTyped DEF Commit
  <2>4. /\ life.begun /\ plan.reviewable /\ ~life.reviewed
        /\ k = ReviewerTask
        /\ life' = [life EXCEPT !.packet = TRUE, !.pending = k]
    BY <2>1, ReviewerPacketCommitted DEF AdmitsReviewerPacket, RolePacket, Open
  <2> QED
    BY <1>0, <2>3, <2>4, StageRoles DEF TypeOK, Staged
<1>3. CASE CommitReviewerResult
  <2>1. PICK t \in Thread, l \in Launch, c \in CandidateLists, f \in BOOLEAN :
          Commit(ReviewerResult(ReviewerTask, t, l, c, f))
    BY <1>3 DEF CommitReviewerResult
  <2>2. ReviewerResult(ReviewerTask, t, l, c, f) \in Artifact(Len(ledger))
    BY DEF Artifact, WorkArtifact
  <2>3. ledger' \in Seq(Artifact(Len(ledger')))
    BY <2>1, <2>2, LedgerTyped DEF Commit
  <2>4. life.begun /\ life.pending.role = "reviewer" /\ ~life.reviewed
    BY <2>1, ReviewerResultCommitted DEF AdmitsReviewerResult, Open
  <2>5. life' = Reviewed(t, l, c, f)
    BY <2>1, ReviewerResultCommitted
  <2>6. ReviewerTask \in Task /\ Len(c) \in Nat
    BY CandidateListIsSequence DEF Task
  <2>7. TypeOK'
    BY <1>0, <2>3, <2>5, <2>6 DEF TypeOK, Reviewed
  <2> QED
    BY <1>0, <2>4, <2>5, <2>6, <2>7, StageRoles DEF TypeOK, Staged, Reviewed
<1>4. CASE CommitVerifierPacket
  <2>1. PICK k \in Task : Commit(RolePacket("verifier_packet", k))
    BY <1>4 DEF CommitVerifierPacket
  <2>2. RolePacket("verifier_packet", k) \in Artifact(Len(ledger))
    BY DEF Artifact, WorkArtifact
  <2>3. ledger' \in Seq(Artifact(Len(ledger')))
    BY <2>1, <2>2, LedgerTyped DEF Commit
  <2>4. /\ life.begun /\ life.reviewed /\ life.covered
        /\ life.verified < Len(life.cands)
        /\ k = Instance(life.cands, life.verified + 1)
        /\ life' = [life EXCEPT !.pending = k]
    BY <2>1, VerifierPacketCommitted DEF AdmitsVerifierPacket, RolePacket, Open
  <2>5. k.role = "verifier"
    BY <2>4, StageRoles DEF Instance
  <2> QED
    BY <1>0, <2>3, <2>4, <2>5, StageRoles DEF TypeOK, Staged
<1>5. CASE CommitVerifierResult
  <2>1. PICK k \in Task \ {ReviewerTask}, t \in Thread, l \in Launch, d \in Disposition :
          Commit(VerifierResult(k, t, l, d))
    BY <1>5 DEF CommitVerifierResult
  <2>2. VerifierResult(k, t, l, d) \in Artifact(Len(ledger))
    BY DEF Artifact, WorkArtifact
  <2>3. ledger' \in Seq(Artifact(Len(ledger')))
    BY <2>1, <2>2, LedgerTyped DEF Commit
  <2>4. life.begun /\ life.pending.role = "verifier"
    BY <2>1, VerifierResultCommitted DEF AdmitsVerifierResult, Open
  <2>5. life' = Judged(k, t, l, d)
    BY <2>1, VerifierResultCommitted
  <2>6. life.verified + 1 \in 0 .. MaxCandidates /\ life.verified + 1 <= Len(life.cands)
    BY <1>0, <2>4, LifecycleAssumption DEF TypeOK, Staged
  <2>7. Append(life.dispositions, d) \in Seq(Disposition)
    BY DEF TypeOK
  <2>8. TypeOK'
    BY <1>0, <2>3, <2>5, <2>6, <2>7 DEF TypeOK, Judged
  <2> QED
    BY <1>0, <2>4, <2>5, <2>6, <2>8, StageRoles DEF TypeOK, Staged, Judged
<1>6. CASE CommitDiagnostic
  <2>1. PICK d \in Diagnosis, k \in 0 .. Len(ledger) : Commit(Diagnostic(d, 1 .. k))
    BY <1>6 DEF CommitDiagnostic
  <2>2. Diagnostic(d, 1 .. k) \in Artifact(Len(ledger))
    BY DEF Artifact, EndArtifact
  <2>3. ledger' \in Seq(Artifact(Len(ledger')))
    BY <2>1, <2>2, LedgerTyped DEF Commit
  <2>4. life.begun /\ life' = [life EXCEPT !.terminal = "diagnostic"]
    BY <2>1, DiagnosticCommitted DEF AdmitsDiagnostic, Open
  <2> QED
    BY <1>0, <2>3, <2>4 DEF TypeOK, Staged
<1>7. CASE CommitCompletion
  <2>1. PICK v \in Verdicts, k \in 0 .. Len(ledger) : Commit(Completion(v, 1 .. k))
    BY <1>7 DEF CommitCompletion
  <2>2. Completion(v, 1 .. k) \in Artifact(Len(ledger))
    BY DEF Artifact, EndArtifact
  <2>3. ledger' \in Seq(Artifact(Len(ledger')))
    BY <2>1, <2>2, LedgerTyped DEF Commit
  <2>4. life.begun /\ life' = [life EXCEPT !.terminal = "evaluation_completion"]
    BY <2>1, CompletionCommitted DEF AdmitsCompletion, Open
  <2> QED
    BY <1>0, <2>3, <2>4 DEF TypeOK, Staged
<1>8. CASE CommitReport
  <2>1. PICK r \in ReportKinds, i \in DOMAIN ledger : Commit(Report(r, i))
    BY <1>8 DEF CommitReport
  <2>2. i \in 1 .. Len(ledger)
    BY DEF TypeOK
  <2>3. Report(r, i) \in Artifact(Len(ledger))
    BY <2>2 DEF Artifact, EndArtifact
  <2>4. ledger' \in Seq(Artifact(Len(ledger')))
    BY <2>1, <2>3, LedgerTyped DEF Commit
  <2>5. /\ life.begun /\ life.terminal # "none"
        /\ life' = [life EXCEPT !.reported = TRUE]
    BY <2>1, ReportCommitted DEF AdmitsReport, Staged, Fresh
  <2> QED
    BY <1>0, <2>4, <2>5 DEF TypeOK, Staged
<1> QED
  BY <1>1, <1>2, <1>3, <1>4, <1>5, <1>6, <1>7, <1>8 DEF Next
-----------------------------------------------------------------------------
(* What one more artifact does to the invariants about the ledger *)

Tasks(l) == <<l.tasks, l.threads, l.launches>>

LEMMA LedgerExtended ==
  ASSUME TypeOK, NEW a, ledger' = Append(ledger, a)
  PROVE  /\ Len(ledger) \in Nat /\ DOMAIN ledger = 1 .. Len(ledger)
         /\ Len(ledger') = Len(ledger) + 1
         /\ DOMAIN ledger' = 1 .. (Len(ledger) + 1)
         /\ \A i \in 1 .. Len(ledger) : ledger'[i] = ledger[i]
         /\ ledger'[Len(ledger) + 1] = a
  BY Extended DEF TypeOK

\* An artifact that is no result leaves the executions alone.
LEMMA NoExecution ==
  ASSUME TypeOK, Remembered, ExecutionsDistinct,
         NEW a, ledger' = Append(ledger, a),
         a.type \notin {"reviewer_result", "verifier_result"},
         Tasks(life') = Tasks(life)
  PROVE  Remembered' /\ ExecutionsDistinct'
  BY LedgerExtended DEF Remembered, ExecutionsDistinct, Results, At, Tasks

\* A result of a fresh execution differs from all those that are remembered.
LEMMA OneExecution ==
  ASSUME TypeOK, Remembered, ExecutionsDistinct,
         NEW a, ledger' = Append(ledger, a),
         FreshExecution(life, a),
         Tasks(life') = <<life.tasks \cup {a.task}, life.threads \cup {a.thread},
                          life.launches \cup {a.launch}>>
  PROVE  Remembered' /\ ExecutionsDistinct'
<1>1. \A i \in Results' : i \in Results \/ i = Len(ledger) + 1
  BY LedgerExtended DEF Results, At
<1>2. Remembered'
  BY <1>1, LedgerExtended DEF Remembered, Results, At, Tasks
<1>3. ExecutionsDistinct'
  BY <1>1, LedgerExtended DEF Remembered, ExecutionsDistinct, Results, At, FreshExecution
<1> QED
  BY <1>2, <1>3

\* Without a terminal there is nothing that a report could follow.
LEMMA NoEnding ==
  ASSUME TypeOK, Ending, life.terminal = "none",
         NEW a, ledger' = Append(ledger, a),
         a.type \notin {"diagnostic", "evaluation_completion"}
  PROVE  Ending'
<1>1. Terminals = {}
  BY DEF Ending, Terminals, At
<1> QED
  BY <1>1, LedgerExtended DEF Ending, Terminals, At

LEMMA OneEnding ==
  ASSUME TypeOK, Ending, life.terminal = "none",
         NEW a, ledger' = Append(ledger, a),
         life'.terminal = a.type, ~life'.reported
  PROVE  Ending'
<1>1. Terminals = {}
  BY DEF Ending, Terminals, At
<1> QED
  BY <1>1, LedgerExtended DEF Ending, Terminals, At

LEMMA ReportedEnding ==
  ASSUME TypeOK, Ending,
         NEW a, ledger' = Append(ledger, a), AdmitsReport(life, Len(ledger), a),
         life'.terminal = life.terminal, life'.reported
  PROVE  Ending'
<1>1. a.type \notin {"diagnostic", "evaluation_completion"}
  BY DEF AdmitsReport, ReportOf
<1>2. Terminals' \subseteq Terminals
  BY <1>1, LedgerExtended DEF Terminals, At
<1> QED
  BY <1>2, LedgerExtended DEF Ending, Terminals, At, AdmitsReport

\* Only verifier results and completions bear on the verdict.
LEMMA NotAccounted ==
  ASSUME TypeOK, Accounted, UNCHANGED plan,
         NEW a, ledger' = Append(ledger, a),
         a.type \notin {"verifier_result", "evaluation_completion"},
         life'.dispositions = life.dispositions
  PROVE  Accounted'
<1>1. (\A i \in At("verifier_result") :
         \E k \in DOMAIN life.dispositions : life.dispositions[k] = ledger[i].disposition)'
  BY LedgerExtended DEF Accounted, At
<1>2. (\A k \in DOMAIN life.dispositions :
         \E i \in At("verifier_result") : life.dispositions[k] = ledger[i].disposition)'
  BY LedgerExtended DEF Accounted, At
<1>3. (\A i \in At("evaluation_completion") :
         ledger[i].verdict = Verdict(plan, life.dispositions))'
  BY LedgerExtended DEF Accounted, At
<1> QED
  BY <1>1, <1>2, <1>3 DEF Accounted

\* The dispositions grow with the verifier results.
LEMMA DispositionAccounted ==
  ASSUME TypeOK, Ending, Accounted, life.terminal = "none",
         NEW a, ledger' = Append(ledger, a), a.type = "verifier_result",
         life'.dispositions = Append(life.dispositions, a.disposition)
  PROVE  Accounted'
<1> DEFINE m == Len(life.dispositions)
<1>1. /\ DOMAIN life.dispositions = 1 .. m /\ m \in Nat
      /\ DOMAIN life'.dispositions = 1 .. (m + 1)
      /\ \A k \in 1 .. m : life'.dispositions[k] = life.dispositions[k]
      /\ life'.dispositions[m + 1] = a.disposition
  <2>1. life.dispositions \in Seq(Disposition)
    BY DEF TypeOK
  <2> QED
    BY <2>1, Extended
<1> HIDE DEF m
<1>2. ASSUME NEW i \in At("verifier_result")'
      PROVE  \E k \in DOMAIN life'.dispositions :
               life'.dispositions[k] = ledger'[i].disposition
  <2>1. CASE i = Len(ledger) + 1
    BY <1>1, <2>1, LedgerExtended
  <2>2. CASE i # Len(ledger) + 1
    <3>1. i \in At("verifier_result") /\ ledger'[i] = ledger[i]
      BY <2>2, LedgerExtended DEF At
    <3>2. PICK k \in 1 .. m : life.dispositions[k] = ledger[i].disposition
      BY <1>1, <3>1 DEF Accounted
    <3> QED
      BY <1>1, <3>1, <3>2
  <2> QED
    BY <2>1, <2>2
<1>3. ASSUME NEW k \in DOMAIN life'.dispositions
      PROVE  \E i \in At("verifier_result")' :
               life'.dispositions[k] = ledger'[i].disposition
  <2>1. CASE k = m + 1
    BY <1>1, <2>1, LedgerExtended DEF At
  <2>2. CASE k # m + 1
    <3>1. PICK i \in At("verifier_result") : life.dispositions[k] = ledger[i].disposition
      BY <1>1, <2>2 DEF Accounted
    <3>2. i \in At("verifier_result")' /\ ledger'[i] = ledger[i]
      BY LedgerExtended DEF At
    <3>3. k \in 1 .. m
      BY <1>1, <2>2
    <3>4. life'.dispositions[k] = ledger'[i].disposition
      BY <1>1, <3>1, <3>2, <3>3
    <3> QED
      BY <3>2, <3>4
  <2> QED
    BY <2>1, <2>2
<1>4. ASSUME NEW i \in At("evaluation_completion")' PROVE FALSE
  <2>1. i \in 1 .. Len(ledger) /\ ledger[i].type = "evaluation_completion"
    BY LedgerExtended DEF At
  <2>2. i \in Terminals
    BY <2>1, LedgerExtended DEF Terminals, At
  <2> QED
    BY <2>1, <2>2 DEF Ending
<1> QED
  BY <1>2, <1>3, <1>4 DEF Accounted

\* A completion's verdict is the one of the dispositions so far.
LEMMA VerdictAccounted ==
  ASSUME TypeOK, Ending, Accounted, life.terminal = "none", UNCHANGED plan,
         NEW a, ledger' = Append(ledger, a), a.type = "evaluation_completion",
         a.verdict = Verdict(plan, life.dispositions),
         life'.dispositions = life.dispositions
  PROVE  Accounted'
<1>1. (\A i \in At("verifier_result") :
         \E k \in DOMAIN life.dispositions : life.dispositions[k] = ledger[i].disposition)'
  BY LedgerExtended DEF Accounted, At
<1>2. (\A k \in DOMAIN life.dispositions :
         \E i \in At("verifier_result") : life.dispositions[k] = ledger[i].disposition)'
  BY LedgerExtended DEF Accounted, At
<1>3. (\A i \in At("evaluation_completion") :
         ledger[i].verdict = Verdict(plan, life.dispositions))'
  BY LedgerExtended DEF Accounted, At, Ending, Terminals
<1> QED
  BY <1>1, <1>2, <1>3 DEF Accounted
-----------------------------------------------------------------------------
(* The inductive invariant *)

LEMMA InitInv == Init => Inv
<1> SUFFICES ASSUME Init PROVE Inv
  OBVIOUS
<1>1. ledger = << >> /\ At("verifier_result") = {} /\ At("evaluation_completion") = {}
      /\ Terminals = {} /\ Results = {}
  BY DEF Init, Terminals, Results, At
<1>2. TypeOK
  BY <1>1, EmptyCandidateList, LifecycleAssumption DEF Init, TypeOK, Fresh
<1>3. Staged
  BY StageRoles DEF Init, Staged, Fresh, Plan
<1>4. Ending /\ Remembered /\ ExecutionsDistinct /\ Accounted
  BY <1>1 DEF Init, Fresh, Ending, Remembered, ExecutionsDistinct, Accounted
<1> QED
  BY <1>2, <1>3, <1>4 DEF Inv

\* Every commit preserves the invariant.
LEMMA NextInv == Inv /\ [Next]_vars => Inv'
<1> SUFFICES ASSUME Inv, [Next]_vars PROVE Inv'
  OBVIOUS
<1>0. /\ TypeOK /\ Staged /\ Ending /\ Remembered /\ ExecutionsDistinct /\ Accounted
      /\ life \in [begun : BOOLEAN, packet : BOOLEAN, reviewed : BOOLEAN,
                   cands : CandidateLists, covered : BOOLEAN,
                   pending : Task \cup {NoTask}, verified : 0 .. MaxCandidates,
                   dispositions : Seq(Disposition),
                   terminal : {"none", "diagnostic", "evaluation_completion"},
                   reported : BOOLEAN, tasks : SUBSET Task,
                   threads : SUBSET Thread, launches : SUBSET Launch]
  BY DEF Inv, TypeOK
<1>1. CASE CommitTargetPacket
  <2>1. PICK p \in Plan : Commit(TargetPacket(p))
    BY <1>1 DEF CommitTargetPacket
  <2>2. /\ ledger' = Append(ledger, TargetPacket(p)) /\ UNCHANGED plan
        /\ TargetPacket(p).type = "target_packet"
        /\ life' = [life EXCEPT !.begun = TRUE]
    BY <2>1, TargetPacketCommitted DEF Commit, TargetPacket
  <2>3. life.terminal = "none"
    BY <2>1, <1>0, TargetPacketCommitted DEF AdmitsTargetPacket, Staged, Fresh
  <2>4. Remembered' /\ ExecutionsDistinct'
    BY <1>0, <2>2, NoExecution DEF Tasks
  <2>5. Ending'
    BY <1>0, <2>2, <2>3, NoEnding
  <2>6. Accounted'
    BY <1>0, <2>2, NotAccounted
  <2> QED
    BY <1>0, <1>1, <2>4, <2>5, <2>6, StageInv DEF Next, Inv
<1>2. CASE CommitReviewerPacket
  <2>1. PICK k \in Task : Commit(RolePacket("reviewer_packet", k))
    BY <1>2 DEF CommitReviewerPacket
  <2>2. /\ ledger' = Append(ledger, RolePacket("reviewer_packet", k)) /\ UNCHANGED plan
        /\ RolePacket("reviewer_packet", k).type = "reviewer_packet"
        /\ life' = [life EXCEPT !.packet = TRUE, !.pending = k]
    BY <2>1, ReviewerPacketCommitted DEF Commit, RolePacket
  <2>3. life.terminal = "none"
    BY <2>1, ReviewerPacketCommitted DEF AdmitsReviewerPacket, Open
  <2>4. Remembered' /\ ExecutionsDistinct'
    BY <1>0, <2>2, NoExecution DEF Tasks
  <2>5. Ending'
    BY <1>0, <2>2, <2>3, NoEnding
  <2>6. Accounted'
    BY <1>0, <2>2, NotAccounted
  <2> QED
    BY <1>0, <1>2, <2>4, <2>5, <2>6, StageInv DEF Next, Inv
<1>3. CASE CommitReviewerResult
  <2>1. PICK t \in Thread, l \in Launch, c \in CandidateLists, f \in BOOLEAN :
          Commit(ReviewerResult(ReviewerTask, t, l, c, f))
    BY <1>3 DEF CommitReviewerResult
  <2> DEFINE a == ReviewerResult(ReviewerTask, t, l, c, f)
  <2>2. /\ ledger' = Append(ledger, a) /\ UNCHANGED plan
        /\ a.type = "reviewer_result" /\ a.task = ReviewerTask
        /\ a.thread = t /\ a.launch = l
        /\ life' = Reviewed(t, l, c, f)
    BY <2>1, ReviewerResultCommitted DEF Commit, ReviewerResult
  <2>3. life.terminal = "none" /\ FreshExecution(life, a)
    BY <2>1, ReviewerResultCommitted DEF AdmitsReviewerResult, Open
  <2> HIDE DEF a
  <2>4. Remembered' /\ ExecutionsDistinct'
    BY <1>0, <2>2, <2>3, OneExecution DEF Tasks, Reviewed
  <2>5. Ending'
    BY <1>0, <2>2, <2>3, NoEnding
  <2>6. Accounted'
    BY <1>0, <2>2, NotAccounted DEF Reviewed
  <2> QED
    BY <1>0, <1>3, <2>4, <2>5, <2>6, StageInv DEF Next, Inv
<1>4. CASE CommitVerifierPacket
  <2>1. PICK k \in Task : Commit(RolePacket("verifier_packet", k))
    BY <1>4 DEF CommitVerifierPacket
  <2>2. /\ ledger' = Append(ledger, RolePacket("verifier_packet", k)) /\ UNCHANGED plan
        /\ RolePacket("verifier_packet", k).type = "verifier_packet"
        /\ life' = [life EXCEPT !.pending = k]
    BY <2>1, VerifierPacketCommitted DEF Commit, RolePacket
  <2>3. life.terminal = "none"
    BY <2>1, VerifierPacketCommitted DEF AdmitsVerifierPacket, Open
  <2>4. Remembered' /\ ExecutionsDistinct'
    BY <1>0, <2>2, NoExecution DEF Tasks
  <2>5. Ending'
    BY <1>0, <2>2, <2>3, NoEnding
  <2>6. Accounted'
    BY <1>0, <2>2, NotAccounted
  <2> QED
    BY <1>0, <1>4, <2>4, <2>5, <2>6, StageInv DEF Next, Inv
<1>5. CASE CommitVerifierResult
  <2>1. PICK k \in Task \ {ReviewerTask}, t \in Thread, l \in Launch, d \in Disposition :
          Commit(VerifierResult(k, t, l, d))
    BY <1>5 DEF CommitVerifierResult
  <2> DEFINE a == VerifierResult(k, t, l, d)
  <2>2. /\ ledger' = Append(ledger, a) /\ UNCHANGED plan
        /\ a.type = "verifier_result" /\ a.task = k
        /\ a.thread = t /\ a.launch = l /\ a.disposition = d
        /\ life' = Judged(k, t, l, d)
    BY <2>1, VerifierResultCommitted DEF Commit, VerifierResult
  <2>3. life.terminal = "none" /\ FreshExecution(life, a)
    BY <2>1, VerifierResultCommitted DEF AdmitsVerifierResult, Open
  <2> HIDE DEF a
  <2>4. Remembered' /\ ExecutionsDistinct'
    BY <1>0, <2>2, <2>3, OneExecution DEF Tasks, Judged
  <2>5. Ending'
    BY <1>0, <2>2, <2>3, NoEnding
  <2>6. Accounted'
    BY <1>0, <2>2, <2>3, DispositionAccounted DEF Judged
  <2> QED
    BY <1>0, <1>5, <2>4, <2>5, <2>6, StageInv DEF Next, Inv
<1>6. CASE CommitDiagnostic
  <2>1. PICK d \in Diagnosis, k \in 0 .. Len(ledger) : Commit(Diagnostic(d, 1 .. k))
    BY <1>6 DEF CommitDiagnostic
  <2>2. /\ ledger' = Append(ledger, Diagnostic(d, 1 .. k)) /\ UNCHANGED plan
        /\ Diagnostic(d, 1 .. k).type = "diagnostic"
        /\ life' = [life EXCEPT !.terminal = "diagnostic"]
    BY <2>1, DiagnosticCommitted DEF Commit, Diagnostic
  <2>3. life.terminal = "none"
    BY <2>1, DiagnosticCommitted DEF AdmitsDiagnostic, Open
  <2>4. Remembered' /\ ExecutionsDistinct'
    BY <1>0, <2>2, NoExecution DEF Tasks
  <2>5. Ending'
    BY <1>0, <2>2, <2>3, OneEnding DEF Staged
  <2>6. Accounted'
    BY <1>0, <2>2, NotAccounted
  <2> QED
    BY <1>0, <1>6, <2>4, <2>5, <2>6, StageInv DEF Next, Inv
<1>7. CASE CommitCompletion
  <2>1. PICK v \in Verdicts, k \in 0 .. Len(ledger) : Commit(Completion(v, 1 .. k))
    BY <1>7 DEF CommitCompletion
  <2>2. /\ ledger' = Append(ledger, Completion(v, 1 .. k)) /\ UNCHANGED plan
        /\ Completion(v, 1 .. k).type = "evaluation_completion"
        /\ life' = [life EXCEPT !.terminal = "evaluation_completion"]
    BY <2>1, CompletionCommitted DEF Commit, Completion
  <2>3. /\ life.terminal = "none"
        /\ Completion(v, 1 .. k).verdict = Verdict(plan, life.dispositions)
    BY <2>1, CompletionCommitted DEF AdmitsCompletion, Open
  <2>4. Remembered' /\ ExecutionsDistinct'
    BY <1>0, <2>2, NoExecution DEF Tasks
  <2>5. Ending'
    BY <1>0, <2>2, <2>3, OneEnding DEF Staged
  <2>6. Accounted'
    BY <1>0, <2>2, <2>3, VerdictAccounted
  <2> QED
    BY <1>0, <1>7, <2>4, <2>5, <2>6, StageInv DEF Next, Inv
<1>8. CASE CommitReport
  <2>1. PICK r \in ReportKinds, i \in DOMAIN ledger : Commit(Report(r, i))
    BY <1>8 DEF CommitReport
  <2>2. /\ ledger' = Append(ledger, Report(r, i)) /\ UNCHANGED plan
        /\ Report(r, i).type \in ReportKinds
        /\ life' = [life EXCEPT !.reported = TRUE]
        /\ AdmitsReport(life, Len(ledger), Report(r, i))
    BY <2>1, ReportCommitted DEF Commit, Report
  <2>3. Report(r, i).type \notin {"reviewer_result", "verifier_result",
                                 "evaluation_completion"}
    BY <2>2 DEF ReportKinds
  <2>4. Remembered' /\ ExecutionsDistinct'
    BY <1>0, <2>2, <2>3, NoExecution DEF Tasks
  <2>5. Ending'
    BY <1>0, <2>2, ReportedEnding
  <2>6. Accounted'
    BY <1>0, <2>2, <2>3, NotAccounted
  <2> QED
    BY <1>0, <1>8, <2>4, <2>5, <2>6, StageInv DEF Next, Inv
<1>9. CASE UNCHANGED vars
  <2>1. TypeOK' /\ Staged'
    BY <1>0, <1>9 DEF vars, TypeOK, Staged
  <2>2. Ending'
    BY <1>0, <1>9 DEF vars, Ending, Terminals, At
  <2>3. Remembered' /\ ExecutionsDistinct'
    BY <1>0, <1>9 DEF vars, Remembered, ExecutionsDistinct, Results, At
  <2>4. Accounted'
    BY <1>0, <1>9 DEF vars, Accounted, At
  <2> QED
    BY <2>1, <2>2, <2>3, <2>4 DEF Inv
<1> QED
  BY <1>1, <1>2, <1>3, <1>4, <1>5, <1>6, <1>7, <1>8, <1>9 DEF Next

\* The invariant holds in every reachable state.
THEOREM Invariance == Spec => []Inv
  BY InitInv, NextInv, PTL DEF Spec
-----------------------------------------------------------------------------
(* What every accepted session satisfies *)

\* Whatever is submitted, the ledger and the validator's state keep their shape.
THEOREM TypeCorrect == Spec => []TypeOK
<1>1. Inv => TypeOK
  BY DEF Inv
<1> QED
  BY <1>1, Invariance, PTL

\* For any caller: nothing follows a terminal but the report of the same kind
\* that names it, so a ledger never holds two terminals.
THEOREM OneTerminal == Spec => []TerminalIsLast
<1>1. Inv => TerminalIsLast
  <2> SUFFICES ASSUME Inv, NEW i \in Terminals
               PROVE  /\ Len(ledger) <= i + 1
                      /\ Len(ledger) = i + 1 =>
                           /\ ledger[i + 1].type = ReportOf(ledger[i].type)
                           /\ ledger[i + 1].inputs = {i}
    BY DEF TerminalIsLast
  <2>1. i \in Nat /\ life.reported \in BOOLEAN
    BY DEF Inv, TypeOK, Terminals, At
  <2> QED
    BY <2>1 DEF Inv, Ending
<1> QED
  BY <1>1, Invariance, PTL

\* No two accepted results share a task, a thread or a process launch, however
\* many candidates the reviewer raised.
THEOREM DistinctExecutions == Spec => []ExecutionsDistinct
<1>1. Inv => ExecutionsDistinct
  BY DEF Inv
<1> QED
  BY <1>1, Invariance, PTL

\* The verdict of a completion follows from the verifier results that the
\* ledger holds and from the plan's manual items, never more favourably.
THEOREM HonestVerdicts == Spec => []VerdictHonest
<1>1. Inv => VerdictHonest
  <2> SUFFICES ASSUME Inv, NEW i \in At("evaluation_completion") PROVE
        LET says == {ledger[j].disposition : j \in At("verifier_result")} IN
        /\ ledger[i].verdict = "clean" => ~plan.manual /\ says \subseteq {"dismissed"}
        /\ ledger[i].verdict = "findings" =>
             /\ ~plan.manual
             /\ "confirmed" \in says /\ "needs_manual_review" \notin says
        /\ ledger[i].verdict = "manual_review_required" =>
             plan.manual \/ "needs_manual_review" \in says
    BY DEF VerdictHonest
  <2> DEFINE d == life.dispositions
             says == {ledger[j].disposition : j \in At("verifier_result")}
  <2>1. says = {d[k] : k \in DOMAIN d}
    BY DEF Inv, Accounted
  <2>2. says \subseteq Disposition
    <3>1. d \in Seq(Disposition)
      BY DEF Inv, TypeOK
    <3>2. \A k \in DOMAIN d : d[k] \in Disposition
      BY <3>1
    <3> QED
      BY <2>1, <3>2
  <2>3. ledger[i].verdict = Verdict(plan, d)
    BY DEF Inv, Accounted
  <2> QED
    BY <2>1, <2>2, <2>3 DEF Verdict, Disposition
<1> QED
  BY <1>1, Invariance, PTL

\* In every stage of an open session some diagnostic is truthful.
THEOREM NeverStuck == Spec => []AlwaysConcludable
<1>1. Inv => AlwaysConcludable
  <2> SUFFICES ASSUME Inv, Open(life) PROVE \E d \in Diagnosis : StageFits(plan, life, d)
    BY DEF AlwaysConcludable
  <2>0. /\ life.verified \in Nat /\ Len(life.cands) \in Nat
        /\ life.covered \in BOOLEAN /\ life.reviewed \in BOOLEAN
        /\ life.packet \in BOOLEAN /\ life.verified <= Len(life.cands)
    BY CandidateListIsSequence DEF Inv, TypeOK, Staged
  <2> DEFINE gate == <<"completion_gate", "scripted_attempts_leftover">>
             rejected == <<"reviewer_acceptance", "semantic_contract_rejected">>
             unsent == <<"reviewer_dispatch", "worker_unavailable">>
             uncovered == <<"reviewer_acceptance", "coverage_accounting_failed">>
             lost == <<"verifier_dispatch", "worker_unavailable">>
             unbound == <<"verifier_acceptance", "semantic_contract_rejected">>
  <2>1. {gate, rejected, unsent, uncovered, lost, unbound} \subseteq Diagnosis
    BY DEF Diagnosis, DispatchReasons, GateReasons
  <2>2. CASE ~plan.reviewable
    BY <2>1, <2>2 DEF StageFits, Inv, Staged, GateReasons
  <2>3. CASE plan.reviewable /\ ~life.packet
    BY <2>1, <2>3 DEF StageFits
  <2>4. CASE plan.reviewable /\ life.packet /\ ~life.reviewed
    BY <2>1, <2>4 DEF StageFits, Inv, Staged, DispatchReasons
  <2>5. CASE life.reviewed /\ ~life.covered
    BY <2>1, <2>5 DEF StageFits, Inv, Staged
  <2>6. CASE life.reviewed /\ life.covered /\ life.pending.role = "verifier"
    BY <2>1, <2>6 DEF StageFits, DispatchReasons
  <2>7. CASE life.reviewed /\ life.covered /\ life.pending.role # "verifier"
    <3>1. life.pending = NoTask
      BY <2>7 DEF Inv, Staged
    <3>2. CASE life.verified < Len(life.cands)
      BY <2>1, <2>7, <3>1, <3>2 DEF StageFits
    <3>3. CASE life.verified = Len(life.cands)
      BY <2>1, <2>7, <3>1, <3>3 DEF StageFits, AllVerified, GateReasons
    <3> QED
      BY <2>0, <3>2, <3>3
  <2> QED
    BY <2>0, <2>2, <2>3, <2>4, <2>5, <2>6, <2>7 DEF Inv, Staged
<1> QED
  BY <1>1, Invariance, PTL
-----------------------------------------------------------------------------
(* Where the artifacts are: the validator's loop fixes the position of every *)
(* packet and result, and so how many of each kind there are.                *)

\* How many verifiers were asked, and how many artifacts the work of the
\* session has left before any terminal.
Asked == life.verified + (IF life.pending.role = "verifier" THEN 1 ELSE 0)
Worked ==
  IF ~life.begun THEN 0 ELSE IF ~life.packet THEN 1 ELSE IF ~life.reviewed THEN 2
  ELSE 3 + life.verified + Asked

Length ==
  Len(ledger) = Worked + (IF life.terminal = "none" THEN 0 ELSE 1)
                       + (IF life.reported THEN 1 ELSE 0)

\* The k-th candidate is verified by the packet at 2k + 2 and the result after it.
Placed ==
  /\ At("reviewer_packet") = IF life.packet THEN {2} ELSE {}
  /\ At("reviewer_result") = IF life.reviewed THEN {3} ELSE {}
  /\ life.reviewed => ledger[3].cands = life.cands /\ ledger[3].covered = life.covered
  /\ At("verifier_packet") = {2 * k + 2 : k \in 1 .. Asked}
  /\ At("verifier_result") = {2 * k + 3 : k \in 1 .. life.verified}
  /\ \A k \in 1 .. life.verified : ledger[2 * k + 3].task = Instance(life.cands, k)
  /\ life.pending.role = "verifier" =>
       life.pending = Instance(life.cands, life.verified + 1)
  /\ life.verified > 0 => life.covered

\* What a terminal said of the stage still holds: nothing moves it any more.
Concluded ==
  /\ \A i \in At("diagnostic") : StageFits(plan, life, ledger[i].diagnosis)
  /\ At("evaluation_completion") # {} => Projects(plan, life)

LEMMA AtExtended ==
  ASSUME TypeOK, NEW a, ledger' = Append(ledger, a), NEW kind
  PROVE  /\ a.type = kind => At(kind)' = At(kind) \cup {Len(ledger) + 1}
         /\ a.type # kind => At(kind)' = At(kind)
  BY LedgerExtended DEF At

\* One more candidate takes one more place.
LEMMA PlacesGrow ==
  ASSUME NEW n \in Nat, NEW b \in Nat
  PROVE  {2 * k + b : k \in 1 .. (n + 1)} =
           {2 * k + b : k \in 1 .. n} \cup {2 * (n + 1) + b}
<1>1. \A k : k \in 1 .. (n + 1) <=> k \in 1 .. n \/ k = n + 1
  OBVIOUS
<1> QED
  BY <1>1

\* The fields of the validator's state that say which packets and results exist.
Stage(l) == <<l.packet, l.reviewed, l.covered, l.cands, l.verified, l.pending>>

\* An artifact that is neither a packet for a worker nor its result leaves the
\* places of those alone.
LEMMA PlacedSame ==
  ASSUME TypeOK, Placed, NEW a, ledger' = Append(ledger, a),
         a.type \notin {"reviewer_packet", "reviewer_result",
                        "verifier_packet", "verifier_result"},
         Stage(life') = Stage(life)
  PROVE  Placed' /\ Asked' = Asked
<1>1. /\ life'.packet = life.packet /\ life'.reviewed = life.reviewed
      /\ life'.covered = life.covered /\ life'.cands = life.cands
      /\ life'.verified = life.verified /\ life'.pending = life.pending
  BY DEF Stage
<1>2. Asked' = Asked
  BY <1>1 DEF Asked
<1>3. /\ At("reviewer_packet")' = At("reviewer_packet")
      /\ At("reviewer_result")' = At("reviewer_result")
      /\ At("verifier_packet")' = At("verifier_packet")
      /\ At("verifier_result")' = At("verifier_result")
  BY AtExtended
<1>4. \A i \in At("reviewer_result") \cup At("verifier_result") : ledger'[i] = ledger[i]
  BY LedgerExtended DEF At
<1>5. \A k \in 1 .. life.verified : 2 * k + 3 \in At("verifier_result")
  BY DEF Placed
<1>6. (\A k \in 1 .. life.verified : ledger[2 * k + 3].task = Instance(life.cands, k))'
  BY <1>1, <1>4, <1>5 DEF Placed
<1>7. (life.reviewed => ledger[3].cands = life.cands /\ ledger[3].covered = life.covered)'
  BY <1>1, <1>4 DEF Placed
<1> QED
  BY <1>1, <1>2, <1>3, <1>6, <1>7 DEF Placed

LEMMA LayoutInit == Init => Length /\ Placed /\ Concluded
<1> SUFFICES ASSUME Init PROVE Length /\ Placed /\ Concluded
  OBVIOUS
<1>1. /\ ledger = << >> /\ \A kind : At(kind) = {}
      /\ ~life.begun /\ ~life.packet /\ ~life.reviewed /\ ~life.reported
      /\ life.terminal = "none" /\ life.verified = 0 /\ life.pending.role = "none"
  BY DEF Init, At, Fresh, NoTask
<1>2. 1 .. 0 = {} /\ Asked = 0
  BY <1>1 DEF Asked
<1> QED
  BY <1>1, <1>2 DEF Length, Worked, Placed, Concluded

\* Each commit keeps the places, and what a terminal says of the stage.
LEMMA LayoutInv ==
  ASSUME Inv, Length, Placed, Concluded, Next
  PROVE  Length' /\ Placed' /\ Concluded'
<1>0. /\ TypeOK /\ Staged /\ Ending
      /\ life \in [begun : BOOLEAN, packet : BOOLEAN, reviewed : BOOLEAN,
                   cands : CandidateLists, covered : BOOLEAN,
                   pending : Task \cup {NoTask}, verified : 0 .. MaxCandidates,
                   dispositions : Seq(Disposition),
                   terminal : {"none", "diagnostic", "evaluation_completion"},
                   reported : BOOLEAN, tasks : SUBSET Task,
                   threads : SUBSET Thread, launches : SUBSET Launch]
      /\ life.verified \in Nat /\ Len(ledger) \in Nat
      /\ Asked \in Nat
  BY LifecycleAssumption DEF Inv, TypeOK, Asked
\* Before the terminal there is nothing to conclude.
<1>a. ASSUME life.terminal = "none"
      PROVE  /\ ~life.reported /\ Len(ledger) = Worked
             /\ At("diagnostic") = {} /\ At("evaluation_completion") = {}
  <2>1. Terminals = {}
    BY <1>0, <1>a DEF Ending, Terminals, At
  <2> QED
    BY <1>0, <1>a, <2>1 DEF Staged, Length, Worked, Terminals
<1>b. ASSUME life.terminal = "none", NEW a, ledger' = Append(ledger, a),
             a.type \notin {"diagnostic", "evaluation_completion"}
      PROVE  Concluded'
  BY <1>0, <1>a, <1>b, AtExtended DEF Concluded
<1>1. CASE CommitTargetPacket
  <2>1. PICK p \in Plan : Commit(TargetPacket(p))
    BY <1>1 DEF CommitTargetPacket
  <2>2. /\ ledger' = Append(ledger, TargetPacket(p)) /\ UNCHANGED plan
        /\ TargetPacket(p).type = "target_packet"
        /\ life' = [life EXCEPT !.begun = TRUE] /\ ~life.begun
    BY <2>1, TargetPacketCommitted DEF Commit, TargetPacket, AdmitsTargetPacket
  <2>3. life.terminal = "none" /\ ~life.packet
    BY <2>2, <1>0 DEF Staged, Fresh
  <2>4. Placed' /\ Asked' = Asked
    BY <1>0, <2>2, PlacedSame DEF Stage
  <2>5. Length'
    BY <1>0, <1>a, <2>2, <2>3, LedgerExtended DEF Length, Worked
  <2> QED
    BY <1>b, <2>2, <2>3, <2>4, <2>5
<1>2. CASE CommitReviewerPacket
  <2>1. PICK k \in Task : Commit(RolePacket("reviewer_packet", k))
    BY <1>2 DEF CommitReviewerPacket
  <2>2. /\ ledger' = Append(ledger, RolePacket("reviewer_packet", k)) /\ UNCHANGED plan
        /\ RolePacket("reviewer_packet", k).type = "reviewer_packet"
        /\ life' = [life EXCEPT !.packet = TRUE, !.pending = k]
        /\ life.begun /\ life.terminal = "none" /\ ~life.packet /\ ~life.reviewed
        /\ k.role = "reviewer" /\ life.pending.role = "none"
    BY <2>1, ReviewerPacketCommitted, StageRoles
       DEF Commit, RolePacket, AdmitsReviewerPacket, Open
  <2>3. Len(ledger) = 1 /\ life.verified = 0 /\ Asked = 0 /\ ~life.reported
    BY <1>0, <1>a, <2>2 DEF Asked, Worked, Staged
  <2>a. /\ life'.verified = 0 /\ life'.packet /\ ~life'.reviewed /\ life'.begun
        /\ life'.terminal = "none" /\ ~life'.reported /\ life'.pending.role = "reviewer"
    BY <1>0, <2>2, <2>3
  <2>b. Asked' = 0
    BY <2>a DEF Asked
  <2>4. /\ At("reviewer_packet")' = {2}
        /\ At("reviewer_result")' = {}
        /\ At("verifier_packet")' = At("verifier_packet")
        /\ At("verifier_result")' = At("verifier_result")
    <3>1. At("reviewer_packet") = {} /\ At("reviewer_result") = {}
      BY <2>2 DEF Placed
    <3>2. At("reviewer_packet")' = {} \cup {1 + 1}
      BY <1>0, <2>2, <2>3, <3>1, AtExtended
    <3> QED
      BY <1>0, <2>2, <3>1, <3>2, AtExtended
  <2>5. 1 .. 0 = {}
    OBVIOUS
  <2>6. Placed'
    BY <2>2, <2>3, <2>a, <2>b, <2>4, <2>5 DEF Placed
  <2>7. Length'
    BY <1>0, <2>2, <2>3, <2>a, <2>b, LedgerExtended DEF Length, Worked
  <2> QED
    BY <1>b, <2>2, <2>6, <2>7
<1>3. CASE CommitReviewerResult
  <2>1. PICK t \in Thread, l \in Launch, c \in CandidateLists, f \in BOOLEAN :
          Commit(ReviewerResult(ReviewerTask, t, l, c, f))
    BY <1>3 DEF CommitReviewerResult
  <2> DEFINE a == ReviewerResult(ReviewerTask, t, l, c, f)
  <2>2. /\ ledger' = Append(ledger, a) /\ UNCHANGED plan
        /\ a.type = "reviewer_result" /\ a.cands = c /\ a.covered = f
        /\ life' = Reviewed(t, l, c, f)
        /\ life.begun /\ life.terminal = "none" /\ ~life.reviewed
        /\ life.pending.role = "reviewer"
    BY <2>1, ReviewerResultCommitted
       DEF Commit, ReviewerResult, AdmitsReviewerResult, Open
  <2> HIDE DEF a
  <2>3. /\ life.packet /\ life.verified = 0 /\ Asked = 0 /\ ~life.reported
        /\ Len(ledger) = 2
    BY <1>0, <1>a, <2>2 DEF Asked, Worked, Staged
  <2>4. /\ life'.verified = 0 /\ life'.packet /\ life'.reviewed /\ life'.begun
        /\ life'.terminal = "none" /\ ~life'.reported /\ life'.pending = NoTask
        /\ life'.cands = c /\ life'.covered = f
    BY <1>0, <2>2, <2>3 DEF Reviewed
  <2>5. Asked' = 0 /\ life'.pending.role = "none"
    BY <2>4, StageRoles DEF Asked
  <2>6. /\ At("reviewer_packet")' = {2}
        /\ At("reviewer_result")' = {3}
        /\ At("verifier_packet")' = At("verifier_packet")
        /\ At("verifier_result")' = At("verifier_result")
        /\ ledger'[3] = a
    <3>1. At("reviewer_packet") = {2} /\ At("reviewer_result") = {}
      BY <2>2, <2>3 DEF Placed
    <3>2. At("reviewer_result")' = {} \cup {2 + 1} /\ ledger'[2 + 1] = a
      BY <1>0, <2>2, <2>3, <3>1, AtExtended, LedgerExtended
    <3>3. At("reviewer_result")' = {3} /\ ledger'[3] = a
      BY <3>2
    <3>4. /\ At("reviewer_packet")' = At("reviewer_packet")
          /\ At("verifier_packet")' = At("verifier_packet")
          /\ At("verifier_result")' = At("verifier_result")
      BY <1>0, <2>2, AtExtended
    <3> QED
      BY <3>1, <3>3, <3>4
  <2>7. 1 .. 0 = {}
    OBVIOUS
  <2>8. Placed'
    BY <2>2, <2>3, <2>4, <2>5, <2>6, <2>7 DEF Placed
  <2>9. Length'
    BY <1>0, <2>2, <2>3, <2>4, <2>5, LedgerExtended DEF Length, Worked
  <2> QED
    BY <1>b, <2>2, <2>8, <2>9
<1>4. CASE CommitVerifierPacket
  <2>1. PICK k \in Task : Commit(RolePacket("verifier_packet", k))
    BY <1>4 DEF CommitVerifierPacket
  <2> DEFINE a == RolePacket("verifier_packet", k)
             v == life.verified
  <2>2. /\ ledger' = Append(ledger, a) /\ UNCHANGED plan
        /\ a.type = "verifier_packet"
        /\ life' = [life EXCEPT !.pending = k]
        /\ life.begun /\ life.terminal = "none" /\ life.reviewed
        /\ life.pending = NoTask /\ k = Instance(life.cands, v + 1)
    BY <2>1, VerifierPacketCommitted DEF Commit, RolePacket, AdmitsVerifierPacket, Open
  <2> HIDE DEF a
  <2>3. /\ life.packet /\ ~life.reported /\ k.role = "verifier" /\ Asked = v
        /\ Len(ledger) = 3 + v + v
    BY <1>0, <1>a, <2>2, StageRoles DEF Asked, Worked, Staged, Instance
  <2>4. /\ life'.verified = v /\ life'.packet /\ life'.reviewed /\ life'.begun
        /\ life'.terminal = "none" /\ ~life'.reported /\ life'.pending = k
        /\ life'.cands = life.cands /\ life'.covered = life.covered
    BY <1>0, <2>2, <2>3
  <2>5. Asked' = v + 1
    BY <2>3, <2>4 DEF Asked
  <2>6. /\ At("reviewer_packet")' = At("reviewer_packet")
        /\ At("reviewer_result")' = At("reviewer_result")
        /\ At("verifier_packet")' = At("verifier_packet") \cup {Len(ledger) + 1}
        /\ At("verifier_result")' = At("verifier_result")
    BY <1>0, <2>2, AtExtended
  <2>7. {2 * j + 2 : j \in 1 .. (v + 1)} = {2 * j + 2 : j \in 1 .. v} \cup {2 * (v + 1) + 2}
    BY <1>0, PlacesGrow
  <2>8. At("verifier_packet")' = {2 * j + 2 : j \in 1 .. Asked'}
    <3>1. Len(ledger) + 1 = 2 * (v + 1) + 2
      BY <1>0, <2>3
    <3> QED
      BY <2>3, <2>5, <2>6, <2>7, <3>1 DEF Placed
  <2>9. \A i \in At("reviewer_result") \cup At("verifier_result") : ledger'[i] = ledger[i]
    BY <1>0, <2>2, LedgerExtended DEF At
  <2>10. \A j \in 1 .. v : ledger'[2 * j + 3].task = Instance(life.cands, j)
    BY <2>9 DEF Placed
  <2>11. ledger'[3].cands = life.cands /\ ledger'[3].covered = life.covered
    BY <2>2, <2>9 DEF Placed
  <2>12. Placed'
    BY <2>2, <2>3, <2>4, <2>6, <2>8, <2>10, <2>11 DEF Placed
  <2>13. Length'
    BY <1>0, <2>2, <2>3, <2>4, <2>5, LedgerExtended DEF Length, Worked
  <2> QED
    BY <1>b, <2>2, <2>12, <2>13
<1>5. CASE CommitVerifierResult
  <2>1. PICK k \in Task \ {ReviewerTask}, t \in Thread, l \in Launch, d \in Disposition :
          Commit(VerifierResult(k, t, l, d))
    BY <1>5 DEF CommitVerifierResult
  <2> DEFINE a == VerifierResult(k, t, l, d)
             v == life.verified
  <2>2. /\ ledger' = Append(ledger, a) /\ UNCHANGED plan
        /\ a.type = "verifier_result" /\ a.task = k
        /\ life' = Judged(k, t, l, d)
        /\ life.begun /\ life.terminal = "none"
        /\ life.pending.role = "verifier" /\ k = life.pending
    BY <2>1, VerifierResultCommitted DEF Commit, VerifierResult, AdmitsVerifierResult, Open
  <2> HIDE DEF a
  <2>3. /\ life.packet /\ life.reviewed /\ life.covered /\ ~life.reported /\ Asked = v + 1
        /\ Len(ledger) = 4 + v + v
    BY <1>0, <1>a, <2>2, StageRoles DEF Asked, Worked, Staged
  <2>4. /\ life'.verified = v + 1 /\ life'.packet /\ life'.reviewed /\ life'.begun
        /\ life'.terminal = "none" /\ ~life'.reported /\ life'.pending = NoTask
        /\ life'.cands = life.cands /\ life'.covered = life.covered
    BY <1>0, <2>2, <2>3 DEF Judged
  <2>5. Asked' = v + 1 /\ life'.pending.role = "none"
    BY <1>0, <2>4, StageRoles DEF Asked
  <2>6. /\ At("reviewer_packet")' = At("reviewer_packet")
        /\ At("reviewer_result")' = At("reviewer_result")
        /\ At("verifier_packet")' = At("verifier_packet")
        /\ At("verifier_result")' = At("verifier_result") \cup {Len(ledger) + 1}
    BY <1>0, <2>2, AtExtended
  <2>7. {2 * j + 3 : j \in 1 .. (v + 1)} = {2 * j + 3 : j \in 1 .. v} \cup {2 * (v + 1) + 3}
    BY <1>0, PlacesGrow
  <2>8. Len(ledger) + 1 = 2 * (v + 1) + 3
    BY <1>0, <2>3
  <2>9. At("verifier_result")' = {2 * j + 3 : j \in 1 .. (v + 1)}
    BY <2>6, <2>7, <2>8 DEF Placed
  <2>10. \A i \in At("reviewer_result") \cup At("verifier_result") : ledger'[i] = ledger[i]
    BY <1>0, <2>2, LedgerExtended DEF At
  <2>11. ledger'[2 * (v + 1) + 3].task = Instance(life.cands, v + 1)
    BY <1>0, <2>2, <2>8, LedgerExtended DEF Placed
  <2>12. \A j \in 1 .. (v + 1) : ledger'[2 * j + 3].task = Instance(life.cands, j)
    <3>1. \A j \in 1 .. v : ledger'[2 * j + 3].task = Instance(life.cands, j)
      BY <2>10 DEF Placed
    <3>2. \A j \in 1 .. (v + 1) : j \in 1 .. v \/ j = v + 1
      BY <1>0
    <3> QED
      BY <2>11, <3>1, <3>2
  <2>13. ledger'[3].cands = life.cands /\ ledger'[3].covered = life.covered
    BY <2>3, <2>10 DEF Placed
  <2>14. Placed'
    BY <2>3, <2>4, <2>5, <2>6, <2>9, <2>12, <2>13 DEF Placed
  <2>15. Length'
    BY <1>0, <2>2, <2>3, <2>4, <2>5, LedgerExtended DEF Length, Worked
  <2> QED
    BY <1>b, <2>2, <2>14, <2>15
<1>6. CASE CommitDiagnostic
  <2>1. PICK d \in Diagnosis, k \in 0 .. Len(ledger) : Commit(Diagnostic(d, 1 .. k))
    BY <1>6 DEF CommitDiagnostic
  <2> DEFINE a == Diagnostic(d, 1 .. k)
  <2>2. /\ ledger' = Append(ledger, a) /\ UNCHANGED plan
        /\ a.type = "diagnostic" /\ a.diagnosis = d
        /\ life' = [life EXCEPT !.terminal = "diagnostic"]
        /\ life.terminal = "none" /\ StageFits(plan, life, d)
    BY <2>1, DiagnosticCommitted DEF Commit, Diagnostic, AdmitsDiagnostic, Open
  <2> HIDE DEF a
  <2>3. Placed' /\ Asked' = Asked
    BY <1>0, <2>2, PlacedSame DEF Stage
  <2>4. Length'
    BY <1>0, <1>a, <2>2, <2>3, LedgerExtended DEF Length, Worked
  <2>5. /\ At("diagnostic")' = {Len(ledger) + 1} /\ At("evaluation_completion")' = {}
        /\ ledger'[Len(ledger) + 1] = a
    BY <1>0, <1>a, <2>2, AtExtended, LedgerExtended
  <2>6. StageFits(plan, life', d)
    BY <1>0, <2>2 DEF StageFits, AllVerified
  <2> QED
    BY <2>2, <2>3, <2>4, <2>5, <2>6 DEF Concluded
<1>7. CASE CommitCompletion
  <2>1. PICK v \in Verdicts, k \in 0 .. Len(ledger) : Commit(Completion(v, 1 .. k))
    BY <1>7 DEF CommitCompletion
  <2> DEFINE a == Completion(v, 1 .. k)
  <2>2. /\ ledger' = Append(ledger, a) /\ UNCHANGED plan
        /\ a.type = "evaluation_completion"
        /\ life' = [life EXCEPT !.terminal = "evaluation_completion"]
        /\ life.terminal = "none" /\ Projects(plan, life)
    BY <2>1, CompletionCommitted DEF Commit, Completion, AdmitsCompletion, Open
  <2> HIDE DEF a
  <2>3. Placed' /\ Asked' = Asked
    BY <1>0, <2>2, PlacedSame DEF Stage
  <2>4. Length'
    BY <1>0, <1>a, <2>2, <2>3, LedgerExtended DEF Length, Worked
  <2>5. At("diagnostic")' = {}
    BY <1>0, <1>a, <2>2, AtExtended
  <2>6. Projects(plan, life')
    BY <1>0, <2>2 DEF Projects, AllVerified, ExpectedAttempts
  <2> QED
    BY <2>2, <2>3, <2>4, <2>5, <2>6 DEF Concluded
<1>8. CASE CommitReport
  <2>1. PICK r \in ReportKinds, i \in DOMAIN ledger : Commit(Report(r, i))
    BY <1>8 DEF CommitReport
  <2> DEFINE a == Report(r, i)
  <2>2. /\ ledger' = Append(ledger, a) /\ UNCHANGED plan
        /\ a.type \in ReportKinds
        /\ life' = [life EXCEPT !.reported = TRUE]
        /\ life.terminal # "none" /\ ~life.reported
    BY <2>1, ReportCommitted DEF Commit, Report, AdmitsReport
  <2> HIDE DEF a
  <2>3. a.type \notin {"reviewer_packet", "reviewer_result", "verifier_packet",
                       "verifier_result", "diagnostic", "evaluation_completion"}
    BY <2>2 DEF ReportKinds
  <2>4. Placed' /\ Asked' = Asked
    BY <1>0, <2>2, <2>3, PlacedSame DEF Stage
  <2>5. Length'
    BY <1>0, <2>2, <2>4, LedgerExtended DEF Length, Worked
  <2>6. /\ At("diagnostic")' = At("diagnostic")
        /\ At("evaluation_completion")' = At("evaluation_completion")
        /\ \A j \in At("diagnostic") : ledger'[j] = ledger[j]
    BY <1>0, <2>2, <2>3, AtExtended, LedgerExtended DEF At
  <2>7. (\A j \in At("diagnostic") : StageFits(plan, life, ledger[j].diagnosis))'
    <3>1. \A d : StageFits(plan, life, d) => StageFits(plan, life', d)
      BY <1>0, <2>2 DEF StageFits, AllVerified
    <3> QED
      BY <2>2, <2>6, <3>1 DEF Concluded
  <2>8. (At("evaluation_completion") # {} => Projects(plan, life))'
    BY <1>0, <2>2, <2>6 DEF Concluded, Projects, AllVerified, ExpectedAttempts
  <2> QED
    BY <2>4, <2>5, <2>7, <2>8 DEF Concluded
<1> QED
  BY <1>1, <1>2, <1>3, <1>4, <1>5, <1>6, <1>7, <1>8 DEF Next

\* The places and the conclusions hold in every reachable state.
THEOREM LayoutInvariance == Spec => [](Length /\ Placed /\ Concluded)
<1> DEFINE I == Length /\ Placed /\ Concluded
<1>1. Inv /\ I /\ [Next]_vars => I'
  <2> SUFFICES ASSUME Inv, I, [Next]_vars PROVE I'
    OBVIOUS
  <2>1. CASE Next
    BY <2>1, LayoutInv
  <2>2. CASE UNCHANGED vars
    BY <2>2 DEF vars, Length, Worked, Asked, Placed, Concluded, At
  <2> QED
    BY <2>1, <2>2
<1> QED
  BY <1>1, LayoutInit, Invariance, PTL DEF Spec
-----------------------------------------------------------------------------
(* How many artifacts there are of a kind *)

\* As many places as there are numbers they are computed from.
LEMMA PlacesCount ==
  ASSUME NEW K \in SUBSET Nat, IsFiniteSet(K), NEW b \in Nat
  PROVE  /\ IsFiniteSet({2 * k + b : k \in K})
         /\ Cardinality({2 * k + b : k \in K}) = Cardinality(K)
<1> DEFINE S == {2 * k + b : k \in K}
           f == [k \in K |-> 2 * k + b]
<1>1. f \in [K -> S]
  OBVIOUS
<1>2. \A j, k \in K : f[j] = f[k] => j = k
  <2> SUFFICES ASSUME NEW j \in K, NEW k \in K, f[j] = f[k] PROVE j = k
    OBVIOUS
  <2>1. j \in Nat /\ k \in Nat /\ 2 * j + b = 2 * k + b
    OBVIOUS
  <2> QED
    BY <2>1
<1>3. \A s \in S : \E k \in K : f[k] = s
  OBVIOUS
<1> HIDE DEF f, S
<1>4. f \in Bijection(K, S)
  BY <1>1, <1>2, <1>3 DEF Bijection, Injection, Surjection, IsInjective
<1>5. ExistsBijection(K, S)
  BY <1>4 DEF ExistsBijection
<1>6. IsFiniteSet(S) /\ Cardinality(S) = Cardinality(K)
  BY <1>5, FS_Bijection
<1> QED
  BY <1>6 DEF S

\* The committed results, in a session whose candidates all have a verifier.
LEMMA ResultsOfVerified ==
  ASSUME Inv, Placed, AllVerified(life)
  PROVE  /\ life.packet /\ life.verified \in Nat
         /\ Asked = life.verified
         /\ At("reviewer_result") = {3}
         /\ DOMAIN ledger[3].cands = 1 .. life.verified
         /\ ledger[3].cands = life.cands /\ ledger[3].covered
         /\ Cardinality(1 .. life.verified) = life.verified
         /\ Cardinality(At("verifier_packet")) = life.verified
         /\ IsFiniteSet(At("verifier_result"))
         /\ Cardinality(At("verifier_result")) = life.verified
<1>1. /\ life.packet /\ life.verified \in Nat /\ life.cands \in Seq(Candidate)
      /\ life.verified = Len(life.cands) /\ Asked = life.verified
  BY CandidateListIsSequence, StageRoles
     DEF Inv, TypeOK, Staged, AllVerified, Asked
<1>2. /\ IsFiniteSet(1 .. life.verified) /\ Cardinality(1 .. life.verified) = life.verified
  BY <1>1, FS_Interval
<1>3. 1 .. life.verified \in SUBSET Nat
  BY <1>1
<1>4. /\ At("reviewer_result") = {3}
      /\ ledger[3].cands = life.cands /\ ledger[3].covered
      /\ At("verifier_packet") = {2 * k + 2 : k \in 1 .. life.verified}
      /\ At("verifier_result") = {2 * k + 3 : k \in 1 .. life.verified}
  BY <1>1 DEF Placed, AllVerified
<1> DEFINE K == 1 .. life.verified
<1>5. K \in SUBSET Nat /\ IsFiniteSet(K) /\ Cardinality(K) = life.verified
  BY <1>2, <1>3
<1>6. /\ At("verifier_packet") = {2 * k + 2 : k \in K}
      /\ At("verifier_result") = {2 * k + 3 : k \in K}
  BY <1>4
<1> HIDE DEF K
<1>7. /\ Cardinality({2 * k + 2 : k \in K}) = Cardinality(K)
      /\ IsFiniteSet({2 * k + 3 : k \in K})
      /\ Cardinality({2 * k + 3 : k \in K}) = Cardinality(K)
  BY <1>5, PlacesCount
<1>8. DOMAIN ledger[3].cands = 1 .. life.verified
  BY <1>1, <1>4
<1>9. /\ Cardinality(At("verifier_packet")) = life.verified
      /\ IsFiniteSet(At("verifier_result"))
      /\ Cardinality(At("verifier_result")) = life.verified
  BY <1>5, <1>6, <1>7
<1> QED
  BY <1>1, <1>2, <1>4, <1>8, <1>9

\* What a diagnostic of the ledger claims of the session is so: it was decided
\* at the stage that the artifacts before it show.
THEOREM TruthfulDiagnoses == Spec => []DiagnosisTruthful
<1>1. Inv /\ Length /\ Placed /\ Concluded => DiagnosisTruthful
  <2> SUFFICES ASSUME Inv, Length, Placed, Concluded, NEW i \in At("diagnostic") PROVE
        LET phase == ledger[i].diagnosis[1]
            reason == ledger[i].diagnosis[2]
            last == ledger[i - 1]
            raised == UNION {DOMAIN ledger[r].cands : r \in At("reviewer_result")}
        IN
        /\ i > 1
        /\ phase = "reviewer_dispatch" => last.type = "reviewer_packet"
        /\ phase = "verifier_dispatch" => last.type = "verifier_packet"
        /\ reason = "worker_attempt_rejected" =>
             last.type = IF phase = "reviewer_acceptance"
                         THEN "reviewer_packet" ELSE "verifier_packet"
        /\ reason = "coverage_accounting_failed" <=>
             last.type = "reviewer_result" /\ ~last.covered
        /\ phase = "completion_gate" =>
             /\ Cardinality(At("verifier_packet")) = Cardinality(raised)
             /\ Cardinality(At("verifier_result")) = Cardinality(raised)
             /\ plan.reviewable <=> At("reviewer_result") # {}
    BY DEF DiagnosisTruthful
  <2> DEFINE d == ledger[i].diagnosis
             last == ledger[i - 1]
             v == life.verified
             raised == UNION {DOMAIN ledger[r].cands : r \in At("reviewer_result")}
  <2>1. /\ TypeOK /\ Staged /\ v \in Nat /\ Len(ledger) \in Nat
        /\ life.covered \in BOOLEAN /\ life.reported \in BOOLEAN
        /\ life.packet \in BOOLEAN /\ life.reviewed \in BOOLEAN
    BY DEF Inv, TypeOK
  <2>2. i \in 1 .. Len(ledger) /\ life.terminal = "diagnostic" /\ life.begun
    BY <2>1 DEF Inv, Ending, Terminals, At, TypeOK, Staged, Fresh
  <2>3. i = Worked + 1 /\ Worked \in Nat /\ Worked >= 1
    <3>1. Worked \in Nat /\ Worked >= 1
      BY <2>1, <2>2 DEF Worked, Asked
    <3> QED
      BY <2>1, <2>2, <3>1 DEF Length, Inv, Ending, Terminals, At
  <2>4. Worked \in DOMAIN ledger /\ last = ledger[Worked]
    BY <2>1, <2>2, <2>3 DEF TypeOK
  <2>5. StageFits(plan, life, d)
    BY DEF Concluded
  <2>6. CASE ~life.packet
    <3>1. /\ ~life.reviewed /\ Worked = 1 /\ Asked = 0 /\ v = 0
          /\ At("reviewer_result") = {}
      BY <2>1, <2>2, <2>6 DEF Staged, Worked, Asked, Placed
    <3>2. raised = {} /\ At("verifier_packet") = {} /\ At("verifier_result") = {}
      BY <3>1 DEF Placed
    <3>3. last.type # "reviewer_result"
      BY <2>4, <3>1 DEF At
    <3>4. CASE plan.reviewable
      <4>1. d = <<"reviewer_acceptance", "semantic_contract_rejected">>
        BY <2>1, <2>5, <2>6, <3>1, <3>4 DEF StageFits, AllVerified
      <4> QED
        BY <2>3, <3>1, <3>3, <4>1
    <3>5. CASE ~plan.reviewable
      <4>1. d \in {"completion_gate"} \X GateReasons
        BY <2>1, <2>5, <2>6, <3>1, <3>5 DEF StageFits, AllVerified
      <4>2. d[1] = "completion_gate" /\ d[2] \in GateReasons
        BY <4>1
      <4>3. /\ d[1] \notin {"reviewer_dispatch", "verifier_dispatch"}
            /\ d[2] \notin {"worker_attempt_rejected", "coverage_accounting_failed"}
        BY <4>2 DEF GateReasons
      <4>4. /\ Cardinality(At("verifier_packet")) = Cardinality(raised)
            /\ Cardinality(At("verifier_result")) = Cardinality(raised)
        BY <3>2
      <4> QED
        BY <2>3, <3>1, <3>3, <3>5, <4>3, <4>4
    <3> QED
      BY <3>4, <3>5
  <2>7. CASE life.packet /\ ~life.reviewed
    <3>1. Worked = 2 /\ 2 \in At("reviewer_packet") /\ last.type = "reviewer_packet"
      BY <2>2, <2>4, <2>7 DEF Worked, Placed, At
    <3>2. d \in {"reviewer_dispatch"} \X DispatchReasons
          \/ d \in {"reviewer_acceptance"} \X
                     {"worker_attempt_rejected", "semantic_contract_rejected"}
      BY <2>1, <2>5, <2>7 DEF StageFits, AllVerified, Staged
    <3> QED
      BY <2>3, <3>1, <3>2 DEF DispatchReasons
  <2>8. CASE life.reviewed /\ life.pending.role = "verifier"
    <3>1. Worked = 2 * (v + 1) + 2 /\ Asked = v + 1 /\ v + 1 \in 1 .. Asked
      BY <2>1, <2>2, <2>8 DEF Worked, Asked, Staged
    <3>2. Worked \in At("verifier_packet") /\ last.type = "verifier_packet"
      BY <2>4, <3>1 DEF Placed, At
    <3>3. d \in {"verifier_dispatch"} \X DispatchReasons
          \/ d = <<"verifier_acceptance", "worker_attempt_rejected">>
      BY <2>1, <2>5, <2>8, StageRoles DEF StageFits, AllVerified, Staged
    <3> QED
      BY <2>3, <3>2, <3>3 DEF DispatchReasons
  <2>9. CASE life.reviewed /\ life.pending.role # "verifier"
    <3>1. /\ life.packet /\ plan.reviewable /\ life.pending = NoTask
          /\ Asked = v /\ Worked = 2 * v + 3
      BY <2>1, <2>2, <2>9 DEF Staged, Asked, Worked
    <3>2. /\ last.type = "reviewer_result" \/ last.type = "verifier_result"
          /\ last.type = "reviewer_result" <=> v = 0
          /\ last.type = "reviewer_result" => (last.covered <=> life.covered)
      <4>1. CASE v = 0
        BY <2>4, <2>9, <3>1, <4>1 DEF Placed, At
      <4>2. CASE v # 0
        <5>1. v \in 1 .. v
          BY <2>1, <4>2
        <5>2. 2 * v + 3 \in At("verifier_result")
          BY <5>1 DEF Placed
        <5> QED
          BY <2>4, <3>1, <4>2, <5>2 DEF At
      <4> QED
        BY <4>1, <4>2
    <3>3. CASE ~life.covered
      <4>1. v = 0 /\ d = <<"reviewer_acceptance", "coverage_accounting_failed">>
        BY <2>1, <2>5, <2>9, <3>1, <3>3, StageRoles DEF StageFits, AllVerified, Placed
      <4> QED
        BY <2>3, <3>2, <3>3, <4>1
    <3>4. CASE life.covered /\ life.verified < Len(life.cands)
      <4>1. d = <<"verifier_acceptance", "semantic_contract_rejected">>
        BY <2>1, <2>5, <2>9, <3>1, <3>4, StageRoles DEF StageFits, AllVerified
      <4> QED
        BY <2>3, <3>2, <3>4, <4>1
    <3>5. CASE life.covered /\ ~(life.verified < Len(life.cands))
      <4>1. AllVerified(life) /\ d \in {"completion_gate"} \X GateReasons
        BY <2>1, <2>5, <2>9, <3>1, <3>5, StageRoles DEF StageFits, AllVerified
      <4>2. raised = 1 .. v /\ At("reviewer_result") # {}
        BY <4>1, ResultsOfVerified
      <4>3. /\ Cardinality(At("verifier_packet")) = Cardinality(raised)
            /\ Cardinality(At("verifier_result")) = Cardinality(raised)
        BY <4>1, <4>2, ResultsOfVerified
      <4> QED
        BY <2>3, <3>1, <3>2, <3>5, <4>1, <4>2, <4>3 DEF GateReasons
    <3> QED
      BY <3>3, <3>4, <3>5
  <2> QED
    BY <2>6, <2>7, <2>8, <2>9
<1> QED
  BY <1>1, Invariance, LayoutInvariance, PTL

\* A completed session accounts for all of its candidates, each as often as it
\* was raised, and for exactly the attempts that the plan sealed.
THEOREM AccountedCompletions == Spec => []CompletionAccounts
<1>1. Inv /\ Placed /\ Concluded => CompletionAccounts
  <2> SUFFICES ASSUME Inv, Placed, Concluded, At("evaluation_completion") # {} PROVE
        /\ plan.attempts = Cardinality(Results)
        /\ ~plan.reviewable => Results = {} /\ At("reviewer_packet") = {}
        /\ plan.reviewable =>
             \E r \in At("reviewer_result") :
               /\ At("reviewer_result") = {r} /\ ledger[r].covered
               /\ \A c \in Candidate :
                    Cardinality({i \in At("verifier_result") : ledger[i].task.cand = c})
                      = Cardinality({k \in DOMAIN ledger[r].cands : ledger[r].cands[k] = c})
    BY DEF CompletionAccounts
  <2>1. Projects(plan, life)
    BY DEF Concluded
  <2>2. CASE ~plan.reviewable
    <3>1. ~life.packet /\ ~life.reviewed /\ life.verified = 0 /\ plan.attempts = 0
      BY <2>1, <2>2 DEF Projects, ExpectedAttempts, Inv, Staged
    <3>2. Results = {} /\ At("reviewer_packet") = {}
      BY <3>1 DEF Placed, Results
    <3> QED
      BY <2>2, <3>1, <3>2, FS_EmptySet
  <2>3. CASE plan.reviewable
    <3> DEFINE v == life.verified
               R == At("verifier_result")
    <3>1. AllVerified(life) /\ plan.attempts = 1 + v
      BY <2>1, <2>3 DEF Projects, ExpectedAttempts, AllVerified
    <3>2. /\ v \in Nat /\ At("reviewer_result") = {3}
          /\ ledger[3].cands = life.cands /\ ledger[3].covered
          /\ DOMAIN ledger[3].cands = 1 .. v
          /\ IsFiniteSet(R) /\ Cardinality(R) = v
      BY <3>1, ResultsOfVerified
    <3>3. 3 \notin R /\ Results = R \cup {3}
      BY <3>2 DEF Results, At
    <3>4. plan.attempts = Cardinality(Results)
      <4>1. Cardinality(R \cup {3}) = v + 1
        BY <3>2, <3>3, FS_AddElement
      <4> QED
        BY <3>1, <3>2, <3>3, <4>1
    <3>5. ASSUME NEW c \in Candidate
          PROVE  Cardinality({i \in R : ledger[i].task.cand = c})
                   = Cardinality({k \in DOMAIN ledger[3].cands : ledger[3].cands[k] = c})
      <4> DEFINE K == {k \in 1 .. v : life.cands[k] = c}
      <4>1. \A k \in 1 .. v : ledger[2 * k + 3].task.cand = life.cands[k]
        <5>1. \A k \in 1 .. v : Instance(life.cands, k).cand = life.cands[k]
          BY DEF Instance, VerifierTask
        <5> QED
          BY <5>1 DEF Placed
      <4>2. {i \in R : ledger[i].task.cand = c} = {2 * k + 3 : k \in K}
        BY <4>1 DEF Placed
      <4>3. K \in SUBSET Nat /\ IsFiniteSet(K)
        <5>1. K \in SUBSET (1 .. v) /\ K \in SUBSET Nat /\ IsFiniteSet(1 .. v)
          BY <3>2, FS_Interval
        <5> QED
          BY <5>1, FS_Subset
      <4> HIDE DEF K
      <4>4. Cardinality({2 * k + 3 : k \in K}) = Cardinality(K)
        BY <4>3, PlacesCount
      <4> QED
        BY <3>2, <4>2, <4>4 DEF K
    <3> QED
      BY <2>3, <3>2, <3>4, <3>5
  <2> QED
    BY <2>2, <2>3
<1> QED
  BY <1>1, Invariance, LayoutInvariance, PTL
=============================================================================
