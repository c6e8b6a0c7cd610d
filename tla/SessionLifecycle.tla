-------------------------- MODULE SessionLifecycle --------------------------
(***************************************************************************)
(* The Store as the judge of what a session may contain: an arbitrary      *)
(* caller submits arbitrary well formed artifacts, and write_artifact      *)
(* commits one exactly when the lifecycle admits it after the ledger so    *)
(* far.  Nothing is assumed of the caller, so what holds here holds of     *)
(* every session that ArtifactStore.verify accepts.                        *)
(*                                                                         *)
(* `life` is what the validator has computed from `ledger`; recomputing it *)
(* at every verification gives the same value, because Advance is a        *)
(* function of the previous value and the artifact.                        *)
(***************************************************************************)
EXTENDS Lifecycle

VARIABLES
  plan,    \* the sealed plan of the session
  ledger,  \* the committed artifacts, in ledger order
  life     \* the validator's state after them

vars == <<plan, ledger, life>>

Init ==
  /\ plan \in Plan
  /\ ledger = << >>
  /\ life = Fresh

\* write_artifact of an artifact that the lifecycle admits.
Commit(a) ==
  /\ Admits(plan, life, Len(ledger), a)
  /\ ledger' = Append(ledger, a)
  /\ life' = Advance(life, a)
  /\ UNCHANGED plan

CommitTargetPacket == \E p \in Plan : Commit(TargetPacket(p))

CommitReviewerPacket == \E k \in Task : Commit(RolePacket("reviewer_packet", k))

CommitReviewerResult ==
  \E t \in Thread, l \in Launch, c \in CandidateLists, f \in BOOLEAN :
    Commit(ReviewerResult(ReviewerTask, t, l, c, f))

CommitVerifierPacket == \E k \in Task : Commit(RolePacket("verifier_packet", k))

CommitVerifierResult ==
  \E k \in Task \ {ReviewerTask}, t \in Thread, l \in Launch, d \in Disposition :
    Commit(VerifierResult(k, t, l, d))

\* The caller may name any prefix of the ledger as a terminal's inputs.
CommitDiagnostic ==
  \E d \in Diagnosis, k \in 0 .. Len(ledger) : Commit(Diagnostic(d, 1 .. k))

CommitCompletion ==
  \E v \in Verdicts, k \in 0 .. Len(ledger) : Commit(Completion(v, 1 .. k))

CommitReport ==
  \E kind \in ReportKinds, i \in DOMAIN ledger :
    Commit(Report(kind, i))

Next ==
  \/ CommitTargetPacket
  \/ CommitReviewerPacket
  \/ CommitReviewerResult
  \/ CommitVerifierPacket
  \/ CommitVerifierResult
  \/ CommitDiagnostic
  \/ CommitCompletion
  \/ CommitReport

Spec == Init /\ [][Next]_vars

-----------------------------------------------------------------------------
(* Properties: read off the ledger alone, not off the validator's state *)

At(kind) == {i \in DOMAIN ledger : ledger[i].type = kind}
Results == At("reviewer_result") \cup At("verifier_result")
Terminals == At("diagnostic") \cup At("evaluation_completion")

\* Every committed artifact is well formed and the validator's state has its
\* shape.
TypeOK ==
  /\ plan \in Plan
  /\ ledger \in Seq(Artifact(Len(ledger)))
  /\ life \in [begun : BOOLEAN, packet : BOOLEAN, reviewed : BOOLEAN,
               cands : CandidateLists, covered : BOOLEAN,
               pending : Task \cup {NoTask}, verified : 0 .. MaxCandidates,
               dispositions : Seq(Disposition),
               terminal : {"none", "diagnostic", "evaluation_completion"},
               reported : BOOLEAN, tasks : SUBSET Task,
               threads : SUBSET Thread, launches : SUBSET Launch]

\* A terminal ends the session: nothing but the one report of the same kind,
\* naming that terminal, can follow it, so a session never holds two
\* terminals, nor a completion and a diagnostic.
TerminalIsLast ==
  \A i \in Terminals :
    /\ Len(ledger) <= i + 1
    /\ Len(ledger) = i + 1 =>
         /\ ledger[i + 1].type = ReportOf(ledger[i].type)
         /\ ledger[i + 1].inputs = {i}

\* The accepted results of a session come from pairwise different workers: no
\* task is answered twice and no thread or process launch serves two results,
\* be it the reviewer's or a verifier's.
ExecutionsDistinct ==
  \A i, j \in Results : i # j =>
    /\ ledger[i].task # ledger[j].task
    /\ ledger[i].thread # ledger[j].thread
    /\ ledger[i].launch # ledger[j].launch

\* A completed session is fully accounted for: a reviewable target has one
\* reviewer result covering it, and each candidate it raised has as many
\* verifier results as times it was raised; a target with nothing to review
\* has no worker evidence at all.  The attempts the plan sealed are exactly
\* those that the ledger holds results of.
CompletionAccounts ==
  At("evaluation_completion") # {} =>
    /\ plan.attempts = Cardinality(Results)
    /\ ~plan.reviewable => Results = {} /\ At("reviewer_packet") = {}
    /\ plan.reviewable =>
         \E r \in At("reviewer_result") :
           /\ At("reviewer_result") = {r} /\ ledger[r].covered
           /\ \A c \in Candidate :
                Cardinality({i \in At("verifier_result") : ledger[i].task.cand = c})
                  = Cardinality({k \in DOMAIN ledger[r].cands : ledger[r].cands[k] = c})

\* The verdict of a completion is not more favourable than the evidence: clean
\* excludes a manual item and a confirmed candidate, findings excludes a
\* manual item and has a confirmed candidate.
VerdictHonest ==
  \A i \in At("evaluation_completion") :
    LET says == {ledger[j].disposition : j \in At("verifier_result")} IN
    /\ ledger[i].verdict = "clean" => ~plan.manual /\ says \subseteq {"dismissed"}
    /\ ledger[i].verdict = "findings" =>
         /\ ~plan.manual
         /\ "confirmed" \in says /\ "needs_manual_review" \notin says
    /\ ledger[i].verdict = "manual_review_required" =>
         plan.manual \/ "needs_manual_review" \in says

\* A diagnostic tells where the session really stopped: a dispatch phase only
\* right after the packet of that role, a coverage failure only right after a
\* reviewer result that does not cover the target, the completion gate only
\* when every packet has its result and every candidate its verifier; and a
\* session whose reviewer did not cover the target stops for no other reason.
DiagnosisTruthful ==
  \A i \in At("diagnostic") :
    LET phase == ledger[i].diagnosis[1]
        reason == ledger[i].diagnosis[2]
        last == ledger[i - 1]
        raised == UNION {DOMAIN ledger[r].cands : r \in At("reviewer_result")}
    IN
    /\ i > 1
    /\ phase = "reviewer_dispatch" => last.type = "reviewer_packet"
    /\ phase = "verifier_dispatch" => last.type = "verifier_packet"
    /\ reason = "worker_attempt_rejected" =>
         last.type = IF phase = "reviewer_acceptance"
                     THEN "reviewer_packet" ELSE "verifier_packet"
    /\ reason = "coverage_accounting_failed" <=>
         last.type = "reviewer_result" /\ ~last.covered
    /\ phase = "completion_gate" =>
         /\ Cardinality(At("verifier_packet")) = Cardinality(raised)
         /\ Cardinality(At("verifier_result")) = Cardinality(raised)
         /\ plan.reviewable <=> At("reviewer_result") # {}

\* An open session can always be concluded: whatever was committed, some
\* diagnostic fits the stage, so a caller is never left with a session that
\* only an untruthful terminal could end.
AlwaysConcludable ==
  Open(life) => \E d \in Diagnosis : StageFits(plan, life, d)
=============================================================================
