------------------------------ MODULE Lifecycle ------------------------------
(***************************************************************************)
(* The semantic lifecycle of one evaluation session: which artifact may    *)
(* follow a given ledger, and what the ledger then stands for.  It is the  *)
(* loop of store._validate_session_sequence, one artifact per step: the    *)
(* record `life` holds the loop's local variables, Admits is the absence   *)
(* of an IntegrityError and Advance the assignments.  The Store runs the   *)
(* loop over the whole ledger before every commit and at every             *)
(* verification.                                                           *)
(*                                                                         *)
(* Abstracted data: a review candidate is a member of Candidate (its       *)
(* canonical hash); a role task record is the role, the candidate and the  *)
(* duplicate ordinal its packet binds; an envelope hash is the position of *)
(* the envelope in the ledger; a rendered report is the terminal it        *)
(* renders.                                                                *)
(*                                                                         *)
(* Here as in the other modules an operator named Bug_ is a deliberate     *)
(* error in the definition that follows it; no specification uses it, and  *)
(* the project lists which property each of them must break.               *)
(***************************************************************************)
EXTENDS Naturals, Sequences, FiniteSets

CONSTANTS
  Candidate,    \* canonical hashes of review candidates
  OnTarget,     \* the candidates anchored at a reviewable line of the target
  NoCandidate,  \* the candidate field of a reviewer task
  Thread,       \* worker thread identities
  Launch,       \* worker process launch identities
  MaxCandidates \* bound on the candidates of one reviewer result

ASSUME LifecycleAssumption ==
  /\ OnTarget \subseteq Candidate
  /\ NoCandidate \notin Candidate
  /\ MaxCandidates \in Nat

-----------------------------------------------------------------------------
(* Plans and artifacts *)

\* What the sealed plan fixes: whether the target has reviewable atoms and
\* manual ones, and how many scripted attempts the backend announced.
Plan ==
  {p \in [reviewable : BOOLEAN, manual : BOOLEAN, attempts : 0 .. MaxCandidates + 1] :
      p.reviewable \/ p.manual}

NoTask == [role |-> "none", cand |-> NoCandidate, ordinal |-> 0]
ReviewerTask == [role |-> "reviewer", cand |-> NoCandidate, ordinal |-> 0]
VerifierTask(c, k) == [role |-> "verifier", cand |-> c, ordinal |-> k]
Task == {ReviewerTask} \cup
        {VerifierTask(c, k) : c \in Candidate, k \in 0 .. MaxCandidates}

\* "dismissed" stands for false_positive and for pre_existing, which no rule
\* tells apart.
Disposition == {"confirmed", "dismissed", "needs_manual_review"}
ReportKinds == {"evaluation_report", "diagnostic_report"}
Verdicts == {"clean", "findings", "manual_review_required"}

CandidateLists == UNION {[1 .. k -> Candidate] : k \in 0 .. MaxCandidates}

DispatchReasons == {"worker_unavailable", "scripted_attempts_exhausted"}
GateReasons == {"scripted_attempts_leftover", "scripted_attempt_accounting_mismatch",
                "completion_projection_rejected"}

\* contracts._POST_STORE_DIAGNOSTIC_REASON_BY_PHASE, as <<phase, reason>> pairs.
Diagnosis ==
  ({"reviewer_dispatch", "verifier_dispatch"} \X DispatchReasons)
  \cup ({"reviewer_acceptance"} \X {"worker_attempt_rejected",
          "semantic_contract_rejected", "coverage_accounting_failed"})
  \cup ({"verifier_acceptance"} \X {"worker_attempt_rejected",
          "semantic_contract_rejected"})
  \cup ({"completion_gate"} \X GateReasons)

TargetPacket(p) == [type |-> "target_packet",
                    reviewable |-> p.reviewable, manual |-> p.manual]
RolePacket(kind, task) == [type |-> kind, task |-> task]
ReviewerResult(task, t, l, cands, covered) ==
  [type |-> "reviewer_result", task |-> task, thread |-> t, launch |-> l,
   cands |-> cands, covered |-> covered]
VerifierResult(task, t, l, d) ==
  [type |-> "verifier_result", task |-> task, thread |-> t, launch |-> l,
   disposition |-> d]
Diagnostic(d, inputs) == [type |-> "diagnostic", diagnosis |-> d, inputs |-> inputs]
Completion(v, inputs) == [type |-> "evaluation_completion", verdict |-> v, inputs |-> inputs]
Report(kind, i) == [type |-> kind, inputs |-> {i}]

\* Every artifact the Store's per-artifact contract lets through for a ledger
\* of length n: well formed, of a known type, and of the producer kind that
\* the type calls for.
WorkArtifact ==
  {TargetPacket(p) : p \in Plan}
  \cup {RolePacket(k, t) : k \in {"reviewer_packet", "verifier_packet"}, t \in Task}
  \cup {ReviewerResult(ReviewerTask, t, l, c, f) :
          t \in Thread, l \in Launch, c \in CandidateLists, f \in BOOLEAN}
  \cup {VerifierResult(k, t, l, d) :
          k \in Task \ {ReviewerTask}, t \in Thread, l \in Launch, d \in Disposition}
EndArtifact(n) ==
  {Diagnostic(d, 1 .. k) : d \in Diagnosis, k \in 0 .. n}
  \cup {Completion(v, 1 .. k) : v \in Verdicts, k \in 0 .. n}
  \cup {Report(k, i) : k \in ReportKinds, i \in 1 .. n}
Artifact(n) == WorkArtifact \cup EndArtifact(n)

-----------------------------------------------------------------------------
(* The validator's state *)

Fresh ==
  [begun |-> FALSE,             \* the target packet is in the ledger
   packet |-> FALSE,            \* the reviewer packet is
   reviewed |-> FALSE,          \* the reviewer result is
   cands |-> << >>,             \* its candidates
   covered |-> FALSE,           \* it covers exactly the reviewable atoms
   pending |-> NoTask,          \* the role task whose result is awaited
   verified |-> 0,              \* how many candidates have a verifier result
   dispositions |-> << >>,      \* what those results say
   terminal |-> "none",
   reported |-> FALSE,
   tasks |-> {}, threads |-> {}, launches |-> {}]   \* seen execution identities

\* The verifier task of the i-th candidate: equal candidates are told apart by
\* the number of equal ones before them.
Instance(cands, i) ==
  VerifierTask(cands[i], Cardinality({j \in 1 .. (i - 1) : cands[j] = cands[i]}))

Open(life) == life.begun /\ life.terminal = "none"

\* Bug: a launch may serve two results.
Bug_FreshTaskAndThread(life, a) == a.task \notin life.tasks /\ a.thread \notin life.threads
\* The worker executions of accepted results share no identity.
FreshExecution(life, a) ==
  /\ a.task \notin life.tasks
  /\ a.thread \notin life.threads
  /\ a.launch \notin life.launches

\* Bug: the last candidate is forgotten.
Bug_AllVerifiedButOne(life) ==
  life.reviewed /\ life.covered /\ life.pending = NoTask
    /\ life.verified + 1 = Len(life.cands)
\* Bug: no candidate needs a verifier.
Bug_AllReviewed(life) == life.reviewed /\ life.covered /\ life.pending = NoTask
\* Every packet has its result and every candidate its verifier.
AllVerified(life) ==
  life.reviewed /\ life.covered /\ life.pending = NoTask
    /\ life.verified = Len(life.cands)

\* A diagnostic names the phase the committed prefix is really in.
StageFits(plan, life, d) ==
  \/ /\ ~plan.reviewable
     /\ ~life.packet
     /\ d \in {"completion_gate"} \X GateReasons
  \/ /\ plan.reviewable /\ ~life.packet
     /\ d = <<"reviewer_acceptance", "semantic_contract_rejected">>
  \/ /\ plan.reviewable /\ life.packet /\ ~life.reviewed
     /\ life.pending.role = "reviewer"
     /\ \/ d \in {"reviewer_dispatch"} \X DispatchReasons
        \/ d \in {"reviewer_acceptance"} \X
                   {"worker_attempt_rejected", "semantic_contract_rejected"}
  \/ /\ life.reviewed /\ ~life.covered
     /\ life.pending = NoTask
     /\ d = <<"reviewer_acceptance", "coverage_accounting_failed">>
  \/ /\ life.reviewed /\ life.covered
     /\ life.pending.role = "verifier"
     /\ \/ d \in {"verifier_dispatch"} \X DispatchReasons
        \/ d = <<"verifier_acceptance", "worker_attempt_rejected">>
  \/ /\ life.reviewed /\ life.covered /\ life.pending = NoTask
     /\ life.verified < Len(life.cands)
     /\ d = <<"verifier_acceptance", "semantic_contract_rejected">>
  \/ /\ AllVerified(life)
     /\ d \in {"completion_gate"} \X GateReasons

\* Bug: a confirmed finding hides the manual items.
Bug_VerdictFindingsFirst(plan, dispositions) ==
  IF \E i \in DOMAIN dispositions : dispositions[i] = "confirmed" THEN "findings"
  ELSE IF plan.manual \/ \E i \in DOMAIN dispositions :
                            dispositions[i] = "needs_manual_review"
       THEN "manual_review_required" ELSE "clean"
\* completion_projection.derive_completion_payload, to the verdict: manual
\* items win over findings, and findings over clean.
Verdict(plan, dispositions) ==
  IF plan.manual \/ \E i \in DOMAIN dispositions : dispositions[i] = "needs_manual_review"
  THEN "manual_review_required"
  ELSE IF \E i \in DOMAIN dispositions : dispositions[i] = "confirmed"
       THEN "findings" ELSE "clean"

\* Bug: the count is taken from the plan and not from the evidence.
Bug_AttemptsFromPlan(plan, life) == plan.attempts
ExpectedAttempts(plan, life) == IF plan.reviewable THEN 1 + Len(life.cands) ELSE 0

\* Bug: the attempts are not counted.
Bug_ProjectsUncounted(plan, life) ==
  /\ life.pending = NoTask
  /\ IF plan.reviewable THEN AllVerified(life) ELSE ~life.packet
\* The projection exists only for a fully verified prefix whose attempt count
\* is the one the plan sealed.
Projects(plan, life) ==
  /\ life.pending = NoTask
  /\ IF plan.reviewable
     THEN AllVerified(life)
     ELSE ~life.packet
  /\ plan.attempts = ExpectedAttempts(plan, life)

ReportOf(terminal) ==
  IF terminal = "evaluation_completion" THEN "evaluation_report" ELSE "diagnostic_report"

-----------------------------------------------------------------------------
(* Which artifact may come next.  n is the number of committed artifacts. *)

AdmitsTargetPacket(plan, life, a) ==
  /\ ~life.begun
  /\ a = TargetPacket(plan)

AdmitsReviewerPacket(plan, life, a) ==
  /\ Open(life)
  /\ plan.reviewable /\ ~life.packet /\ ~life.reviewed
  /\ life.pending = NoTask
  /\ a.task = ReviewerTask

AdmitsReviewerResult(life, a) ==
  /\ Open(life)
  /\ life.pending.role = "reviewer" /\ ~life.reviewed
  /\ a.task = life.pending
  /\ FreshExecution(life, a)
  /\ \A i \in DOMAIN a.cands : a.cands[i] \in OnTarget

AdmitsVerifierPacket(life, a) ==
  /\ Open(life)
  /\ life.reviewed /\ life.covered
  /\ life.pending = NoTask
  /\ life.verified < Len(life.cands)
  /\ a.task = Instance(life.cands, life.verified + 1)

AdmitsVerifierResult(life, a) ==
  /\ Open(life)
  /\ life.pending.role = "verifier"
  /\ a.task = life.pending
  /\ FreshExecution(life, a)

AdmitsDiagnostic(plan, life, n, a) ==
  /\ Open(life)
  /\ a.inputs = 1 .. n
  /\ StageFits(plan, life, a.diagnosis)

AdmitsCompletion(plan, life, n, a) ==
  /\ Open(life)
  /\ Projects(plan, life)
  /\ a.verdict = Verdict(plan, life.dispositions)
  /\ a.inputs = 1 .. n

\* Bug: a second report is not noticed.
Bug_AdmitsAnyReport(life, n, a) ==
  life.terminal # "none" /\ a.type = ReportOf(life.terminal) /\ a.inputs = {n}
AdmitsReport(life, n, a) ==
  /\ life.terminal # "none" /\ ~life.reported
  /\ a.type = ReportOf(life.terminal)
  /\ a.inputs = {n}

Admits(plan, life, n, a) ==
  \/ a.type = "target_packet" /\ AdmitsTargetPacket(plan, life, a)
  \/ a.type = "reviewer_packet" /\ AdmitsReviewerPacket(plan, life, a)
  \/ a.type = "reviewer_result" /\ AdmitsReviewerResult(life, a)
  \/ a.type = "verifier_packet" /\ AdmitsVerifierPacket(life, a)
  \/ a.type = "verifier_result" /\ AdmitsVerifierResult(life, a)
  \/ a.type = "diagnostic" /\ AdmitsDiagnostic(plan, life, n, a)
  \/ a.type = "evaluation_completion" /\ AdmitsCompletion(plan, life, n, a)
  \/ a.type \in ReportKinds /\ AdmitsReport(life, n, a)

\* What the validator's variables are after an admitted artifact.
Executed(life, a) ==
  [life EXCEPT !.pending = NoTask,
               !.tasks = @ \cup {a.task},
               !.threads = @ \cup {a.thread},
               !.launches = @ \cup {a.launch}]

Advance(life, a) ==
  CASE a.type = "target_packet" -> [life EXCEPT !.begun = TRUE]
    [] a.type = "reviewer_packet" ->
         [life EXCEPT !.packet = TRUE, !.pending = a.task]
    [] a.type = "reviewer_result" ->
         [Executed(life, a) EXCEPT !.reviewed = TRUE, !.cands = a.cands,
                                   !.covered = a.covered]
    [] a.type = "verifier_packet" -> [life EXCEPT !.pending = a.task]
    [] a.type = "verifier_result" ->
         [Executed(life, a) EXCEPT !.verified = @ + 1,
                                   !.dispositions = Append(@, a.disposition)]
    [] a.type \in {"diagnostic", "evaluation_completion"} ->
         [life EXCEPT !.terminal = a.type]
    [] OTHER -> [life EXCEPT !.reported = TRUE]
=============================================================================
