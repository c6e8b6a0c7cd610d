----------------------------- MODULE Evaluation -----------------------------
(***************************************************************************)
(* orchestrator.evaluate, with the Store it writes to and the worker       *)
(* backend it dispatches to, for evaluations that are handed the same      *)
(* backend.  Each evaluation has a session of its own.  The steps are the  *)
(* calls that read or change state outside the function; what the Store    *)
(* does within one call is in ArtifactStore, and appears here as the ways  *)
(* a call can end.                                                         *)
(*                                                                         *)
(* The backend is the scripted one: `total` attempts, the first for a      *)
(* reviewer and the others for verifiers, whose content is chosen when     *)
(* they are consumed.                                                      *)
(***************************************************************************)
EXTENDS Lifecycle

CONSTANTS
  Evaluation, \* the calls of evaluate
  MaxTrouble  \* bound on faults of the Store and of the view

ASSUME EvaluationAssumption == MaxTrouble \in Nat

VARIABLES
  pc,        \* the next step of each evaluation
  plan,      \* its plan, as far as it is known
  session,   \* its session: ledger, validator state, and whether it verifies
  attempt,   \* the worker result it is about to write
  diagnosis, \* the failure it is about to report
  outcome,   \* what it returned
  spent,     \* the attempts consumed for it (history)
  adverse,   \* something it is not to blame for went wrong (history)
  total, consumed,  \* the backend's script: length and cursor
  seen,      \* the execution identities the backend accepted
  trouble

local == <<plan, session, attempt, diagnosis, outcome, spent, adverse>>
backend == <<total, consumed, seen>>
vars == <<pc, local, backend, trouble>>

NoResult == [type |-> "none"]
NoDiagnosis == <<"none", "none">>
NoSession == [ledger |-> << >>, life |-> Fresh, health |-> "absent"]

Steps == {"readiness", "binding", "identity", "seal", "create", "target",
          "reviewerPacket", "runReviewer", "reviewerResult", "coverage",
          "verifierPacket", "runVerifier", "verifierResult", "readback", "gate",
          "project", "completion", "readCompletion", "report", "readReport", "view",
          "failure", "diagnostic", "readDiagnostic", "diagnosticReport",
          "readDiagnosticReport", "diagnosticView", "blocked", "recovery", "end"}

Init ==
  /\ pc = [e \in Evaluation |-> "readiness"]
  /\ plan = [e \in Evaluation |-> [reviewable |-> TRUE, manual |-> FALSE, attempts |-> 0]]
  /\ session = [e \in Evaluation |-> NoSession]
  /\ attempt = [e \in Evaluation |-> NoResult]
  /\ diagnosis = [e \in Evaluation |-> NoDiagnosis]
  /\ outcome = [e \in Evaluation |-> "none"]
  /\ spent = [e \in Evaluation |-> 0]
  /\ adverse = [e \in Evaluation |-> FALSE]
  /\ total \in 0 .. MaxCandidates + 1
  /\ consumed = 0
  /\ seen = [threads |-> {}, launches |-> {}]
  /\ trouble = 0

Goto(e, step) == pc' = [pc EXCEPT ![e] = step]
Blame(e) == adverse' = [adverse EXCEPT ![e] = TRUE]
Trouble == trouble < MaxTrouble /\ trouble' = trouble + 1
Life(e) == session[e].life
Size(e) == Len(session[e].ledger)

-----------------------------------------------------------------------------
(* Before the session *)

\* A backend that was used before is not ready, and neither is one whose
\* scenario is invalid.
Readiness(e) ==
  /\ pc[e] = "readiness"
  /\ \/ consumed = 0 /\ Goto(e, "binding") /\ UNCHANGED <<adverse, outcome>>
     \/ consumed # 0 /\ Goto(e, "blocked") /\ Blame(e) /\ UNCHANGED outcome
     \/ Goto(e, "blocked") /\ Blame(e) /\ UNCHANGED outcome
     \/ /\ Goto(e, "end") /\ Blame(e)
        /\ outcome' = [outcome EXCEPT ![e] = "raised"]
  /\ UNCHANGED <<plan, session, attempt, diagnosis, spent, backend, trouble>>

\* The request names another model, or the backend has no consumption oracle.
Binding(e) ==
  /\ pc[e] = "binding"
  /\ \/ Goto(e, "identity") /\ UNCHANGED adverse
     \/ Goto(e, "blocked") /\ Blame(e)
  /\ UNCHANGED <<plan, session, attempt, diagnosis, outcome, spent, backend, trouble>>

\* The identity seals the length of the script, of a backend still unused.
Identity(e) ==
  /\ pc[e] = "identity"
  /\ \/ /\ consumed = 0
        /\ plan' = [plan EXCEPT ![e].attempts = total]
        /\ Goto(e, "seal") /\ UNCHANGED adverse
     \/ Goto(e, "blocked") /\ Blame(e) /\ UNCHANGED plan
  /\ UNCHANGED <<session, attempt, diagnosis, outcome, spent, backend, trouble>>

Seal(e) ==
  /\ pc[e] = "seal"
  /\ \/ \E p \in Plan :
          /\ p.attempts = plan[e].attempts
          /\ plan' = [plan EXCEPT ![e] = p]
          /\ Goto(e, "create")
          /\ UNCHANGED <<adverse, outcome>>
     \/ /\ Goto(e, "end") /\ Blame(e)
        /\ outcome' = [outcome EXCEPT ![e] = "raised"]
        /\ UNCHANGED plan
  /\ UNCHANGED <<session, attempt, diagnosis, spent, backend, trouble>>

Create(e) ==
  /\ pc[e] = "create"
  /\ \/ /\ session' = [session EXCEPT ![e].health = "sound"]
        /\ Goto(e, "target")
        /\ UNCHANGED <<adverse, trouble>>
     \/ Trouble /\ Goto(e, "recovery") /\ Blame(e) /\ UNCHANGED session
  /\ UNCHANGED <<plan, attempt, diagnosis, outcome, spent, backend>>

-----------------------------------------------------------------------------
(* The Store, as its caller sees it *)

Stored(e, a) ==
  [session EXCEPT ![e].ledger = Append(@, a), ![e].life = Advance(@, a)]

\* write_artifact.  An error leaves the session as it was, with the artifact,
\* or unverifiable; the caller cannot tell and turns to the recovery view.
Write(e, a, next) ==
  LET accepted == session[e].health = "sound" /\ Admits(plan[e], Life(e), Size(e), a) IN
  /\ \/ /\ accepted
        /\ session' = Stored(e, a)
        /\ Goto(e, next) /\ UNCHANGED <<adverse, trouble>>
     \/ /\ ~accepted
        /\ Goto(e, "recovery") /\ UNCHANGED <<session, adverse, trouble>>
     \/ /\ accepted /\ Trouble /\ Blame(e)
        /\ session' \in {session, Stored(e, a),
                         [session EXCEPT ![e].health = "broken"]}
        /\ Goto(e, "recovery")
  /\ UNCHANGED <<plan, attempt, diagnosis, outcome, spent, backend>>

\* verify and the exact readbacks fail on a damaged session, or at reading it.
CheckFails(e) ==
  /\ Goto(e, "recovery")
  /\ \/ session[e].health = "broken" /\ UNCHANGED <<adverse, trouble>>
     \/ Trouble /\ Blame(e)
  /\ UNCHANGED <<plan, session, attempt, diagnosis, outcome, spent, backend>>

Checked(e, next) ==
  \/ /\ session[e].health = "sound"
     /\ Goto(e, next)
     /\ UNCHANGED <<local, backend, trouble>>
  \/ CheckFails(e)

\* A call of _normal_failure.
Failed(e, d) ==
  /\ diagnosis' = [diagnosis EXCEPT ![e] = d]
  /\ Goto(e, "failure")

\* Something outside the program damages a session.
Corrupt(e) ==
  /\ session[e].health = "sound" /\ outcome[e] = "none"
  /\ Trouble /\ Blame(e)
  /\ session' = [session EXCEPT ![e].health = "broken"]
  /\ UNCHANGED <<pc, plan, attempt, diagnosis, outcome, spent, backend>>

-----------------------------------------------------------------------------
(* The workers *)

\* The role that the next attempt of the script is for.
ScriptedRole == IF consumed = 0 THEN "reviewer" ELSE "verifier"

\* _accept_scripted_attempt and _worker_wrapper_and_producer, to the checks
\* that relate one attempt to another.
Accepts(a) ==
  /\ a.task.role = ScriptedRole
  /\ a.thread \notin seen.threads /\ a.launch \notin seen.launches

\* Bug: off by one at the end of the script.
Bug_RemainsInclusive == consumed <= total
Remains == consumed < total

Consume(e) == spent' = [spent EXCEPT ![e] = @ + 1] /\ consumed' = consumed + 1

\* FakeBackend.run for a task: the cursor moves before the attempt is looked
\* at, and the identities are remembered once it is accepted.
RunAccepted(e, a, next) ==
  /\ Remains /\ Consume(e)
  /\ Accepts(a)
  /\ seen' = [threads |-> seen.threads \cup {a.thread},
              launches |-> seen.launches \cup {a.launch}]
  /\ attempt' = [attempt EXCEPT ![e] = a]
  /\ Goto(e, next)
  /\ UNCHANGED <<diagnosis, adverse>>

RunRejected(e, phase) ==
  /\ Remains /\ Consume(e)
  /\ Failed(e, <<phase, "worker_attempt_rejected">>)
  /\ Blame(e)
  /\ UNCHANGED <<attempt, seen>>

\* No attempt is left, or a backend other than the scripted one is unavailable.
RunUnavailable(e, phase) ==
  /\ \/ ~Remains /\ Failed(e, <<phase, "scripted_attempts_exhausted">>)
     \/ Failed(e, <<phase, "worker_unavailable">>)
  /\ Blame(e)
  /\ UNCHANGED <<attempt, spent, consumed, seen>>

-----------------------------------------------------------------------------
(* The review *)

WriteTarget(e) ==
  /\ pc[e] = "target"
  /\ Write(e, TargetPacket(plan[e]),
           IF plan[e].reviewable THEN "reviewerPacket" ELSE "readback")

\* The task record may be rejected before it is written.
ReviewerPacketStep(e) ==
  /\ pc[e] = "reviewerPacket"
  /\ \/ Write(e, RolePacket("reviewer_packet", ReviewerTask), "runReviewer")
     \/ /\ Failed(e, <<"reviewer_acceptance", "semantic_contract_rejected">>)
        /\ Blame(e)
        /\ UNCHANGED <<plan, session, attempt, outcome, spent, backend, trouble>>

\* An accepted reviewer result whose candidates are not all anchored at the
\* target is a failure of its own.
OffTarget(a) == \E i \in DOMAIN a.cands : a.cands[i] \notin OnTarget

RunReviewer(e) ==
  /\ pc[e] = "runReviewer"
  /\ \/ \E t \in Thread, l \in Launch, c \in CandidateLists, f \in BOOLEAN :
          LET a == ReviewerResult(ReviewerTask, t, l, c, f) IN
          /\ ~OffTarget(a)
          /\ RunAccepted(e, a, "reviewerResult")
     \/ \E t \in Thread, l \in Launch, c \in CandidateLists, f \in BOOLEAN :
          LET a == ReviewerResult(ReviewerTask, t, l, c, f) IN
          /\ OffTarget(a) /\ Accepts(a)
          /\ Remains /\ Consume(e)
          /\ seen' = [threads |-> seen.threads \cup {t}, launches |-> seen.launches \cup {l}]
          /\ Failed(e, <<"reviewer_acceptance", "semantic_contract_rejected">>)
          /\ Blame(e) /\ UNCHANGED attempt
     \/ RunRejected(e, "reviewer_acceptance")
     \/ RunUnavailable(e, "reviewer_dispatch")
  /\ UNCHANGED <<plan, session, outcome, total, trouble>>

WriteReviewerResult(e) ==
  /\ pc[e] = "reviewerResult"
  /\ Write(e, attempt[e], "coverage")

\* The next candidate to verify, or the end of the loop over them.
AfterCandidate(e) ==
  IF Life(e).verified < Len(Life(e).cands) THEN "verifierPacket" ELSE "readback"

Coverage(e) ==
  /\ pc[e] = "coverage"
  /\ \/ Life(e).covered /\ Checked(e, AfterCandidate(e))
     \/ /\ ~Life(e).covered /\ session[e].health = "sound"
        /\ Failed(e, <<"reviewer_acceptance", "coverage_accounting_failed">>)
        /\ Blame(e)
        /\ UNCHANGED <<plan, session, attempt, outcome, spent, backend, trouble>>
     \/ ~Life(e).covered /\ CheckFails(e)

\* Bug: equal candidates are not told apart.
Bug_SameOrdinal(e) == VerifierTask(Life(e).cands[Life(e).verified + 1], 0)
\* The task of the next candidate, numbered among its equals.
NextTask(e) == Instance(Life(e).cands, Life(e).verified + 1)

VerifierPacketStep(e) ==
  /\ pc[e] = "verifierPacket"
  /\ \/ Write(e, RolePacket("verifier_packet", NextTask(e)), "runVerifier")
     \/ /\ Failed(e, <<"verifier_acceptance", "semantic_contract_rejected">>)
        /\ Blame(e)
        /\ UNCHANGED <<plan, session, attempt, outcome, spent, backend, trouble>>

RunVerifier(e) ==
  /\ pc[e] = "runVerifier"
  /\ \/ \E t \in Thread, l \in Launch, d \in Disposition :
          RunAccepted(e, VerifierResult(NextTask(e), t, l, d), "verifierResult")
     \/ RunRejected(e, "verifier_acceptance")
     \/ RunUnavailable(e, "verifier_dispatch")
  /\ UNCHANGED <<plan, session, outcome, total, trouble>>

\* Bug: the next candidate's worker is run before its packet is written.
Bug_VerifyNextUnrecorded(e) ==
  /\ pc[e] = "verifierResult"
  /\ Write(e, attempt[e],
           IF Life(e).verified + 1 < Len(Life(e).cands) THEN "runVerifier" ELSE "readback")
WriteVerifierResult(e) ==
  /\ pc[e] = "verifierResult"
  /\ Write(e, attempt[e],
           IF Life(e).verified + 1 < Len(Life(e).cands) THEN "verifierPacket" ELSE "readback")

-----------------------------------------------------------------------------
(* The completion gate *)

Readback(e) == pc[e] = "readback" /\ Checked(e, "gate")

\* Bug: the reviewer's attempt is not expected.
Bug_ExpectedVerifiers(e) == Len(Life(e).cands)
Expected(e) == ExpectedAttempts(plan[e], Life(e))

\* The script must be used up, and by this evaluation.  The oracle itself may
\* fail.
Gate(e) ==
  /\ pc[e] = "gate"
  /\ \/ /\ total = Expected(e) /\ consumed = Expected(e)
        /\ Goto(e, "project")
        /\ UNCHANGED <<diagnosis, adverse>>
     \/ /\ total # Expected(e) \/ consumed # Expected(e)
        /\ Failed(e, <<"completion_gate",
                       IF consumed < total THEN "scripted_attempts_leftover"
                       ELSE "scripted_attempt_accounting_mismatch">>)
        /\ adverse' = [adverse EXCEPT ![e] = @ \/ total # spent[e] \/ consumed # spent[e]]
     \/ /\ Failed(e, <<"completion_gate", "scripted_attempt_accounting_mismatch">>)
        /\ Blame(e)
  /\ UNCHANGED <<plan, session, attempt, outcome, spent, backend, trouble>>

\* The completion is derived and its report rendered before either is written.
Project(e) ==
  /\ pc[e] = "project"
  /\ \/ Projects(plan[e], Life(e)) /\ Goto(e, "completion") /\ UNCHANGED <<diagnosis, adverse>>
     \/ /\ Failed(e, <<"completion_gate", "completion_projection_rejected">>)
        /\ Blame(e)
  /\ UNCHANGED <<plan, session, attempt, outcome, spent, backend, trouble>>

WriteCompletion(e) ==
  /\ pc[e] = "completion"
  /\ Write(e, Completion(Verdict(plan[e], Life(e).dispositions), 1 .. Size(e)), "readCompletion")

\* Bug: the outcome is returned without the report.
Bug_ReadCompletionLast(e) == pc[e] = "readCompletion" /\ Checked(e, "view")
ReadCompletion(e) == pc[e] = "readCompletion" /\ Checked(e, "report")

WriteReport(e) ==
  /\ pc[e] = "report"
  /\ Write(e, Report("evaluation_report", Size(e)), "readReport")

ReadReport(e) == pc[e] = "readReport" /\ Checked(e, "view")

-----------------------------------------------------------------------------
(* Endings *)

\* _normal_failure verifies before it writes.
Failure(e) == pc[e] = "failure" /\ Checked(e, "diagnostic")

\* Bug: the worker is tried again after the failure was recorded.
Bug_DiagnoseAndRetry(e) ==
  /\ pc[e] = "diagnostic"
  /\ Write(e, Diagnostic(diagnosis[e], 1 .. Size(e)), "runReviewer")
WriteDiagnostic(e) ==
  /\ pc[e] = "diagnostic"
  /\ Write(e, Diagnostic(diagnosis[e], 1 .. Size(e)), "readDiagnostic")

ReadDiagnostic(e) == pc[e] = "readDiagnostic" /\ Checked(e, "diagnosticReport")

WriteDiagnosticReport(e) ==
  /\ pc[e] = "diagnosticReport"
  /\ Write(e, Report("diagnostic_report", Size(e)), "readDiagnosticReport")

ReadDiagnosticReport(e) ==
  pc[e] = "readDiagnosticReport" /\ Checked(e, "diagnosticView")

Endings == [view |-> "completed", diagnosticView |-> "diagnosed",
            blocked |-> "blocked", recovery |-> "recovered"]

\* The view is materialised beside the session and the outcome returned.
End(e) ==
  /\ pc[e] \in DOMAIN Endings
  /\ \/ /\ outcome' = [outcome EXCEPT ![e] = Endings[pc[e]]]
        /\ UNCHANGED <<adverse, trouble>>
     \/ /\ Trouble /\ Blame(e)
        /\ outcome' = [outcome EXCEPT ![e] = "raised"]
  /\ Goto(e, "end")
  /\ UNCHANGED <<plan, session, attempt, diagnosis, spent, backend>>

Step(e) ==
  \/ Readiness(e) \/ Binding(e) \/ Identity(e) \/ Seal(e) \/ Create(e)
  \/ WriteTarget(e) \/ ReviewerPacketStep(e) \/ RunReviewer(e) \/ WriteReviewerResult(e)
  \/ Coverage(e) \/ VerifierPacketStep(e) \/ RunVerifier(e) \/ WriteVerifierResult(e)
  \/ Readback(e) \/ Gate(e) \/ Project(e) \/ WriteCompletion(e) \/ ReadCompletion(e)
  \/ WriteReport(e) \/ ReadReport(e)
  \/ Failure(e) \/ WriteDiagnostic(e) \/ ReadDiagnostic(e) \/ WriteDiagnosticReport(e)
  \/ ReadDiagnosticReport(e) \/ End(e)

Next == \E e \in Evaluation : Step(e) \/ Corrupt(e)

Spec == Init /\ [][Next]_vars

\* A call that was made runs on.
FairSpec == Spec /\ \A e \in Evaluation : WF_vars(Step(e))

-----------------------------------------------------------------------------
(* Properties *)

Placed(e, kinds) == {i \in 1 .. Size(e) : session[e].ledger[i].type \in kinds}
Packets(e) == Placed(e, {"reviewer_packet", "verifier_packet"})
Results(e) == Placed(e, {"reviewer_result", "verifier_result"})

Kinds == {"target_packet", "reviewer_packet", "reviewer_result", "verifier_packet",
          "verifier_result", "diagnostic", "evaluation_completion",
          "diagnostic_report", "evaluation_report"}

\* Every variable has its shape, and the cursor stays within the script.
TypeOK ==
  /\ pc \in [Evaluation -> Steps]
  /\ plan \in [Evaluation -> [reviewable : BOOLEAN, manual : BOOLEAN,
                              attempts : 0 .. MaxCandidates + 1]]
  /\ \A e \in Evaluation :
       /\ session[e].health \in {"absent", "sound", "broken"}
       /\ \A i \in 1 .. Size(e) : session[e].ledger[i].type \in Kinds
       /\ attempt[e].type \in {"none", "reviewer_result", "verifier_result"}
       /\ diagnosis[e] \in Diagnosis \cup {NoDiagnosis}
  /\ outcome \in [Evaluation -> {"none", "completed", "diagnosed", "blocked",
                                 "recovered", "raised"}]
  /\ spent \in [Evaluation -> 0 .. total] /\ adverse \in [Evaluation -> BOOLEAN]
  /\ total \in 0 .. MaxCandidates + 1 /\ consumed \in 0 .. total
  /\ seen \in [threads : SUBSET Thread, launches : SUBSET Launch]
  /\ trouble \in 0 .. MaxTrouble

\* What the caller is told is what the session says: a completion or a
\* diagnosis that is returned is the terminal of the ledger, followed by its
\* report, and a blocked evaluation has neither a session nor used an attempt.
OutcomeMatchesStore ==
  \A e \in Evaluation :
    LET ledger == session[e].ledger
        n == Size(e) IN
    CASE outcome[e] = "completed" ->
           /\ ledger[n - 1] = Completion(Verdict(plan[e], Life(e).dispositions), 1 .. (n - 2))
           /\ ledger[n] = Report("evaluation_report", n - 1)
      [] outcome[e] = "diagnosed" ->
           /\ ledger[n - 1] = Diagnostic(diagnosis[e], 1 .. (n - 2))
           /\ ledger[n] = Report("diagnostic_report", n - 1)
      [] outcome[e] = "blocked" -> session[e] = NoSession /\ spent[e] = 0
      [] OTHER -> TRUE

\* The orchestrator never submits an artifact that the Store's lifecycle
\* refuses: every packet, result, diagnosis and completion it writes fits the
\* committed prefix, and only a fault or damage leads to the recovery view.
RecoveryOnlyOnFault ==
  \A e \in Evaluation : pc[e] = "recovery" \/ outcome[e] = "recovered" => trouble > 0

\* A completed evaluation used the whole script and nobody else used any of
\* it: the length sealed in the plan, the cursor, the attempts consumed for it
\* and the results in its ledger are one number.
CompletionExact ==
  \A e \in Evaluation : outcome[e] = "completed" =>
    /\ consumed = total /\ spent[e] = total /\ plan[e].attempts = total
    /\ Cardinality(Results(e)) = total

\* An attempt is consumed only for the packet that is the last artifact of an
\* open session, and one packet never costs two attempts.
DispatchRecorded ==
  [][\A e \in Evaluation : spent'[e] # spent[e] =>
       /\ Size(e) \in Packets(e)
       /\ session[e].ledger[Size(e)].task = Life(e).pending
       /\ spent'[e] = Cardinality(Packets(e))]_vars

\* Evaluations of one backend keep the promise: no dispatch once a session is
\* concluded, one ending each, and a completion with worker evidence only for
\* the one evaluation that had the backend for itself.
Promise == INSTANCE EvaluationPromise WITH
  phase <- [e \in Evaluation |->
              IF outcome[e] # "none" THEN outcome[e]
              ELSE IF Life(e).terminal # "none" THEN "concluded" ELSE "open"]
ImplementsPromise == Promise!Spec

\* Every evaluation ends, and with a completion unless something outside the
\* orchestrator went wrong: the backend, the request, the target, the Store.
EvaluationEnds ==
  \A e \in Evaluation :
    <>(outcome[e] = "completed" \/ (adverse[e] /\ outcome[e] # "none"))
=============================================================================
