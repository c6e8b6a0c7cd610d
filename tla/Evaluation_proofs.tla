-------------------------- MODULE Evaluation_proofs --------------------------
(***************************************************************************)
(* What holds of any number of evaluations that share one worker backend,  *)
(* for any candidates, workers, bounds and faults: the orchestrator writes *)
(* only what the lifecycle admits, its dispatches are recorded before they *)
(* are made, and what it returns is what its session says.                 *)
(*                                                                         *)
(* The control of evaluate is its program counter, and the validator's     *)
(* state is the Store's.  Own relates the two: at each step it says what   *)
(* the session looks like, so that the guard of the next write follows.    *)
(* Its predicates are about one plan pl and one session s.                 *)
(***************************************************************************)
EXTENDS Evaluation, FiniteSetTheorems, TLAPS

Artifacts == UNION {Artifact(n) : n \in Nat}
ResultArtifacts ==
  {ReviewerResult(ReviewerTask, t, l, c, f) :
     t \in Thread, l \in Launch, c \in CandidateLists, f \in BOOLEAN}
  \cup {VerifierResult(k, t, l, d) :
          k \in Task \ {ReviewerTask}, t \in Thread, l \in Launch, d \in Disposition}
LifeRecord ==
  [begun : BOOLEAN, packet : BOOLEAN, reviewed : BOOLEAN,
   cands : CandidateLists, covered : BOOLEAN,
   pending : Task \cup {NoTask}, verified : Nat,
   dispositions : Seq(Disposition),
   terminal : {"none", "diagnostic", "evaluation_completion"},
   reported : BOOLEAN, tasks : SUBSET Task,
   threads : SUBSET Thread, launches : SUBSET Launch]
Session ==
  [ledger : Seq(Artifacts), life : LifeRecord, health : {"absent", "sound", "broken"}]

Typed ==
  /\ pc \in [Evaluation -> Steps]
  /\ plan \in [Evaluation -> Plan]
  /\ session \in [Evaluation -> Session]
  /\ attempt \in [Evaluation -> ResultArtifacts \cup {NoResult}]
  /\ diagnosis \in [Evaluation -> Diagnosis \cup {NoDiagnosis}]
  /\ outcome \in [Evaluation -> {"none", "completed", "diagnosed", "blocked",
                                 "recovered", "raised"}]
  /\ spent \in [Evaluation -> Nat] /\ adverse \in [Evaluation -> BOOLEAN]
  /\ total \in 0 .. MaxCandidates + 1 /\ consumed \in 0 .. total
  /\ seen \in [threads : SUBSET Thread, launches : SUBSET Launch]
  /\ trouble \in 0 .. MaxTrouble

\* What was spent for the evaluations was consumed, and no attempt counts for
\* two of them.
Budget ==
  /\ \A e \in Evaluation : spent[e] <= consumed
  /\ \A e, f \in Evaluation : e # f => spent[e] + spent[f] <= consumed

FaultOf(e) ==
  session[e].health = "broken" \/ pc[e] = "recovery" \/ outcome[e] = "recovered" =>
    trouble > 0
Faults == \A e \in Evaluation : FaultOf(e)

\* The identities that a session holds, or is about to, are known to the backend.
KnownOf(e) ==
  /\ session[e].life.threads \subseteq seen.threads
  /\ session[e].life.launches \subseteq seen.launches
  /\ attempt[e].type # "none" =>
       attempt[e].thread \in seen.threads /\ attempt[e].launch \in seen.launches
Known == \A e \in Evaluation : KnownOf(e)

\* The packets and the results that the validator knows of are those of the ledger.
Asked(life) == (IF life.packet THEN 1 ELSE 0) + life.verified
                 + (IF life.pending.role = "verifier" THEN 1 ELSE 0)
Answered(life) == (IF life.reviewed THEN 1 ELSE 0) + life.verified
Count(s, kinds) == Cardinality({i \in 1 .. Len(s.ledger) : s.ledger[i].type \in kinds})
Balanced(s) ==
  /\ Count(s, {"reviewer_packet", "verifier_packet"}) = Asked(s.life)
  /\ Count(s, {"reviewer_result", "verifier_result"}) = Answered(s.life)
Books == \A e \in Evaluation : Balanced(session[e])

FinishedOf(e) == pc[e] = "end" <=> outcome[e] # "none"
Finished == \A e \in Evaluation : FinishedOf(e)

-----------------------------------------------------------------------------
(* The session at each step *)

Before == {"readiness", "binding", "identity", "seal", "create", "blocked"}

Alive(s) == s.health \in {"sound", "broken"}
Running(s) == Alive(s) /\ Open(s.life) /\ ~s.life.reported
Last(s) == s.ledger[Len(s.ledger)]

\* The reviewer's result is awaited, or has not been asked for.
Reviewing(pl, s) ==
  /\ Running(s) /\ pl.reviewable
  /\ ~s.life.reviewed /\ s.life.verified = 0 /\ s.life.tasks = {}

\* Some of its candidates have been verified.
Judging(pl, s) ==
  /\ Running(s) /\ pl.reviewable /\ s.life.packet /\ s.life.reviewed
  /\ s.life.verified <= Len(s.life.cands)
  /\ s.life.tasks \subseteq
       {ReviewerTask} \cup {Instance(s.life.cands, k) : k \in 1 .. s.life.verified}

\* The last artifact is the packet whose result is awaited.
Sent(s) ==
  /\ Len(s.ledger) > 0
  /\ Last(s).type \in {"reviewer_packet", "verifier_packet"}
  /\ Last(s).task = s.life.pending

\* a is an answer to the packet that the Store will accept.
Answer(s, a, type) ==
  /\ a.type = type /\ a.task = s.life.pending
  /\ a.thread \notin s.life.threads /\ a.launch \notin s.life.launches

AwaitReview(pl, s) ==
  Reviewing(pl, s) /\ s.life.packet /\ s.life.pending = ReviewerTask
AwaitVerdict(pl, s) ==
  /\ Judging(pl, s) /\ s.life.covered /\ s.life.verified < Len(s.life.cands)
  /\ s.life.pending = Instance(s.life.cands, s.life.verified + 1)

\* All that the target calls for is done.
Ready(pl, s) ==
  /\ Running(s) /\ s.life.pending = NoTask
  /\ IF pl.reviewable THEN AllVerified(s.life)
     ELSE ~s.life.packet /\ ~s.life.reviewed /\ s.life.verified = 0

\* The terminal a of the session is its last artifact, or has only its report
\* behind it.
Concluded(s, a) ==
  /\ Alive(s) /\ s.life.terminal = a.type /\ ~s.life.reported
  /\ Len(s.ledger) > 0 /\ Last(s) = a
Reported(s, a) ==
  /\ s.life.terminal = a.type
  /\ Len(s.ledger) > 1 /\ s.ledger[Len(s.ledger) - 1] = a
  /\ Last(s) = Report(ReportOf(a.type), Len(s.ledger) - 1)

TheCompletion(pl, s, n) == Completion(Verdict(pl, s.life.dispositions), 1 .. n)

\* The script was used up, all of it by e.
Exact(e) ==
  /\ consumed = total /\ spent[e] = total /\ plan[e].attempts = total
  /\ Answered(Life(e)) = total

Own(e) ==
  LET pl == plan[e]
      s == session[e]
      life == session[e].life
      n == Len(session[e].ledger)
  IN
  /\ pc[e] \in Before => s = NoSession /\ spent[e] = 0
  /\ pc[e] = "target" => Alive(s) /\ s.life = Fresh /\ spent[e] = 0
  /\ pc[e] = "reviewerPacket" =>
       Reviewing(pl, s) /\ ~life.packet /\ life.pending = NoTask /\ spent[e] = 0
  /\ pc[e] = "runReviewer" => AwaitReview(pl, s) /\ Sent(s) /\ spent[e] = 0
  /\ pc[e] = "reviewerResult" =>
       /\ AwaitReview(pl, s) /\ spent[e] = 1
       /\ Answer(s, attempt[e], "reviewer_result") /\ ~OffTarget(attempt[e])
  /\ pc[e] = "coverage" =>
       Judging(pl, s) /\ life.pending = NoTask /\ life.verified = 0 /\ spent[e] = 1
  /\ pc[e] = "verifierPacket" =>
       /\ Judging(pl, s) /\ life.covered /\ life.pending = NoTask
       /\ life.verified < Len(life.cands) /\ spent[e] = 1 + life.verified
  /\ pc[e] = "runVerifier" =>
       AwaitVerdict(pl, s) /\ Sent(s) /\ spent[e] = 1 + life.verified
  /\ pc[e] = "verifierResult" =>
       /\ AwaitVerdict(pl, s) /\ spent[e] = 2 + life.verified
       /\ Answer(s, attempt[e], "verifier_result")
  /\ pc[e] \in {"readback", "gate", "project", "completion"} => Ready(pl, s)
  /\ pc[e] \in {"readback", "gate", "project"} => spent[e] = Expected(e)
  /\ pc[e] = "project" => consumed = total /\ total = Expected(e)
  /\ pc[e] = "completion" => Projects(pl, life) /\ Exact(e)
  /\ pc[e] \in {"readCompletion", "report"} =>
       Concluded(s, TheCompletion(pl, s, n - 1)) /\ Exact(e)
  /\ pc[e] \in {"readReport", "view"} \/ outcome[e] = "completed" =>
       Reported(s, TheCompletion(pl, s, n - 2)) /\ Exact(e)
  /\ pc[e] \in {"failure", "diagnostic"} =>
       Running(s) /\ StageFits(pl, life, diagnosis[e])
  /\ pc[e] \in {"readDiagnostic", "diagnosticReport"} =>
       Concluded(s, Diagnostic(diagnosis[e], 1 .. (n - 1)))
  /\ pc[e] \in {"readDiagnosticReport", "diagnosticView"} \/ outcome[e] = "diagnosed" =>
       Reported(s, Diagnostic(diagnosis[e], 1 .. (n - 2)))
  /\ outcome[e] = "blocked" => s = NoSession /\ spent[e] = 0

Inv ==
  /\ Typed /\ Budget /\ Faults /\ Known /\ Books /\ Finished
  /\ \A e \in Evaluation : Own(e)

-----------------------------------------------------------------------------
(* The data *)

LEMMA Roles ==
  /\ ReviewerTask.role = "reviewer" /\ ReviewerTask \in Task
  /\ \A c, k : VerifierTask(c, k).role = "verifier"
  /\ \A cands, k : Instance(cands, k).role = "verifier"
  /\ NoTask.role = "none"
  /\ \A k \in Task : k.role = "reviewer" \/ k.role = "verifier"
  BY DEF ReviewerTask, VerifierTask, NoTask, Task, Instance

\* A candidate list is a sequence no longer than the bound.
LEMMA CandidateListIsSequence ==
  ASSUME NEW c \in CandidateLists
  PROVE  c \in Seq(Candidate) /\ Len(c) \in 0 .. MaxCandidates
  BY LifecycleAssumption DEF CandidateLists

LEMMA EmptyCandidateList == << >> \in CandidateLists
<1>1. << >> \in [1 .. 0 -> Candidate]
  OBVIOUS
<1> QED
  BY <1>1, LifecycleAssumption DEF CandidateLists

\* The verifier tasks of a list are well formed.
LEMMA InstanceIsTask ==
  ASSUME NEW c \in CandidateLists, NEW k \in 1 .. Len(c)
  PROVE  Instance(c, k) \in Task \ {ReviewerTask}
<1> DEFINE J == {j \in 1 .. (k - 1) : c[j] = c[k]}
<1>1. c \in Seq(Candidate) /\ Len(c) \in 0 .. MaxCandidates /\ MaxCandidates \in Nat
      /\ k \in Nat /\ k >= 1 /\ k <= Len(c)
  BY CandidateListIsSequence, LifecycleAssumption
<1>2. IsFiniteSet(1 .. (k - 1)) /\ Cardinality(1 .. (k - 1)) = k - 1
  <2>1. k - 1 \in Int /\ 1 \in Int /\ (1 > k - 1 => k - 1 = 0)
    BY <1>1
  <2>2. /\ IsFiniteSet(1 .. (k - 1))
        /\ Cardinality(1 .. (k - 1)) = IF 1 > k - 1 THEN 0 ELSE (k - 1) - 1 + 1
    BY <2>1, FS_Interval
  <2> QED
    BY <1>1, <2>1, <2>2
<1>3. J \in SUBSET (1 .. (k - 1))
  OBVIOUS
<1>4. IsFiniteSet(J) /\ Cardinality(J) <= k - 1
  BY <1>2, <1>3, FS_Subset
<1>5. Cardinality(J) \in Nat
  BY <1>4, FS_CardinalityType
<1>6. Cardinality(J) \in 0 .. MaxCandidates /\ c[k] \in Candidate
  BY <1>1, <1>4, <1>5
<1>7. Instance(c, k) = VerifierTask(c[k], Cardinality(J))
  BY DEF Instance
<1> HIDE DEF J
<1> QED
  BY <1>6, <1>7, Roles DEF Task

\* Equal candidates are told apart: no two places of a list have the same task.
LEMMA InstancesDistinct ==
  ASSUME NEW c \in CandidateLists, NEW j \in 1 .. Len(c), NEW k \in 1 .. Len(c), j < k
  PROVE  Instance(c, j) # Instance(c, k)
<1> SUFFICES ASSUME Instance(c, j) = Instance(c, k) PROVE FALSE
  OBVIOUS
<1> DEFINE J == {i \in 1 .. (j - 1) : c[i] = c[j]}
           K == {i \in 1 .. (k - 1) : c[i] = c[k]}
<1>1. j \in Nat /\ k \in Nat
  BY CandidateListIsSequence
<1>2. c[j] = c[k] /\ Cardinality(J) = Cardinality(K)
  BY DEF Instance, VerifierTask
<1>3. J \in SUBSET K /\ j \in K /\ j \notin J
  BY <1>1, <1>2
<1>4. IsFiniteSet(1 .. (k - 1)) /\ K \in SUBSET (1 .. (k - 1))
  <2>1. k - 1 \in Int /\ 1 \in Int
    BY <1>1
  <2>2. IsFiniteSet(1 .. (k - 1))
    BY <2>1, FS_Interval
  <2> QED
    BY <2>2
<1>5. IsFiniteSet(K)
  BY <1>4, FS_Subset
<1> HIDE DEF J, K
<1>6. J = K
  BY <1>2, <1>3, <1>5, FS_Subset
<1> QED
  BY <1>3, <1>6

\* What the Store makes of a session when it commits an artifact to it.
Put(s, a) == [s EXCEPT !.ledger = Append(@, a), !.life = Advance(@, a)]

LEMMA PutIs ==
  ASSUME NEW s \in Session, NEW a \in Artifacts
  PROVE  /\ Put(s, a).ledger = Append(s.ledger, a)
         /\ Put(s, a).life = Advance(s.life, a)
         /\ Put(s, a).health = s.health
         /\ Len(s.ledger) \in Nat
         /\ Len(Put(s, a).ledger) = Len(s.ledger) + 1
         /\ \A i \in 1 .. Len(s.ledger) : Put(s, a).ledger[i] = s.ledger[i]
         /\ Put(s, a).ledger[Len(s.ledger) + 1] = a
         /\ Last(Put(s, a)) = a
<1>1. /\ Put(s, a).ledger = Append(s.ledger, a)
      /\ Put(s, a).life = Advance(s.life, a)
      /\ Put(s, a).health = s.health
      /\ s.ledger \in Seq(Artifacts)
  BY DEF Put, Session
<1>2. /\ Len(s.ledger) \in Nat
      /\ Len(Append(s.ledger, a)) = Len(s.ledger) + 1
      /\ \A i \in 1 .. Len(s.ledger) : Append(s.ledger, a)[i] = s.ledger[i]
      /\ Append(s.ledger, a)[Len(s.ledger) + 1] = a
  BY <1>1
<1> QED
  BY <1>1, <1>2 DEF Last

\* What the validator's state becomes.
Begun(life) == [life EXCEPT !.begun = TRUE]
ReviewAsked(life, k) == [life EXCEPT !.packet = TRUE, !.pending = k]
Reviewed(life, k, t, l, c, f) ==
  [life EXCEPT !.pending = NoTask, !.tasks = @ \cup {k},
               !.threads = @ \cup {t}, !.launches = @ \cup {l},
               !.reviewed = TRUE, !.cands = c, !.covered = f]
VerdictAsked(life, k) == [life EXCEPT !.pending = k]
Judged(life, k, t, l, d) ==
  [life EXCEPT !.pending = NoTask, !.tasks = @ \cup {k},
               !.threads = @ \cup {t}, !.launches = @ \cup {l},
               !.verified = @ + 1, !.dispositions = Append(@, d)]
Ended(life, terminal) == [life EXCEPT !.terminal = terminal]
Closed(life) == [life EXCEPT !.reported = TRUE]

LEMMA Advances ==
  ASSUME NEW life
  PROVE  /\ \A p : Advance(life, TargetPacket(p)) = Begun(life)
         /\ \A k : Advance(life, RolePacket("reviewer_packet", k)) = ReviewAsked(life, k)
         /\ \A k, t, l, c, f :
              Advance(life, ReviewerResult(k, t, l, c, f)) = Reviewed(life, k, t, l, c, f)
         /\ \A k : Advance(life, RolePacket("verifier_packet", k)) = VerdictAsked(life, k)
         /\ \A k, t, l, d : Advance(life, VerifierResult(k, t, l, d)) = Judged(life, k, t, l, d)
         /\ \A d, i : Advance(life, Diagnostic(d, i)) = Ended(life, "diagnostic")
         /\ \A v, i : Advance(life, Completion(v, i)) = Ended(life, "evaluation_completion")
         /\ \A k \in ReportKinds : \A i : Advance(life, Report(k, i)) = Closed(life)
<1>1. \A p : Advance(life, TargetPacket(p)) = Begun(life)
  BY DEF Advance, TargetPacket, Begun
<1>2. \A k : Advance(life, RolePacket("reviewer_packet", k)) = ReviewAsked(life, k)
  BY DEF Advance, RolePacket, ReviewAsked
<1>3. \A k, t, l, c, f :
        Advance(life, ReviewerResult(k, t, l, c, f)) = Reviewed(life, k, t, l, c, f)
  BY DEF Advance, Executed, ReviewerResult, Reviewed
<1>4. \A k : Advance(life, RolePacket("verifier_packet", k)) = VerdictAsked(life, k)
  BY DEF Advance, RolePacket, VerdictAsked
<1>5. \A k, t, l, d : Advance(life, VerifierResult(k, t, l, d)) = Judged(life, k, t, l, d)
  BY DEF Advance, Executed, VerifierResult, Judged
<1>6. \A d, i : Advance(life, Diagnostic(d, i)) = Ended(life, "diagnostic")
  BY DEF Advance, Diagnostic, Ended
<1>7. \A v, i : Advance(life, Completion(v, i)) = Ended(life, "evaluation_completion")
  BY DEF Advance, Completion, Ended
<1>8. \A k \in ReportKinds : \A i : Advance(life, Report(k, i)) = Closed(life)
  BY DEF Advance, Report, ReportKinds, Closed
<1> QED
  BY <1>1, <1>2, <1>3, <1>4, <1>5, <1>6, <1>7, <1>8

\* The artifacts by type.
LEMMA ArtifactCases ==
  ASSUME NEW a \in Artifacts
  PROVE  \/ \E p \in Plan : a = TargetPacket(p)
         \/ \E k \in Task : a = RolePacket("reviewer_packet", k)
         \/ \E t \in Thread, l \in Launch, c \in CandidateLists, f \in BOOLEAN :
              a = ReviewerResult(ReviewerTask, t, l, c, f)
         \/ \E k \in Task : a = RolePacket("verifier_packet", k)
         \/ \E k \in Task \ {ReviewerTask}, t \in Thread, l \in Launch, d \in Disposition :
              a = VerifierResult(k, t, l, d)
         \/ \E d \in Diagnosis : \E i : a = Diagnostic(d, i)
         \/ \E v \in Verdicts : \E i : a = Completion(v, i)
         \/ \E k \in ReportKinds : \E i : a = Report(k, i)
<1>1. PICK n \in Nat : a \in Artifact(n)
  BY DEF Artifacts
<1>2. CASE a \in WorkArtifact
  BY <1>2 DEF WorkArtifact
<1>3. CASE a \in EndArtifact(n)
  BY <1>3 DEF EndArtifact
<1> QED
  BY <1>1, <1>2, <1>3 DEF Artifact

LEMMA Types ==
  /\ \A p : TargetPacket(p).type = "target_packet"
  /\ \A x, k : RolePacket(x, k).type = x /\ RolePacket(x, k).task = k
  /\ \A k, t, l, c, f : /\ ReviewerResult(k, t, l, c, f).type = "reviewer_result"
                        /\ ReviewerResult(k, t, l, c, f).task = k
                        /\ ReviewerResult(k, t, l, c, f).thread = t
                        /\ ReviewerResult(k, t, l, c, f).launch = l
                        /\ ReviewerResult(k, t, l, c, f).cands = c
  /\ \A k, t, l, d : /\ VerifierResult(k, t, l, d).type = "verifier_result"
                     /\ VerifierResult(k, t, l, d).task = k
                     /\ VerifierResult(k, t, l, d).thread = t
                     /\ VerifierResult(k, t, l, d).launch = l
  /\ \A d, i : Diagnostic(d, i).type = "diagnostic"
  /\ \A v, i : Completion(v, i).type = "evaluation_completion"
  /\ \A k, i : Report(k, i).type = k
  BY DEF TargetPacket, RolePacket, ReviewerResult, VerifierResult, Diagnostic, Completion, Report

LEMMA ArtifactKind == ASSUME NEW a \in Artifacts PROVE a.type \in Kinds
  BY ArtifactCases, Types DEF Kinds, ReportKinds

\* A committed artifact leaves the validator's state well formed.
LEMMA AdvanceTyped ==
  ASSUME NEW life \in LifeRecord, NEW a \in Artifacts
  PROVE  Advance(life, a) \in LifeRecord
<1>1. ASSUME NEW p \in Plan, a = TargetPacket(p) PROVE Advance(life, a) \in LifeRecord
  <2>1. Advance(life, a) = Begun(life)
    BY <1>1, Advances
  <2> QED
    BY <2>1 DEF LifeRecord, Begun
<1>2. ASSUME NEW k \in Task, a = RolePacket("reviewer_packet", k)
      PROVE  Advance(life, a) \in LifeRecord
  <2>1. Advance(life, a) = ReviewAsked(life, k)
    BY <1>2, Advances
  <2> QED
    BY <2>1 DEF LifeRecord, ReviewAsked
<1>3. ASSUME NEW t \in Thread, NEW l \in Launch, NEW c \in CandidateLists, NEW f \in BOOLEAN,
             a = ReviewerResult(ReviewerTask, t, l, c, f)
      PROVE  Advance(life, a) \in LifeRecord
  <2>1. Advance(life, a) = Reviewed(life, ReviewerTask, t, l, c, f)
    BY <1>3, Advances
  <2>2. /\ life.tasks \cup {ReviewerTask} \in SUBSET Task
        /\ life.threads \cup {t} \in SUBSET Thread
        /\ life.launches \cup {l} \in SUBSET Launch
    BY Roles DEF LifeRecord
  <2> QED
    BY <2>1, <2>2 DEF LifeRecord, Reviewed
<1>4. ASSUME NEW k \in Task, a = RolePacket("verifier_packet", k)
      PROVE  Advance(life, a) \in LifeRecord
  <2>1. Advance(life, a) = VerdictAsked(life, k)
    BY <1>4, Advances
  <2> QED
    BY <2>1 DEF LifeRecord, VerdictAsked
<1>5. ASSUME NEW k \in Task, NEW t \in Thread, NEW l \in Launch, NEW d \in Disposition,
             a = VerifierResult(k, t, l, d)
      PROVE  Advance(life, a) \in LifeRecord
  <2>1. Append(life.dispositions, d) \in Seq(Disposition) /\ life.verified + 1 \in Nat
    BY DEF LifeRecord
  <2>2. Advance(life, a) = Judged(life, k, t, l, d)
    BY <1>5, Advances
  <2>3. /\ life.tasks \cup {k} \in SUBSET Task
        /\ life.threads \cup {t} \in SUBSET Thread
        /\ life.launches \cup {l} \in SUBSET Launch
    BY DEF LifeRecord
  <2> QED
    BY <2>1, <2>2, <2>3 DEF LifeRecord, Judged
<1>6. ASSUME NEW d \in Diagnosis, NEW i, a = Diagnostic(d, i)
      PROVE  Advance(life, a) \in LifeRecord
  <2>1. Advance(life, a) = Ended(life, "diagnostic")
    BY <1>6, Advances
  <2> QED
    BY <2>1 DEF LifeRecord, Ended
<1>7. ASSUME NEW v \in Verdicts, NEW i, a = Completion(v, i)
      PROVE  Advance(life, a) \in LifeRecord
  <2>1. Advance(life, a) = Ended(life, "evaluation_completion")
    BY <1>7, Advances
  <2> QED
    BY <2>1 DEF LifeRecord, Ended
<1>8. ASSUME NEW k \in ReportKinds, NEW i, a = Report(k, i)
      PROVE  Advance(life, a) \in LifeRecord
  <2>1. Advance(life, a) = Closed(life)
    BY <1>8, Advances
  <2> QED
    BY <2>1 DEF LifeRecord, Closed
<1> QED
  BY <1>1, <1>2, <1>3, <1>4, <1>5, <1>6, <1>7, <1>8, ArtifactCases

LEMMA PutTyped ==
  ASSUME NEW s \in Session, NEW a \in Artifacts
  PROVE  Put(s, a) \in Session
<1>1. s.life \in LifeRecord /\ s.ledger \in Seq(Artifacts)
  BY DEF Session
<1>2. Advance(s.life, a) \in LifeRecord /\ Append(s.ledger, a) \in Seq(Artifacts)
  BY <1>1, AdvanceTyped
<1> QED
  BY <1>2 DEF Put, Session

\* One more artifact is counted if it is of the kind.
LEMMA CountPut ==
  ASSUME NEW s \in Session, NEW a \in Artifacts, NEW kinds
  PROVE  /\ Count(s, kinds) \in Nat
         /\ a.type \in kinds => Count(Put(s, a), kinds) = Count(s, kinds) + 1
         /\ a.type \notin kinds => Count(Put(s, a), kinds) = Count(s, kinds)
<1> DEFINE n == Len(s.ledger)
           t == Put(s, a).ledger
           S == {i \in 1 .. n : s.ledger[i].type \in kinds}
           T == {i \in 1 .. (n + 1) : t[i].type \in kinds}
<1>1. n \in Nat /\ Len(t) = n + 1 /\ t[n + 1] = a /\ \A i \in 1 .. n : t[i] = s.ledger[i]
  BY PutIs
<1>2. Count(s, kinds) = Cardinality(S) /\ Count(Put(s, a), kinds) = Cardinality(T)
  BY <1>1 DEF Count
<1>3. IsFiniteSet(1 .. n)
  BY <1>1, FS_Interval
<1>4. IsFiniteSet(S) /\ Cardinality(S) \in Nat
  <2>1. S \in SUBSET (1 .. n)
    OBVIOUS
  <2> QED
    BY <1>3, <2>1, FS_Subset, FS_CardinalityType
<1>5. n + 1 \notin S
  BY <1>1
<1>6. a.type \in kinds => T = S \cup {n + 1}
  BY <1>1
<1>7. a.type \notin kinds => T = S
  BY <1>1
<1>8. Cardinality(S \cup {n + 1}) = Cardinality(S) + 1
  BY <1>4, <1>5, FS_AddElement
<1> QED
  BY <1>2, <1>4, <1>6, <1>7, <1>8

\* An admitted artifact keeps the count right.
LEMMA PutBalanced ==
  ASSUME NEW s \in Session, NEW a \in Artifacts, NEW pl, NEW n,
         Admits(pl, s.life, n, a), Balanced(s)
  PROVE  Balanced(Put(s, a))
<1> DEFINE life == s.life
           next == Put(s, a).life
           P == {"reviewer_packet", "verifier_packet"}
           R == {"reviewer_result", "verifier_result"}
<1>0. /\ next = Advance(life, a) /\ life \in LifeRecord /\ life.verified \in Nat
      /\ life.pending.role \in {"none", "reviewer", "verifier"}
  BY PutIs, Roles DEF Session, LifeRecord
<1>1. /\ Count(s, P) = Asked(life) /\ Count(s, R) = Answered(life)
      /\ a.type \in P => Count(Put(s, a), P) = Count(s, P) + 1
      /\ a.type \notin P => Count(Put(s, a), P) = Count(s, P)
      /\ a.type \in R => Count(Put(s, a), R) = Count(s, R) + 1
      /\ a.type \notin R => Count(Put(s, a), R) = Count(s, R)
  BY CountPut DEF Balanced
<1> SUFFICES /\ Asked(next) = Asked(life) + (IF a.type \in P THEN 1 ELSE 0)
             /\ Answered(next) = Answered(life) + (IF a.type \in R THEN 1 ELSE 0)
  <2>1. Asked(life) \in Nat /\ Answered(life) \in Nat
    BY <1>0 DEF Asked, Answered
  <2> QED
    BY <1>1, <2>1 DEF Balanced
<1> HIDE DEF life, next
<1>2. ASSUME NEW k, a = RolePacket("reviewer_packet", k)
      PROVE  /\ Asked(next) = Asked(life) + (IF a.type \in P THEN 1 ELSE 0)
             /\ Answered(next) = Answered(life) + (IF a.type \in R THEN 1 ELSE 0)
  <2>1. ~life.packet /\ life.pending = NoTask /\ k = ReviewerTask
    BY <1>2, Types DEF Admits, AdmitsReviewerPacket, ReportKinds, life
  <2>2. next = ReviewAsked(life, k)
    BY <1>0, <1>2, Advances
  <2>3. /\ next.packet /\ next.pending.role = "reviewer" /\ next.verified = life.verified
        /\ next.reviewed = life.reviewed
    BY <1>0, <2>1, <2>2, Roles DEF LifeRecord, Reviewed, Judged, ReviewAsked
  <2> QED
    BY <1>0, <1>2, <2>1, <2>3, Types, Roles DEF Asked, Answered
<1>3. ASSUME NEW t, NEW l, NEW c, NEW f, a = ReviewerResult(ReviewerTask, t, l, c, f)
      PROVE  /\ Asked(next) = Asked(life) + (IF a.type \in P THEN 1 ELSE 0)
             /\ Answered(next) = Answered(life) + (IF a.type \in R THEN 1 ELSE 0)
  <2>1. life.pending.role = "reviewer" /\ ~life.reviewed
    BY <1>3, Types DEF Admits, AdmitsReviewerResult, ReportKinds, life
  <2>2. next = Reviewed(life, ReviewerTask, t, l, c, f)
    BY <1>0, <1>3, Advances
  <2>3. /\ next.packet = life.packet /\ next.pending.role = "none" /\ next.reviewed
        /\ next.verified = life.verified
    BY <1>0, <2>2, Roles DEF LifeRecord, Reviewed, Judged, ReviewAsked
  <2> QED
    BY <1>0, <1>3, <2>1, <2>3, Types DEF Asked, Answered
<1>4. ASSUME NEW k, a = RolePacket("verifier_packet", k)
      PROVE  /\ Asked(next) = Asked(life) + (IF a.type \in P THEN 1 ELSE 0)
             /\ Answered(next) = Answered(life) + (IF a.type \in R THEN 1 ELSE 0)
  <2>1. life.pending = NoTask /\ k.role = "verifier"
    BY <1>4, Types, Roles DEF Admits, AdmitsVerifierPacket, ReportKinds, life
  <2>2. next = VerdictAsked(life, k)
    BY <1>0, <1>4, Advances
  <2>3. /\ next.packet = life.packet /\ next.pending.role = "verifier"
        /\ next.verified = life.verified /\ next.reviewed = life.reviewed
    BY <1>0, <2>1, <2>2 DEF LifeRecord, VerdictAsked
  <2> QED
    BY <1>0, <1>4, <2>1, <2>3, Types, Roles DEF Asked, Answered
<1>5. ASSUME NEW k, NEW t, NEW l, NEW d, a = VerifierResult(k, t, l, d)
      PROVE  /\ Asked(next) = Asked(life) + (IF a.type \in P THEN 1 ELSE 0)
             /\ Answered(next) = Answered(life) + (IF a.type \in R THEN 1 ELSE 0)
  <2>1. life.pending.role = "verifier"
    BY <1>5, Types DEF Admits, AdmitsVerifierResult, ReportKinds, life
  <2>2. next = Judged(life, k, t, l, d)
    BY <1>0, <1>5, Advances
  <2>3. /\ next.packet = life.packet /\ next.pending.role = "none"
        /\ next.verified = life.verified + 1 /\ next.reviewed = life.reviewed
    BY <1>0, <2>2, Roles DEF LifeRecord, Reviewed, Judged, ReviewAsked
  <2> QED
    BY <1>0, <1>5, <2>1, <2>3, Types DEF Asked, Answered
<1>6. ASSUME a.type \notin P, a.type \notin R
      PROVE  /\ Asked(next) = Asked(life) + (IF a.type \in P THEN 1 ELSE 0)
             /\ Answered(next) = Answered(life) + (IF a.type \in R THEN 1 ELSE 0)
  <2>1. /\ next.packet = life.packet /\ next.pending = life.pending
        /\ next.verified = life.verified /\ next.reviewed = life.reviewed
    <3>1. next \in {Begun(life), Ended(life, "diagnostic"),
                    Ended(life, "evaluation_completion"), Closed(life)}
      BY <1>0, <1>6, Types, Advances, ArtifactCases
    <3> QED
      BY <1>0, <3>1 DEF LifeRecord, Begun, Ended, Closed
  <2> QED
    BY <1>0, <1>6, <2>1 DEF Asked, Answered
<1> QED
  BY <1>2, <1>3, <1>4, <1>5, <1>6, Types, ArtifactCases DEF ReportKinds

-----------------------------------------------------------------------------
(* The writes one by one: the lifecycle admits the artifact, and what the    *)
(* session looks like once it is in the ledger                               *)

LEMMA LifeTyped ==
  ASSUME NEW s \in Session
  PROVE  /\ s.life \in LifeRecord /\ s.life.verified \in Nat
         /\ s.life.cands \in CandidateLists
         /\ s.life.cands \in Seq(Candidate) /\ Len(s.life.cands) \in Nat
         /\ s.life.covered \in BOOLEAN /\ s.life.reported \in BOOLEAN
         /\ s.life.packet \in BOOLEAN /\ s.life.reviewed \in BOOLEAN
         /\ s.life.begun \in BOOLEAN
         /\ s.ledger \in Seq(Artifacts) /\ Len(s.ledger) \in Nat
         /\ s.health \in {"absent", "sound", "broken"}
<1>1. /\ s.life \in LifeRecord /\ s.ledger \in Seq(Artifacts)
      /\ s.health \in {"absent", "sound", "broken"}
  BY DEF Session
<1>2. /\ s.life.verified \in Nat
      /\ s.life.cands \in CandidateLists
      /\ s.life.covered \in BOOLEAN /\ s.life.reported \in BOOLEAN
      /\ s.life.packet \in BOOLEAN /\ s.life.reviewed \in BOOLEAN
      /\ s.life.begun \in BOOLEAN
  BY <1>1 DEF LifeRecord
<1> QED
  BY <1>1, <1>2, CandidateListIsSequence

LEMMA TargetWritten ==
  ASSUME NEW pl \in Plan, NEW s \in Session, Alive(s), s.life = Fresh
  PROVE  LET a == TargetPacket(pl) IN
         /\ a \in Artifacts /\ Admits(pl, s.life, Len(s.ledger), a)
         /\ pl.reviewable => /\ Reviewing(pl, Put(s, a))
                             /\ ~Put(s, a).life.packet
                             /\ Put(s, a).life.pending = NoTask
         /\ ~pl.reviewable => Ready(pl, Put(s, a))
<1> DEFINE a == TargetPacket(pl)
           t == Put(s, a)
<1>1. a \in Artifact(0)
  BY DEF Artifact, WorkArtifact
<1>2. a \in Artifacts
  BY <1>1 DEF Artifacts
<1>3. Admits(pl, s.life, Len(s.ledger), a)
  BY Types DEF Admits, AdmitsTargetPacket, Fresh
<1>4. t.life = Begun(Fresh) /\ t.health = s.health
  BY <1>2, PutIs, Advances
<1>5. /\ t.life.begun /\ t.life.terminal = "none" /\ ~t.life.reported
      /\ ~t.life.reviewed /\ ~t.life.packet /\ t.life.verified = 0
      /\ t.life.tasks = {} /\ t.life.pending = NoTask
  BY <1>4 DEF Begun, Fresh
<1> HIDE DEF t, a
<1>6. Running(t)
  BY <1>4, <1>5 DEF Running, Alive, Open
<1> QED
  BY <1>2, <1>3, <1>5, <1>6 DEF Reviewing, Ready, t, a

LEMMA ReviewerPacketWritten ==
  ASSUME NEW pl, NEW s \in Session,
         Reviewing(pl, s), ~s.life.packet, s.life.pending = NoTask
  PROVE  LET a == RolePacket("reviewer_packet", ReviewerTask) IN
         /\ a \in Artifacts /\ Admits(pl, s.life, Len(s.ledger), a)
         /\ AwaitReview(pl, Put(s, a)) /\ Sent(Put(s, a))
<1> DEFINE a == RolePacket("reviewer_packet", ReviewerTask)
           t == Put(s, a)
<1>1. a \in Artifact(0)
  BY Roles DEF Artifact, WorkArtifact
<1>2. a \in Artifacts
  BY <1>1 DEF Artifacts
<1>3. Admits(pl, s.life, Len(s.ledger), a)
  BY Types DEF Admits, AdmitsReviewerPacket, Reviewing, Running
<1>4. /\ t.life = ReviewAsked(s.life, ReviewerTask) /\ t.health = s.health
      /\ Last(t) = a /\ Len(t.ledger) > 0
  <2>1. /\ t.life = Advance(s.life, a) /\ t.health = s.health
        /\ Last(t) = a /\ Len(t.ledger) > 0
    BY <1>2, PutIs
  <2>2. Advance(s.life, a) = ReviewAsked(s.life, ReviewerTask)
    BY Advances
  <2> QED
    BY <2>1, <2>2
<1>5. /\ t.life.begun = s.life.begun /\ t.life.terminal = s.life.terminal
      /\ t.life.reported = s.life.reported
      /\ t.life.reviewed = s.life.reviewed /\ t.life.packet
      /\ t.life.verified = s.life.verified
      /\ t.life.tasks = s.life.tasks /\ t.life.pending = ReviewerTask
  BY <1>4, LifeTyped DEF ReviewAsked, LifeRecord
<1>6. Sent(t)
  BY <1>4, <1>5, Types DEF Sent
<1> HIDE DEF t, a
<1>7. AwaitReview(pl, t)
  BY <1>4, <1>5 DEF AwaitReview, Reviewing, Running, Alive, Open
<1> QED
  BY <1>2, <1>3, <1>6, <1>7 DEF t, a

LEMMA ReviewerResultWritten ==
  ASSUME NEW pl, NEW s \in Session, NEW a \in ResultArtifacts,
         AwaitReview(pl, s), Answer(s, a, "reviewer_result"), ~OffTarget(a)
  PROVE  /\ a \in Artifacts /\ Admits(pl, s.life, Len(s.ledger), a)
         /\ Judging(pl, Put(s, a))
         /\ Put(s, a).life.pending = NoTask /\ Put(s, a).life.verified = 0
<1>1. PICK t \in Thread, l \in Launch, c \in CandidateLists, f \in BOOLEAN :
        a = ReviewerResult(ReviewerTask, t, l, c, f)
  BY Types DEF ResultArtifacts, Answer
<1> DEFINE u == Put(s, a)
<1>2. a \in Artifact(0)
  BY <1>1 DEF Artifact, WorkArtifact
<1>3. a \in Artifacts
  BY <1>2 DEF Artifacts
<1>4. Admits(pl, s.life, Len(s.ledger), a)
  BY Roles DEF Admits, AdmitsReviewerResult, AwaitReview, Reviewing, Running, Answer,
               FreshExecution, OffTarget
<1>5. u.life = Reviewed(s.life, ReviewerTask, t, l, c, f) /\ u.health = s.health
  <2>1. u.life = Advance(s.life, a) /\ u.health = s.health
    BY <1>3, PutIs
  <2>2. Advance(s.life, a) = Reviewed(s.life, ReviewerTask, t, l, c, f)
    BY <1>1, Advances
  <2> QED
    BY <2>1, <2>2
<1>6. /\ u.life.begun = s.life.begun /\ u.life.terminal = s.life.terminal
      /\ u.life.reported = s.life.reported
      /\ u.life.reviewed /\ u.life.packet = s.life.packet
      /\ u.life.verified = s.life.verified /\ u.life.cands = c
      /\ u.life.tasks = s.life.tasks \cup {ReviewerTask} /\ u.life.pending = NoTask
  BY <1>5, LifeTyped DEF Reviewed, LifeRecord
<1> HIDE DEF u
<1>7. Running(u)
  BY <1>5, <1>6 DEF AwaitReview, Reviewing, Running, Alive, Open
<1>8. Len(c) \in Nat
  BY CandidateListIsSequence
<1>9. Judging(pl, u)
  BY <1>6, <1>7, <1>8 DEF AwaitReview, Reviewing, Judging
<1> QED
  BY <1>3, <1>4, <1>6, <1>9 DEF u, AwaitReview, Reviewing

LEMMA VerifierPacketWritten ==
  ASSUME NEW pl, NEW s \in Session,
         Judging(pl, s), s.life.covered, s.life.pending = NoTask,
         s.life.verified < Len(s.life.cands)
  PROVE  LET a == RolePacket("verifier_packet", Instance(s.life.cands, s.life.verified + 1)) IN
         /\ a \in Artifacts /\ Admits(pl, s.life, Len(s.ledger), a)
         /\ AwaitVerdict(pl, Put(s, a)) /\ Sent(Put(s, a))
         /\ Put(s, a).life.verified = s.life.verified
<1> DEFINE k == Instance(s.life.cands, s.life.verified + 1)
           a == RolePacket("verifier_packet", k)
           t == Put(s, a)
<1>1. k \in Task
  <2>1. s.life.verified + 1 \in 1 .. Len(s.life.cands)
    BY LifeTyped
  <2> QED
    BY <2>1, LifeTyped, InstanceIsTask
<1>2. a \in Artifact(0)
  BY <1>1 DEF Artifact, WorkArtifact
<1>3. a \in Artifacts
  BY <1>2 DEF Artifacts
<1>4. Admits(pl, s.life, Len(s.ledger), a)
  BY Types DEF Admits, AdmitsVerifierPacket, Judging, Running
<1>5. /\ t.life = VerdictAsked(s.life, k) /\ t.health = s.health
      /\ Last(t) = a /\ Len(t.ledger) > 0
  <2>1. /\ t.life = Advance(s.life, a) /\ t.health = s.health
        /\ Last(t) = a /\ Len(t.ledger) > 0
    BY <1>3, PutIs
  <2>2. Advance(s.life, a) = VerdictAsked(s.life, k)
    BY Advances
  <2> QED
    BY <2>1, <2>2
<1>6. /\ t.life.begun = s.life.begun /\ t.life.terminal = s.life.terminal
      /\ t.life.reported = s.life.reported /\ t.life.covered = s.life.covered
      /\ t.life.reviewed = s.life.reviewed /\ t.life.packet = s.life.packet
      /\ t.life.verified = s.life.verified /\ t.life.cands = s.life.cands
      /\ t.life.tasks = s.life.tasks /\ t.life.pending = k
  BY <1>5, LifeTyped DEF VerdictAsked, LifeRecord
<1>7. Sent(t)
  BY <1>5, <1>6, Types DEF Sent
<1> HIDE DEF t, a
<1>8. AwaitVerdict(pl, t)
  BY <1>5, <1>6 DEF AwaitVerdict, Judging, Running, Alive, Open
<1> QED
  BY <1>3, <1>4, <1>6, <1>7, <1>8 DEF t, a

LEMMA VerifierResultWritten ==
  ASSUME NEW pl, NEW s \in Session, NEW a \in ResultArtifacts,
         AwaitVerdict(pl, s), Answer(s, a, "verifier_result")
  PROVE  LET u == Put(s, a) IN
         /\ a \in Artifacts /\ Admits(pl, s.life, Len(s.ledger), a)
         /\ u.life.verified = s.life.verified + 1 /\ u.life.cands = s.life.cands
         /\ u.life.verified < Len(u.life.cands) =>
              Judging(pl, u) /\ u.life.covered /\ u.life.pending = NoTask
         /\ ~(u.life.verified < Len(u.life.cands)) => Ready(pl, u)
<1>1. PICK k \in Task \ {ReviewerTask}, t \in Thread, l \in Launch, d \in Disposition :
        a = VerifierResult(k, t, l, d)
  BY Types DEF ResultArtifacts, Answer
<1> DEFINE u == Put(s, a)
           v == s.life.verified
           cands == s.life.cands
<1>2. a \in Artifact(0)
  BY <1>1 DEF Artifact, WorkArtifact
<1>3. a \in Artifacts
  BY <1>2 DEF Artifacts
<1>4. /\ v \in Nat /\ cands \in CandidateLists /\ Len(cands) \in Nat /\ v < Len(cands)
      /\ k = Instance(cands, v + 1)
  BY <1>1, LifeTyped, Types DEF AwaitVerdict, Answer
<1>5. \A j \in 1 .. v : Instance(cands, j) # Instance(cands, v + 1)
  BY <1>4, InstancesDistinct
<1>6. k \notin s.life.tasks
  BY <1>4, <1>5, Roles DEF AwaitVerdict, Judging
<1>7. Admits(pl, s.life, Len(s.ledger), a)
  BY <1>1, <1>4, <1>6, Roles, Types
     DEF Admits, AdmitsVerifierResult, AwaitVerdict, Judging, Running, Answer, FreshExecution
<1>8. u.life = Judged(s.life, k, t, l, d) /\ u.health = s.health
  <2>1. u.life = Advance(s.life, a) /\ u.health = s.health
    BY <1>3, PutIs
  <2>2. Advance(s.life, a) = Judged(s.life, k, t, l, d)
    BY <1>1, Advances
  <2> QED
    BY <2>1, <2>2
<1>9. /\ u.life.begun = s.life.begun /\ u.life.terminal = s.life.terminal
      /\ u.life.reported = s.life.reported /\ u.life.covered = s.life.covered
      /\ u.life.reviewed = s.life.reviewed /\ u.life.packet = s.life.packet
      /\ u.life.verified = v + 1 /\ u.life.cands = cands
      /\ u.life.tasks = s.life.tasks \cup {k} /\ u.life.pending = NoTask
  BY <1>8, LifeTyped DEF Judged, LifeRecord
<1> HIDE DEF u, v, cands
<1>10. Running(u) /\ pl.reviewable /\ u.life.packet /\ u.life.reviewed /\ u.life.covered
  BY <1>8, <1>9 DEF AwaitVerdict, Judging, Running, Alive, Open
<1>11. s.life.tasks \subseteq {ReviewerTask} \cup {Instance(cands, j) : j \in 1 .. v}
  BY DEF AwaitVerdict, Judging, v, cands
<1>12. u.life.tasks \subseteq {ReviewerTask} \cup {Instance(cands, j) : j \in 1 .. (v + 1)}
  <2>1. \A j \in 1 .. v : j \in 1 .. (v + 1)
    BY <1>4
  <2>2. v + 1 \in 1 .. (v + 1)
    BY <1>4
  <2> QED
    BY <1>4, <1>9, <1>11, <2>1, <2>2
<1>13. Judging(pl, u)
  BY <1>4, <1>9, <1>10, <1>12 DEF Judging
<1>14. ~(u.life.verified < Len(u.life.cands)) => AllVerified(u.life)
  BY <1>4, <1>9, <1>10 DEF AllVerified
<1> QED
  BY <1>3, <1>7, <1>9, <1>10, <1>13, <1>14 DEF Ready, u, v, cands

LEMMA CompletionWritten ==
  ASSUME NEW pl \in Plan, NEW s \in Session, Ready(pl, s), Projects(pl, s.life)
  PROVE  LET a == Completion(Verdict(pl, s.life.dispositions), 1 .. Len(s.ledger))
             u == Put(s, a) IN
         /\ a \in Artifacts /\ Admits(pl, s.life, Len(s.ledger), a)
         /\ Concluded(u, TheCompletion(pl, u, Len(u.ledger) - 1))
         /\ Answered(u.life) = Answered(s.life)
<1> DEFINE n == Len(s.ledger)
           v == Verdict(pl, s.life.dispositions)
           a == Completion(v, 1 .. n)
           u == Put(s, a)
<1>1. n \in Nat /\ v \in Verdicts
  BY LifeTyped DEF Verdict, Verdicts
<1>2. a \in Artifact(n)
  <2>1. n \in 0 .. n
    BY <1>1
  <2> QED
    BY <1>1, <2>1 DEF Artifact, EndArtifact
<1>3. a \in Artifacts
  BY <1>1, <1>2 DEF Artifacts
<1>4. /\ a.type = "evaluation_completion" /\ a.verdict = v /\ a.inputs = 1 .. n
  BY DEF Completion
<1>5. Admits(pl, s.life, n, a)
  BY <1>4 DEF Admits, AdmitsCompletion, Ready, Running
<1>6. /\ u.life = Advance(s.life, a) /\ u.health = s.health
      /\ Len(u.ledger) = n + 1 /\ Last(u) = a
  BY <1>3, PutIs
<1>7. u.life = Ended(s.life, "evaluation_completion")
  BY <1>6, Advances
<1>8. /\ u.life.terminal = "evaluation_completion" /\ u.life.reported = s.life.reported
      /\ u.life.dispositions = s.life.dispositions
      /\ u.life.reviewed = s.life.reviewed /\ u.life.verified = s.life.verified
  BY <1>7, LifeTyped DEF Ended, LifeRecord
<1>9. Len(u.ledger) - 1 = n /\ Len(u.ledger) > 0
  BY <1>1, <1>6
<1> HIDE DEF u, n
<1>10. TheCompletion(pl, u, Len(u.ledger) - 1) = a
  BY <1>8, <1>9 DEF TheCompletion
<1>11. Concluded(u, a)
  BY <1>4, <1>6, <1>8, <1>9 DEF Concluded, Ready, Running, Alive
<1> QED
  BY <1>3, <1>5, <1>8, <1>10, <1>11 DEF Answered, u, n

LEMMA DiagnosticWritten ==
  ASSUME NEW pl, NEW s \in Session, NEW d \in Diagnosis, Running(s), StageFits(pl, s.life, d)
  PROVE  LET a == Diagnostic(d, 1 .. Len(s.ledger))
             u == Put(s, a) IN
         /\ a \in Artifacts /\ Admits(pl, s.life, Len(s.ledger), a)
         /\ Concluded(u, Diagnostic(d, 1 .. (Len(u.ledger) - 1)))
<1> DEFINE n == Len(s.ledger)
           a == Diagnostic(d, 1 .. n)
           u == Put(s, a)
<1>1. n \in Nat
  BY LifeTyped
<1>2. a \in Artifact(n)
  <2>1. n \in 0 .. n
    BY <1>1
  <2> QED
    BY <1>1, <2>1 DEF Artifact, EndArtifact
<1>3. a \in Artifacts
  BY <1>1, <1>2 DEF Artifacts
<1>4. a.type = "diagnostic" /\ a.diagnosis = d /\ a.inputs = 1 .. n
  BY DEF Diagnostic
<1>5. Admits(pl, s.life, n, a)
  BY <1>4 DEF Admits, AdmitsDiagnostic, Running
<1>6. /\ u.life = Advance(s.life, a) /\ u.health = s.health
      /\ Len(u.ledger) = n + 1 /\ Last(u) = a
  BY <1>3, PutIs
<1>7. u.life = Ended(s.life, "diagnostic")
  BY <1>6, Advances
<1>8. u.life.terminal = "diagnostic" /\ u.life.reported = s.life.reported
  BY <1>7, LifeTyped DEF Ended, LifeRecord
<1>9. Len(u.ledger) - 1 = n /\ Len(u.ledger) > 0
  BY <1>1, <1>6
<1> HIDE DEF u, n
<1>10. Concluded(u, a)
  BY <1>4, <1>6, <1>8, <1>9 DEF Concluded, Running, Alive
<1> QED
  BY <1>3, <1>5, <1>9, <1>10 DEF u, n

\* The report of a terminal a.
LEMMA ReportWritten ==
  ASSUME NEW pl, NEW s \in Session, NEW a, Concluded(s, a),
         a.type \in {"diagnostic", "evaluation_completion"}
  PROVE  LET r == Report(ReportOf(a.type), Len(s.ledger))
             u == Put(s, r) IN
         /\ r \in Artifacts /\ Admits(pl, s.life, Len(s.ledger), r)
         /\ Reported(u, a)
         /\ Len(u.ledger) - 2 = Len(s.ledger) - 1
         /\ u.life.dispositions = s.life.dispositions
         /\ Answered(u.life) = Answered(s.life)
<1> DEFINE n == Len(s.ledger)
           r == Report(ReportOf(a.type), n)
           u == Put(s, r)
<1>1. n \in Nat /\ n > 0 /\ ReportOf(a.type) \in ReportKinds
  BY LifeTyped DEF Concluded, ReportOf, ReportKinds
<1>2. r \in Artifact(n)
  <2>1. n \in 1 .. n
    BY <1>1
  <2> QED
    BY <1>1, <2>1 DEF Artifact, EndArtifact
<1>3. r \in Artifacts
  BY <1>1, <1>2 DEF Artifacts
<1>4. r.type = ReportOf(a.type) /\ r.inputs = {n}
  BY DEF Report
<1>5. Admits(pl, s.life, n, r)
  BY <1>1, <1>4 DEF Admits, AdmitsReport, Concluded
<1>6. /\ u.life = Advance(s.life, r)
      /\ Len(u.ledger) = n + 1 /\ Last(u) = r
      /\ \A i \in 1 .. n : u.ledger[i] = s.ledger[i]
  BY <1>3, PutIs
<1>7. u.life = Closed(s.life)
  BY <1>1, <1>6, Advances
<1>8. /\ u.life.terminal = s.life.terminal
      /\ u.life.dispositions = s.life.dispositions
      /\ u.life.reviewed = s.life.reviewed /\ u.life.verified = s.life.verified
  BY <1>7, LifeTyped DEF Closed, LifeRecord
<1>9. /\ Len(u.ledger) - 1 = n /\ Len(u.ledger) > 1 /\ n \in 1 .. n
      /\ Len(u.ledger) - 2 = n - 1
  BY <1>1, <1>6
<1>10. u.ledger[n] = a
  BY <1>6, <1>9 DEF Concluded, Last
<1> HIDE DEF u, n
<1>11. Reported(u, a)
  BY <1>6, <1>8, <1>9, <1>10 DEF Reported, Concluded
<1> QED
  BY <1>3, <1>5, <1>8, <1>9, <1>11 DEF Answered, u, n

-----------------------------------------------------------------------------
(* What one evaluation does to the others, and to itself *)

Local(f) ==
  <<pc[f], plan[f], session[f], attempt[f], diagnosis[f], outcome[f], spent[f]>>

\* One attempt is consumed for e, or none is.
Paid(e) ==
  \/ consumed' = consumed /\ spent'[e] = spent[e]
  \/ consumed < total /\ consumed' = consumed + 1 /\ spent'[e] = spent[e] + 1

LEMMA LocalIs ==
  ASSUME NEW f, Local(f)' = Local(f)
  PROVE  /\ pc'[f] = pc[f] /\ plan'[f] = plan[f] /\ session'[f] = session[f]
         /\ attempt'[f] = attempt[f] /\ diagnosis'[f] = diagnosis[f]
         /\ outcome'[f] = outcome[f] /\ spent'[f] = spent[f]
  BY DEF Local

\* Another evaluation may use the backend, but not when this one has seen it
\* used up.
LEMMA OtherOwn ==
  ASSUME NEW f \in Evaluation, Own(f), Local(f)' = Local(f), total' = total,
         consumed' = consumed \/ consumed # total
  PROVE  Own(f)'
<1>1. /\ pc'[f] = pc[f] /\ plan'[f] = plan[f] /\ session'[f] = session[f]
      /\ attempt'[f] = attempt[f] /\ diagnosis'[f] = diagnosis[f]
      /\ outcome'[f] = outcome[f] /\ spent'[f] = spent[f]
  BY LocalIs
<1>2. Exact(f) => Exact(f)'
  BY <1>1 DEF Exact, Life
<1>3. Expected(f)' = Expected(f)
  BY <1>1 DEF Expected, Life
<1> QED
  BY <1>1, <1>2, <1>3 DEF Own

LEMMA Together ==
  ASSUME Inv, NEW e \in Evaluation, Typed',
         \A f \in Evaluation : f # e => Local(f)' = Local(f),
         total' = total, trouble' >= trouble,
         seen.threads \subseteq seen'.threads, seen.launches \subseteq seen'.launches,
         Paid(e), Own(e)', Balanced(session[e])', KnownOf(e)', FaultOf(e)', FinishedOf(e)'
  PROVE  Inv'
<1>0. /\ consumed \in Nat /\ total \in Nat /\ trouble \in Nat /\ trouble' \in Nat
      /\ \A f \in Evaluation : spent[f] \in Nat
      /\ consumed' = consumed \/ consumed # total
  BY LifecycleAssumption, EvaluationAssumption DEF Inv, Typed, Paid
<1>1. \A f \in Evaluation : f # e => Own(f)'
  BY <1>0, OtherOwn DEF Inv
<1>2. Budget'
  <2>1. ASSUME NEW f \in Evaluation PROVE spent'[f] <= consumed'
    <3>1. spent[f] <= consumed
      BY DEF Inv, Budget
    <3>2. CASE f = e
      BY <1>0, <3>1, <3>2 DEF Paid
    <3>3. CASE f # e
      BY <1>0, <3>1, <3>3, LocalIs DEF Paid
    <3> QED
      BY <3>2, <3>3
  <2>2. ASSUME NEW f \in Evaluation, NEW g \in Evaluation, f # g
        PROVE  spent'[f] + spent'[g] <= consumed'
    <3>1. spent[f] + spent[g] <= consumed
      BY <2>2 DEF Inv, Budget
    <3>2. CASE f = e
      <4>1. spent'[g] = spent[g]
        BY <2>2, <3>2, LocalIs
      <4> QED
        BY <1>0, <3>1, <3>2, <4>1 DEF Paid
    <3>3. CASE g = e
      <4>1. spent'[f] = spent[f]
        BY <2>2, <3>3, LocalIs
      <4> QED
        BY <1>0, <3>1, <3>3, <4>1 DEF Paid
    <3>4. CASE f # e /\ g # e
      <4>1. spent'[f] = spent[f] /\ spent'[g] = spent[g]
        BY <3>4, LocalIs
      <4> QED
        BY <1>0, <3>1, <4>1 DEF Paid
    <3> QED
      BY <3>2, <3>3, <3>4
  <2> QED
    BY <2>1, <2>2 DEF Budget
<1>3. ASSUME NEW f \in Evaluation, f # e
      PROVE  Balanced(session[f])' /\ KnownOf(f)' /\ FaultOf(f)' /\ FinishedOf(f)'
  <2>1. /\ pc'[f] = pc[f] /\ session'[f] = session[f]
        /\ attempt'[f] = attempt[f] /\ outcome'[f] = outcome[f]
    BY <1>3, LocalIs
  <2>2. Balanced(session[f]) /\ KnownOf(f) /\ FaultOf(f) /\ FinishedOf(f)
    BY DEF Inv, Books, Known, Faults, Finished
  <2>3. Balanced(session[f])'
    BY <2>1, <2>2
  <2>4. KnownOf(f)'
    BY <2>1, <2>2 DEF KnownOf
  <2>5. FaultOf(f)' /\ FinishedOf(f)'
    BY <1>0, <2>1, <2>2 DEF FaultOf, FinishedOf
  <2> QED
    BY <2>3, <2>4, <2>5
<1>4. Books' /\ Known' /\ Faults' /\ Finished'
  BY <1>3 DEF Books, Known, Faults, Finished
<1> QED
  BY <1>1, <1>2, <1>4 DEF Inv

\* A step that touches neither the session nor the backend.
LEMMA Quietly ==
  ASSUME Inv, NEW e \in Evaluation, Typed',
         UNCHANGED <<session, attempt, spent, backend>>,
         \A f \in Evaluation : f # e => Local(f)' = Local(f),
         trouble' >= trouble, Own(e)', FaultOf(e)', FinishedOf(e)'
  PROVE  Inv'
<1>1. /\ total' = total /\ consumed' = consumed /\ seen' = seen
      /\ session' = session /\ attempt' = attempt /\ spent' = spent
  BY DEF backend
<1>2. Balanced(session[e])' /\ KnownOf(e)'
  BY <1>1 DEF Inv, Books, Known, KnownOf
<1> QED
  BY <1>1, <1>2, Together DEF Paid

-----------------------------------------------------------------------------
(* Calls of the Store *)

LEMMA AdvanceKnown ==
  ASSUME NEW life \in LifeRecord, NEW a \in Artifacts, NEW T, NEW L,
         life.threads \subseteq T, life.launches \subseteq L,
         a.type \in {"reviewer_result", "verifier_result"} => a.thread \in T /\ a.launch \in L
  PROVE  Advance(life, a).threads \subseteq T /\ Advance(life, a).launches \subseteq L
<1> DEFINE next == Advance(life, a)
<1>1. CASE a.type = "reviewer_result"
  <2>1. PICK k, t, l, c, f : a = ReviewerResult(k, t, l, c, f)
    BY <1>1, ArtifactCases, Types DEF ReportKinds
  <2>2. next = Reviewed(life, k, t, l, c, f)
    BY <2>1, Advances
  <2>3. t \in T /\ l \in L
    BY <1>1, <2>1, Types
  <2> QED
    BY <2>2, <2>3 DEF Reviewed, LifeRecord
<1>2. CASE a.type = "verifier_result"
  <2>1. PICK k, t, l, d : a = VerifierResult(k, t, l, d)
    BY <1>2, ArtifactCases, Types DEF ReportKinds
  <2>2. next = Judged(life, k, t, l, d)
    BY <2>1, Advances
  <2>3. t \in T /\ l \in L
    BY <1>2, <2>1, Types
  <2> QED
    BY <2>2, <2>3 DEF Judged, LifeRecord
<1>3. CASE a.type \notin {"reviewer_result", "verifier_result"}
  <2>1. \/ \E k : next \in {Begun(life), ReviewAsked(life, k), VerdictAsked(life, k)}
        \/ next \in {Ended(life, "diagnostic"), Ended(life, "evaluation_completion"),
                     Closed(life)}
    BY <1>3, Types, Advances, ArtifactCases
  <2>2. next.threads = life.threads /\ next.launches = life.launches
    BY <2>1 DEF LifeRecord, Begun, ReviewAsked, VerdictAsked, Ended, Closed
  <2> QED
    BY <2>2
<1> QED
  BY <1>1, <1>2, <1>3

LEMMA StoredIs ==
  ASSUME Typed, NEW e \in Evaluation, NEW a \in Artifacts
  PROVE  /\ Stored(e, a) \in [Evaluation -> Session]
         /\ Stored(e, a)[e] = Put(session[e], a)
         /\ \A f \in Evaluation : f # e => Stored(e, a)[f] = session[f]
<1>1. session \in [Evaluation -> Session] /\ session[e] \in Session
  BY DEF Typed
<1>2. Put(session[e], a) \in Session
  BY <1>1, PutTyped
<1>3. Stored(e, a) = [session EXCEPT ![e] = Put(session[e], a)]
  BY <1>1 DEF Stored, Put, Session
<1> QED
  BY <1>1, <1>2, <1>3

LEMMA Goes ==
  ASSUME Typed, NEW e \in Evaluation, NEW step \in Steps, Goto(e, step)
  PROVE  /\ pc' \in [Evaluation -> Steps] /\ pc'[e] = step
         /\ \A f \in Evaluation : f # e => pc'[f] = pc[f]
  BY DEF Typed, Goto

LEMMA Blames ==
  ASSUME Typed, NEW e \in Evaluation, Blame(e)
  PROVE  adverse' \in [Evaluation -> BOOLEAN]
  BY DEF Typed, Blame

LEMMA Troubles ==
  ASSUME Typed, Trouble
  PROVE  trouble' \in 0 .. MaxTrouble /\ trouble' >= trouble /\ trouble' > 0
  BY EvaluationAssumption DEF Typed, Trouble

\* A call that went wrong leads to the recovery view, where nothing more is
\* said of the session.
LEMMA Recovers ==
  ASSUME NEW e, pc'[e] = "recovery", outcome'[e] = "none"
  PROVE  Own(e)' /\ FinishedOf(e)'
  BY DEF Own, Before, FinishedOf

\* A write of an artifact that the lifecycle admits goes on to the next step or
\* meets a fault.
LEMMA Writes ==
  ASSUME Inv, NEW e \in Evaluation, NEW a \in Artifacts,
         NEW next \in Steps \ {"end", "recovery"}, Write(e, a, next),
         outcome[e] = "none", Alive(session[e]),
         Admits(plan[e], session[e].life, Len(session[e].ledger), a),
         a.type \in {"reviewer_result", "verifier_result"} =>
           a.thread \in seen.threads /\ a.launch \in seen.launches,
         /\ pc'[e] = next /\ session'[e] = Put(session[e], a)
         /\ UNCHANGED <<plan, attempt, diagnosis, outcome, spent, backend>>
         => Own(e)'
  PROVE  Inv'
<1>0. /\ UNCHANGED <<plan, attempt, diagnosis, outcome, spent, backend>>
      /\ total' = total /\ consumed' = consumed /\ seen' = seen
      /\ plan' = plan /\ attempt' = attempt /\ diagnosis' = diagnosis
      /\ outcome' = outcome /\ spent' = spent
      /\ Typed /\ trouble \in Nat /\ session[e] \in Session
  BY EvaluationAssumption DEF Write, backend, Inv, Typed
<1>1. /\ Stored(e, a) \in [Evaluation -> Session]
      /\ Stored(e, a)[e] = Put(session[e], a)
      /\ \A f \in Evaluation : f # e => Stored(e, a)[f] = session[f]
  BY <1>0, StoredIs
<1>2. /\ Balanced(session[e]) /\ KnownOf(e) /\ FaultOf(e)
      /\ Balanced(Put(session[e], a))
  BY <1>0, PutBalanced DEF Inv, Books, Known, Faults
<1>3. /\ Put(session[e], a).life.threads \subseteq seen.threads
      /\ Put(session[e], a).life.launches \subseteq seen.launches
      /\ Put(session[e], a).health = session[e].health
  <2>1. /\ session[e].life \in LifeRecord
        /\ session[e].life.threads \subseteq seen.threads
        /\ session[e].life.launches \subseteq seen.launches
    BY <1>0, <1>2, LifeTyped DEF KnownOf
  <2>2. /\ Advance(session[e].life, a).threads \subseteq seen.threads
        /\ Advance(session[e].life, a).launches \subseteq seen.launches
    BY <2>1, AdvanceKnown
  <2> QED
    BY <1>0, <2>2, PutIs
\* Whatever becomes of the session of e, it is of its kind.
<1>4. ASSUME session' \in {session, Stored(e, a), [session EXCEPT ![e].health = "broken"]}
      PROVE  /\ session' \in [Evaluation -> Session]
             /\ \A f \in Evaluation : f # e => session'[f] = session[f]
             /\ Balanced(session[e])' /\ KnownOf(e)'
  <2>1. CASE session' = session
    BY <1>0, <1>2, <2>1 DEF Typed, KnownOf
  <2>2. CASE session' = Stored(e, a)
    BY <1>0, <1>1, <1>2, <1>3, <2>2 DEF KnownOf
  <2>3. CASE session' = [session EXCEPT ![e].health = "broken"]
    <3>1. /\ session' \in [Evaluation -> Session]
          /\ \A f \in Evaluation : f # e => session'[f] = session[f]
          /\ session'[e].ledger = session[e].ledger /\ session'[e].life = session[e].life
      BY <1>0, <2>3 DEF Typed, Session
    <3> QED
      BY <1>0, <1>2, <3>1 DEF KnownOf, Balanced, Count
  <2> QED
    BY <1>4, <2>1, <2>2, <2>3
<1>5. CASE /\ session[e].health = "sound"
           /\ session' = Stored(e, a)
           /\ Goto(e, next) /\ UNCHANGED <<adverse, trouble>>
  <2>1. /\ pc' \in [Evaluation -> Steps] /\ pc'[e] = next
        /\ \A f \in Evaluation : f # e => pc'[f] = pc[f]
    BY <1>0, <1>5, Goes
  <2>2. Typed'
    BY <1>0, <1>1, <1>5, <2>1 DEF Typed
  <2>3. Own(e)'
    BY <1>0, <1>1, <1>5, <2>1
  <2>4. \A f \in Evaluation : f # e => Local(f)' = Local(f)
    BY <1>0, <1>4, <1>5, <2>1 DEF Local
  <2>5. FaultOf(e)' /\ FinishedOf(e)'
    BY <1>0, <1>1, <1>3, <1>5, <2>1 DEF FaultOf, FinishedOf
  <2> QED
    BY <1>0, <1>4, <1>5, <2>2, <2>3, <2>4, <2>5, Together DEF Paid
<1>6. CASE /\ session' \in {session, Stored(e, a), [session EXCEPT ![e].health = "broken"]}
           /\ Goto(e, "recovery")
           /\ \/ session[e].health # "sound" /\ UNCHANGED <<adverse, trouble>>
              \/ Trouble /\ Blame(e)
  <2>1. /\ pc' \in [Evaluation -> Steps] /\ pc'[e] = "recovery"
        /\ \A f \in Evaluation : f # e => pc'[f] = pc[f]
    <3>1. "recovery" \in Steps
      BY DEF Steps
    <3> QED
      BY <1>0, <1>6, <3>1, Goes
  <2>2. trouble' \in 0 .. MaxTrouble /\ trouble' >= trouble /\ trouble' > 0
    <3>1. CASE session[e].health # "sound" /\ UNCHANGED <<adverse, trouble>>
      BY <1>0, <1>2, <3>1 DEF Typed, Alive, FaultOf
    <3>2. CASE Trouble /\ Blame(e)
      BY <1>0, <3>2, Troubles
    <3> QED
      BY <1>6, <3>1, <3>2
  <2>3. adverse' \in [Evaluation -> BOOLEAN]
    BY <1>0, <1>6, Blames DEF Typed
  <2>4. Typed'
    BY <1>0, <1>4, <1>6, <2>1, <2>2, <2>3 DEF Typed
  <2>5. Own(e)' /\ FinishedOf(e)'
    BY <1>0, <2>1, Recovers
  <2>6. \A f \in Evaluation : f # e => Local(f)' = Local(f)
    BY <1>0, <1>4, <1>6, <2>1 DEF Local
  <2>7. FaultOf(e)'
    BY <2>2 DEF FaultOf
  <2> QED
    BY <1>0, <1>4, <1>6, <2>2, <2>4, <2>5, <2>6, <2>7, Together DEF Paid
<1>7. \/ /\ session[e].health = "sound"
         /\ session' = Stored(e, a)
         /\ Goto(e, next) /\ UNCHANGED <<adverse, trouble>>
      \/ /\ session' \in {session, Stored(e, a), [session EXCEPT ![e].health = "broken"]}
         /\ Goto(e, "recovery")
         /\ \/ session[e].health # "sound" /\ UNCHANGED <<adverse, trouble>>
            \/ Trouble /\ Blame(e)
  BY DEF Write, Life, Size
<1> QED
  BY <1>5, <1>6, <1>7

\* A verification or an exact readback that fails.
LEMMA FailsCheck ==
  ASSUME Inv, NEW e \in Evaluation, CheckFails(e), outcome[e] = "none"
  PROVE  Inv'
<1>0. /\ UNCHANGED <<plan, session, attempt, diagnosis, outcome, spent, backend>>
      /\ Typed /\ trouble \in Nat /\ FaultOf(e)
  BY EvaluationAssumption DEF CheckFails, Inv, Typed, Faults
<1>1. /\ pc' \in [Evaluation -> Steps] /\ pc'[e] = "recovery"
      /\ \A f \in Evaluation : f # e => pc'[f] = pc[f]
  <2>1. "recovery" \in Steps
    BY DEF Steps
  <2> QED
    BY <1>0, <2>1, Goes DEF CheckFails
<1>2. trouble' \in 0 .. MaxTrouble /\ trouble' >= trouble /\ trouble' > 0
  <2>1. CASE session[e].health = "broken" /\ UNCHANGED <<adverse, trouble>>
    BY <1>0, <2>1 DEF Typed, FaultOf
  <2>2. CASE Trouble /\ Blame(e)
    BY <1>0, <2>2, Troubles
  <2> QED
    BY <2>1, <2>2 DEF CheckFails
<1>3. adverse' \in [Evaluation -> BOOLEAN]
  BY <1>0, Blames DEF CheckFails, Typed
<1>4. Typed'
  BY <1>0, <1>1, <1>2, <1>3 DEF Typed, backend
<1>5. Own(e)' /\ FinishedOf(e)'
  BY <1>0, <1>1, Recovers
<1>6. \A f \in Evaluation : f # e => Local(f)' = Local(f)
  BY <1>0, <1>1 DEF Local
<1>7. FaultOf(e)'
  BY <1>2 DEF FaultOf
<1> QED
  BY <1>0, <1>2, <1>4, <1>5, <1>6, <1>7, Quietly

\* One that succeeds changes nothing but the step.
LEMMA Checks ==
  ASSUME Inv, NEW e \in Evaluation, NEW next \in Steps \ {"end", "recovery"},
         Checked(e, next), outcome[e] = "none",
         pc'[e] = next /\ UNCHANGED <<local, backend>> => Own(e)'
  PROVE  Inv'
<1>1. CASE Goto(e, next) /\ UNCHANGED <<local, backend, trouble>>
  <2>1. /\ UNCHANGED <<local, backend>> /\ trouble' = trouble /\ adverse' = adverse
        /\ UNCHANGED <<plan, session, attempt, diagnosis, outcome, spent, backend>>
        /\ Typed /\ trouble \in Nat /\ FaultOf(e)
    BY <1>1, EvaluationAssumption DEF Inv, Typed, Faults, local
  <2>2. /\ pc' \in [Evaluation -> Steps] /\ pc'[e] = next
        /\ \A f \in Evaluation : f # e => pc'[f] = pc[f]
    BY <1>1, <2>1, Goes
  <2>3. Own(e)'
    BY <2>1, <2>2
  <2>4. Typed'
    BY <2>1, <2>2 DEF Typed, backend
  <2>5. \A f \in Evaluation : f # e => Local(f)' = Local(f)
    BY <2>1, <2>2 DEF Local
  <2>6. FaultOf(e)' /\ FinishedOf(e)'
    BY <2>1, <2>2 DEF FaultOf, FinishedOf
  <2> QED
    BY <2>1, <2>3, <2>4, <2>5, <2>6, Quietly
<1>2. CASE CheckFails(e)
  BY <1>2, FailsCheck
<1> QED
  BY <1>1, <1>2 DEF Checked

-----------------------------------------------------------------------------
(* Before the session *)

\* An evaluation that has not returned.
LEMMA NotReturned ==
  ASSUME Inv, NEW e \in Evaluation, pc[e] # "end"
  PROVE  /\ outcome[e] = "none" /\ Own(e) /\ Typed /\ FaultOf(e)
         /\ session[e] \in Session /\ plan[e] \in Plan /\ trouble \in Nat
  BY EvaluationAssumption DEF Inv, Typed, Finished, FinishedOf, Faults

\* A step of the control alone.
LEMMA Moves ==
  ASSUME Inv, NEW e \in Evaluation, pc[e] # "end",
         NEW step \in Steps \ {"end", "recovery"}, Goto(e, step),
         UNCHANGED <<session, attempt, outcome, spent, backend, trouble>>,
         plan' \in [Evaluation -> Plan], diagnosis' \in [Evaluation -> Diagnosis \cup {NoDiagnosis}],
         \A f \in Evaluation : f # e => plan'[f] = plan[f] /\ diagnosis'[f] = diagnosis[f],
         adverse' \in [Evaluation -> BOOLEAN],
         pc'[e] = step => Own(e)'
  PROVE  Inv'
<1>1. /\ Typed /\ outcome[e] = "none" /\ FaultOf(e) /\ trouble \in Nat
      /\ session' = session /\ attempt' = attempt /\ outcome' = outcome
      /\ spent' = spent /\ trouble' = trouble
  BY NotReturned
<1>2. /\ pc' \in [Evaluation -> Steps] /\ pc'[e] = step
      /\ \A f \in Evaluation : f # e => pc'[f] = pc[f]
  BY <1>1, Goes
<1>3. Typed'
  BY <1>1, <1>2 DEF Typed, backend
<1>4. \A f \in Evaluation : f # e => Local(f)' = Local(f)
  BY <1>1, <1>2 DEF Local
<1>5. FaultOf(e)' /\ FinishedOf(e)'
  BY <1>1, <1>2 DEF FaultOf, FinishedOf
<1> QED
  BY <1>1, <1>2, <1>3, <1>4, <1>5, Quietly

\* An evaluation returns or raises, which says nothing of a session that it
\* did not conclude.
LEMMA Returns ==
  ASSUME Inv, NEW e \in Evaluation, pc[e] # "end", Goto(e, "end"),
         UNCHANGED <<plan, session, attempt, diagnosis, spent, backend>>,
         NEW o \in {"completed", "diagnosed", "blocked", "recovered", "raised"},
         outcome' = [outcome EXCEPT ![e] = o],
         adverse' \in [Evaluation -> BOOLEAN],
         trouble' \in 0 .. MaxTrouble, trouble' >= trouble,
         o = "recovered" => trouble > 0,
         pc'[e] = "end" /\ outcome'[e] = o => Own(e)'
  PROVE  Inv'
<1>1. /\ Typed /\ FaultOf(e) /\ trouble \in Nat
      /\ UNCHANGED <<session, attempt, spent, backend>>
      /\ plan' = plan /\ session' = session /\ attempt' = attempt
      /\ diagnosis' = diagnosis /\ spent' = spent
  BY NotReturned
<1>2. /\ pc' \in [Evaluation -> Steps] /\ pc'[e] = "end"
      /\ \A f \in Evaluation : f # e => pc'[f] = pc[f]
  <2>1. "end" \in Steps
    BY DEF Steps
  <2> QED
    BY <1>1, <2>1, Goes
<1>3. /\ outcome'[e] = o
      /\ \A f \in Evaluation : f # e => outcome'[f] = outcome[f]
      /\ outcome' \in [Evaluation -> {"none", "completed", "diagnosed", "blocked",
                                      "recovered", "raised"}]
  BY <1>1 DEF Typed
<1>4. Typed'
  BY <1>1, <1>2, <1>3 DEF Typed, backend
<1>5. \A f \in Evaluation : f # e => Local(f)' = Local(f)
  BY <1>1, <1>2, <1>3 DEF Local
<1>6. FaultOf(e)' /\ FinishedOf(e)'
  BY <1>1, <1>2, <1>3 DEF FaultOf, FinishedOf, Typed
<1>7. Own(e)'
  BY <1>2, <1>3
<1> QED
  BY <1>1, <1>4, <1>5, <1>6, <1>7, Quietly

\* An exception that leaves evaluate.
LEMMA Raises ==
  ASSUME Inv, NEW e \in Evaluation, pc[e] # "end", Goto(e, "end"), Blame(e),
         outcome' = [outcome EXCEPT ![e] = "raised"],
         UNCHANGED <<plan, session, attempt, diagnosis, spent, backend>>,
         trouble' \in 0 .. MaxTrouble, trouble' >= trouble
  PROVE  Inv'
<1>1. pc'[e] = "end" /\ outcome'[e] = "raised" => Own(e)'
  BY DEF Own, Before
<1>2. adverse' \in [Evaluation -> BOOLEAN]
  BY NotReturned, Blames
<1> QED
  BY <1>1, <1>2, Returns

\* Between steps that come before the session nothing can go wrong.
LEMMA Starts ==
  ASSUME Inv, NEW e \in Evaluation, pc[e] \in Before, NEW step \in Before, Goto(e, step),
         plan' \in [Evaluation -> Plan],
         \A f \in Evaluation : f # e => plan'[f] = plan[f],
         adverse' = adverse \/ Blame(e),
         UNCHANGED <<session, attempt, diagnosis, outcome, spent, backend, trouble>>
  PROVE  Inv'
<1>1. /\ step \in Steps \ {"end", "recovery"} /\ pc[e] # "end"
  BY DEF Before, Steps
<1>2. /\ Typed /\ outcome[e] = "none" /\ Own(e)
  BY <1>1, NotReturned
<1>3. session[e] = NoSession /\ spent[e] = 0
  BY <1>2 DEF Own
<1>4. pc'[e] = step => Own(e)'
  BY <1>2, <1>3 DEF Own, Before
<1>5. adverse' \in [Evaluation -> BOOLEAN]
  BY <1>2, Blames DEF Typed
<1>6. diagnosis' \in [Evaluation -> Diagnosis \cup {NoDiagnosis}] /\ diagnosis' = diagnosis
  BY <1>2 DEF Typed
<1> QED
  BY <1>1, <1>4, <1>5, <1>6, Moves

LEMMA ReadinessInv == ASSUME Inv, NEW e \in Evaluation, Readiness(e) PROVE Inv'
<1>1. /\ pc[e] \in Before /\ pc[e] # "end" /\ "binding" \in Before /\ "blocked" \in Before
      /\ UNCHANGED <<plan, session, attempt, diagnosis, spent, backend>>
      /\ UNCHANGED <<session, attempt, diagnosis, spent, backend, trouble>>
      /\ plan' = plan /\ trouble' = trouble
  BY DEF Readiness, Before
<1>2. Typed /\ plan' \in [Evaluation -> Plan]
  BY <1>1, NotReturned DEF Typed
<1>3. CASE Goto(e, "binding") /\ UNCHANGED <<adverse, outcome>>
  BY <1>1, <1>2, <1>3, Starts
<1>4. CASE Goto(e, "blocked") /\ Blame(e) /\ UNCHANGED outcome
  BY <1>1, <1>2, <1>4, Starts
<1>5. CASE Goto(e, "end") /\ Blame(e) /\ outcome' = [outcome EXCEPT ![e] = "raised"]
  <2>1. trouble' \in 0 .. MaxTrouble /\ trouble' >= trouble
    BY <1>1, <1>2, EvaluationAssumption DEF Typed
  <2> QED
    BY <1>1, <1>5, <2>1, Raises
<1> QED
  BY <1>3, <1>4, <1>5 DEF Readiness

LEMMA BindingInv == ASSUME Inv, NEW e \in Evaluation, Binding(e) PROVE Inv'
<1>1. /\ pc[e] \in Before /\ pc[e] # "end" /\ "identity" \in Before /\ "blocked" \in Before
      /\ UNCHANGED <<session, attempt, diagnosis, outcome, spent, backend, trouble>>
      /\ plan' = plan
  BY DEF Binding, Before
<1>2. plan' \in [Evaluation -> Plan]
  BY <1>1, NotReturned DEF Typed
<1>3. CASE Goto(e, "identity") /\ UNCHANGED adverse
  BY <1>1, <1>2, <1>3, Starts
<1>4. CASE Goto(e, "blocked") /\ Blame(e)
  BY <1>1, <1>2, <1>4, Starts
<1> QED
  BY <1>3, <1>4 DEF Binding

LEMMA IdentityInv == ASSUME Inv, NEW e \in Evaluation, Identity(e) PROVE Inv'
<1>1. /\ pc[e] \in Before /\ pc[e] # "end" /\ "seal" \in Before /\ "blocked" \in Before
      /\ UNCHANGED <<session, attempt, diagnosis, outcome, spent, backend, trouble>>
  BY DEF Identity, Before
<1>2. plan \in [Evaluation -> Plan] /\ total \in 0 .. MaxCandidates + 1
  BY <1>1, NotReturned DEF Typed
<1>3. CASE plan' = [plan EXCEPT ![e].attempts = total] /\ Goto(e, "seal") /\ UNCHANGED adverse
  <2>1. [plan[e] EXCEPT !.attempts = total] \in Plan
    BY <1>2 DEF Plan
  <2>2. plan' = [plan EXCEPT ![e] = [plan[e] EXCEPT !.attempts = total]]
    BY <1>2, <1>3
  <2>3. plan' \in [Evaluation -> Plan] /\ \A f \in Evaluation : f # e => plan'[f] = plan[f]
    BY <1>2, <2>1, <2>2
  <2> QED
    BY <1>1, <1>3, <2>3, Starts
<1>4. CASE Goto(e, "blocked") /\ Blame(e) /\ UNCHANGED plan
  BY <1>1, <1>2, <1>4, Starts
<1> QED
  BY <1>3, <1>4 DEF Identity

LEMMA SealInv == ASSUME Inv, NEW e \in Evaluation, Seal(e) PROVE Inv'
<1>1. /\ pc[e] \in Before /\ pc[e] # "end" /\ "create" \in Before
      /\ UNCHANGED <<session, attempt, diagnosis, spent, backend, trouble>>
      /\ trouble' = trouble
  BY DEF Seal, Before
<1>2. Typed /\ plan \in [Evaluation -> Plan]
  BY <1>1, NotReturned DEF Typed
<1>3. ASSUME NEW p \in Plan, plan' = [plan EXCEPT ![e] = p], Goto(e, "create"),
             UNCHANGED <<adverse, outcome>>
      PROVE  Inv'
  <2>1. plan' \in [Evaluation -> Plan] /\ \A f \in Evaluation : f # e => plan'[f] = plan[f]
    BY <1>2, <1>3
  <2> QED
    BY <1>1, <1>3, <2>1, Starts
<1>4. CASE /\ Goto(e, "end") /\ Blame(e) /\ outcome' = [outcome EXCEPT ![e] = "raised"]
           /\ UNCHANGED plan
  <2>1. trouble' \in 0 .. MaxTrouble /\ trouble' >= trouble
    BY <1>1, <1>2, EvaluationAssumption DEF Typed
  <2> QED
    BY <1>1, <1>4, <2>1, Raises
<1> QED
  BY <1>3, <1>4 DEF Seal

LEMMA CreateInv == ASSUME Inv, NEW e \in Evaluation, Create(e) PROVE Inv'
<1>1. /\ pc[e] = "create" /\ pc[e] \in Before /\ pc[e] # "end"
      /\ UNCHANGED <<plan, attempt, diagnosis, outcome, spent, backend>>
      /\ plan' = plan /\ attempt' = attempt /\ diagnosis' = diagnosis
      /\ outcome' = outcome /\ spent' = spent
      /\ total' = total /\ consumed' = consumed /\ seen' = seen
  BY DEF Create, Before, backend
<1>2. /\ Typed /\ outcome[e] = "none" /\ FaultOf(e) /\ trouble \in Nat
      /\ session[e] = NoSession /\ spent[e] = 0
      /\ Balanced(session[e]) /\ KnownOf(e)
  BY <1>1, NotReturned DEF Own, Inv, Books, Known
<1>3. CASE /\ session' = [session EXCEPT ![e].health = "sound"]
           /\ Goto(e, "target") /\ UNCHANGED <<adverse, trouble>>
  <2>1. /\ pc' \in [Evaluation -> Steps] /\ pc'[e] = "target"
        /\ \A f \in Evaluation : f # e => pc'[f] = pc[f]
    <3>1. "target" \in Steps
      BY DEF Steps
    <3> QED
      BY <1>2, <1>3, <3>1, Goes
  <2>2. /\ session' \in [Evaluation -> Session]
        /\ \A f \in Evaluation : f # e => session'[f] = session[f]
        /\ session'[e].ledger = session[e].ledger /\ session'[e].life = session[e].life
        /\ session'[e].health = "sound"
    BY <1>2, <1>3 DEF Typed, Session
  <2>3. Own(e)'
    BY <1>1, <1>2, <2>1, <2>2 DEF Own, Before, NoSession, Alive
  <2>4. Balanced(session[e])' /\ KnownOf(e)'
    BY <1>1, <1>2, <2>2 DEF Balanced, Count, KnownOf
  <2>5. Typed'
    BY <1>1, <1>2, <1>3, <2>1, <2>2 DEF Typed
  <2>6. FaultOf(e)' /\ FinishedOf(e)'
    BY <1>1, <1>2, <2>1, <2>2 DEF FaultOf, FinishedOf
  <2>7. \A f \in Evaluation : f # e => Local(f)' = Local(f)
    BY <1>1, <2>1, <2>2 DEF Local
  <2> QED
    BY <1>1, <1>2, <1>3, <2>3, <2>4, <2>5, <2>6, <2>7, Together DEF Paid
<1>4. CASE Trouble /\ Goto(e, "recovery") /\ Blame(e) /\ UNCHANGED session
  <2>1. CheckFails(e)
    BY <1>1, <1>4 DEF CheckFails
  <2> QED
    BY <1>2, <2>1, FailsCheck
<1> QED
  BY <1>3, <1>4 DEF Create

-----------------------------------------------------------------------------
(* The review *)

LEMMA WriteTargetInv == ASSUME Inv, NEW e \in Evaluation, WriteTarget(e) PROVE Inv'
<1> DEFINE a == TargetPacket(plan[e])
           next == IF plan[e].reviewable THEN "reviewerPacket" ELSE "readback"
<1>1. pc[e] = "target" /\ Write(e, a, next)
  BY DEF WriteTarget
<1>2. /\ outcome[e] = "none" /\ Own(e) /\ session[e] \in Session /\ plan[e] \in Plan
      /\ Alive(session[e]) /\ session[e].life = Fresh /\ spent[e] = 0
  BY <1>1, NotReturned DEF Own
<1>3. next \in Steps \ {"end", "recovery"}
  BY DEF Steps
<1>4. /\ a \in Artifacts /\ Admits(plan[e], session[e].life, Len(session[e].ledger), a)
      /\ plan[e].reviewable => /\ Reviewing(plan[e], Put(session[e], a))
                               /\ ~Put(session[e], a).life.packet
                               /\ Put(session[e], a).life.pending = NoTask
      /\ ~plan[e].reviewable => Ready(plan[e], Put(session[e], a))
  BY <1>2, TargetWritten
<1>5. a.type \notin {"reviewer_result", "verifier_result"}
  BY Types
<1> HIDE DEF a
<1>6. ASSUME pc'[e] = next, session'[e] = Put(session[e], a),
             UNCHANGED <<plan, attempt, diagnosis, outcome, spent, backend>>
      PROVE  Own(e)'
  <2>1. CASE plan[e].reviewable
    BY <1>2, <1>4, <1>6, <2>1 DEF Own, Before
  <2>2. CASE ~plan[e].reviewable
    <3>1. Expected(e)' = 0
      BY <1>6, <2>2 DEF Expected, ExpectedAttempts
    <3> QED
      BY <1>2, <1>4, <1>6, <2>2, <3>1 DEF Own, Before
  <2> QED
    BY <2>1, <2>2
<1> HIDE DEF next
<1> QED
  BY <1>1, <1>2, <1>3, <1>4, <1>5, <1>6, Writes

\* A call of _normal_failure: what it reports fits the stage.
LEMMA Fails ==
  ASSUME Inv, NEW e \in Evaluation, pc[e] # "end", NEW d \in Diagnosis, Failed(e, d),
         UNCHANGED <<plan, session, attempt, outcome, total, trouble>>,
         adverse' \in [Evaluation -> BOOLEAN],
         Paid(e), spent' \in [Evaluation -> Nat], consumed' \in 0 .. total,
         \A f \in Evaluation : f # e => spent'[f] = spent[f],
         seen' \in [threads : SUBSET Thread, launches : SUBSET Launch],
         seen.threads \subseteq seen'.threads, seen.launches \subseteq seen'.launches,
         Running(session[e]), StageFits(plan[e], session[e].life, d)
  PROVE  Inv'
<1>1. /\ Typed /\ outcome[e] = "none" /\ FaultOf(e) /\ trouble \in Nat
      /\ plan' = plan /\ session' = session /\ attempt' = attempt
      /\ outcome' = outcome /\ total' = total /\ trouble' = trouble
      /\ Balanced(session[e]) /\ KnownOf(e)
  BY NotReturned DEF Inv, Books, Known
<1>2. /\ pc' \in [Evaluation -> Steps] /\ pc'[e] = "failure"
      /\ \A f \in Evaluation : f # e => pc'[f] = pc[f]
  <2>1. "failure" \in Steps
    BY DEF Steps
  <2> QED
    BY <1>1, <2>1, Goes DEF Failed
<1>3. /\ diagnosis' \in [Evaluation -> Diagnosis \cup {NoDiagnosis}] /\ diagnosis'[e] = d
      /\ \A f \in Evaluation : f # e => diagnosis'[f] = diagnosis[f]
  BY <1>1 DEF Typed, Failed
<1>4. Typed'
  BY <1>1, <1>2, <1>3 DEF Typed
<1>5. Own(e)'
  BY <1>1, <1>2, <1>3 DEF Own, Before
<1>6. \A f \in Evaluation : f # e => Local(f)' = Local(f)
  BY <1>1, <1>2, <1>3 DEF Local
<1>7. Balanced(session[e])' /\ KnownOf(e)'
  BY <1>1 DEF KnownOf
<1>8. FaultOf(e)' /\ FinishedOf(e)'
  BY <1>1, <1>2 DEF FaultOf, FinishedOf
<1> QED
  BY <1>1, <1>4, <1>5, <1>6, <1>7, <1>8, Together

\* A failure that no worker was asked for.
LEMMA FailsQuietly ==
  ASSUME Inv, NEW e \in Evaluation, pc[e] # "end", NEW d \in Diagnosis, Failed(e, d),
         UNCHANGED <<plan, session, attempt, outcome, spent, backend, trouble>>,
         adverse' \in [Evaluation -> BOOLEAN],
         Running(session[e]), StageFits(plan[e], session[e].life, d)
  PROVE  Inv'
<1>1. /\ UNCHANGED <<plan, session, attempt, outcome, total, trouble>>
      /\ spent' = spent /\ consumed' = consumed /\ seen' = seen
  BY DEF backend
<1>2. /\ spent' \in [Evaluation -> Nat] /\ consumed' \in 0 .. total
      /\ seen' \in [threads : SUBSET Thread, launches : SUBSET Launch]
  BY <1>1 DEF Inv, Typed
<1>3. Paid(e)
  BY <1>1 DEF Paid
<1> QED
  BY <1>1, <1>2, <1>3, Fails

LEMMA ReviewerPacketInv == ASSUME Inv, NEW e \in Evaluation, ReviewerPacketStep(e) PROVE Inv'
<1> DEFINE a == RolePacket("reviewer_packet", ReviewerTask)
<1>1. pc[e] = "reviewerPacket"
  BY DEF ReviewerPacketStep
<1>2. /\ outcome[e] = "none" /\ Own(e) /\ session[e] \in Session /\ Typed
      /\ Reviewing(plan[e], session[e]) /\ ~session[e].life.packet
      /\ session[e].life.pending = NoTask /\ spent[e] = 0
  BY <1>1, NotReturned DEF Own
<1>3. Running(session[e]) /\ Alive(session[e]) /\ plan[e].reviewable
  BY <1>2 DEF Reviewing, Running
<1>4. CASE Write(e, a, "runReviewer")
  <2>1. "runReviewer" \in Steps \ {"end", "recovery"}
    BY DEF Steps
  <2>2. /\ a \in Artifacts /\ Admits(plan[e], session[e].life, Len(session[e].ledger), a)
        /\ AwaitReview(plan[e], Put(session[e], a)) /\ Sent(Put(session[e], a))
    BY <1>2, ReviewerPacketWritten
  <2>3. a.type \notin {"reviewer_result", "verifier_result"}
    BY Types
  <2> HIDE DEF a
  <2>4. ASSUME pc'[e] = "runReviewer", session'[e] = Put(session[e], a),
               UNCHANGED <<plan, attempt, diagnosis, outcome, spent, backend>>
        PROVE  Own(e)'
    BY <1>2, <2>2, <2>4 DEF Own, Before
  <2> QED
    BY <1>2, <1>3, <1>4, <2>1, <2>2, <2>3, <2>4, Writes
<1>5. CASE /\ Failed(e, <<"reviewer_acceptance", "semantic_contract_rejected">>)
           /\ Blame(e)
           /\ UNCHANGED <<plan, session, attempt, outcome, spent, backend, trouble>>
  <2> DEFINE d == <<"reviewer_acceptance", "semantic_contract_rejected">>
  <2>1. d \in Diagnosis
    BY DEF Diagnosis
  <2>2. StageFits(plan[e], session[e].life, d)
    BY <1>2, <1>3 DEF StageFits
  <2>3. adverse' \in [Evaluation -> BOOLEAN]
    BY <1>2, <1>5, Blames
  <2> QED
    BY <1>1, <1>3, <1>5, <2>1, <2>2, <2>3, FailsQuietly
<1> QED
  BY <1>4, <1>5 DEF ReviewerPacketStep

-----------------------------------------------------------------------------
(* The workers *)

LEMMA Consumes ==
  ASSUME Typed, NEW e \in Evaluation, Remains, Consume(e)
  PROVE  /\ Paid(e) /\ spent' \in [Evaluation -> Nat] /\ consumed' \in 0 .. total
         /\ spent'[e] = spent[e] + 1
         /\ \A f \in Evaluation : f # e => spent'[f] = spent[f]
<1>1. /\ spent \in [Evaluation -> Nat] /\ total \in Nat /\ consumed \in 0 .. total
      /\ consumed < total
  BY LifecycleAssumption DEF Typed, Remains
<1> QED
  BY <1>1 DEF Consume, Paid

\* The backend remembers the identities of what it accepts.
LEMMA Remembers ==
  ASSUME Typed, NEW t \in Thread, NEW l \in Launch,
         seen' = [threads |-> seen.threads \cup {t}, launches |-> seen.launches \cup {l}]
  PROVE  /\ seen' \in [threads : SUBSET Thread, launches : SUBSET Launch]
         /\ seen.threads \subseteq seen'.threads /\ seen.launches \subseteq seen'.launches
         /\ t \in seen'.threads /\ l \in seen'.launches
<1>1. seen.threads \in SUBSET Thread /\ seen.launches \in SUBSET Launch
  BY DEF Typed
<1> QED
  BY <1>1

LEMMA ResultIs ==
  ASSUME NEW a \in ResultArtifacts
  PROVE  /\ a.type \in {"reviewer_result", "verifier_result"}
         /\ a.thread \in Thread /\ a.launch \in Launch
  BY Types DEF ResultArtifacts

\* An attempt that the backend accepts is the answer to be written.
LEMMA Runs ==
  ASSUME Inv, NEW e \in Evaluation, pc[e] # "end", NEW a \in ResultArtifacts,
         NEW next \in Steps \ {"end", "recovery"}, RunAccepted(e, a, next),
         UNCHANGED <<plan, session, outcome, total, trouble>>,
         /\ pc'[e] = next /\ attempt'[e] = a /\ spent'[e] = spent[e] + 1
         /\ a.thread \notin session[e].life.threads
         /\ a.launch \notin session[e].life.launches
         => Own(e)'
  PROVE  Inv'
<1>1. /\ Typed /\ outcome[e] = "none" /\ FaultOf(e) /\ trouble \in Nat
      /\ plan' = plan /\ session' = session /\ diagnosis' = diagnosis
      /\ outcome' = outcome /\ total' = total /\ trouble' = trouble /\ adverse' = adverse
      /\ Balanced(session[e]) /\ KnownOf(e)
      /\ attempt' = [attempt EXCEPT ![e] = a]
      /\ seen' = [threads |-> seen.threads \cup {a.thread},
                  launches |-> seen.launches \cup {a.launch}]
      /\ a.thread \notin seen.threads /\ a.launch \notin seen.launches
      /\ Remains /\ Consume(e) /\ Goto(e, next)
  BY NotReturned DEF Inv, Books, Known, RunAccepted, Accepts
<1>2. /\ pc' \in [Evaluation -> Steps] /\ pc'[e] = next
      /\ \A f \in Evaluation : f # e => pc'[f] = pc[f]
  BY <1>1, Goes
<1>3. /\ Paid(e) /\ spent' \in [Evaluation -> Nat] /\ consumed' \in 0 .. total
      /\ spent'[e] = spent[e] + 1
      /\ \A f \in Evaluation : f # e => spent'[f] = spent[f]
  BY <1>1, Consumes
<1>4. /\ seen' \in [threads : SUBSET Thread, launches : SUBSET Launch]
      /\ seen.threads \subseteq seen'.threads /\ seen.launches \subseteq seen'.launches
      /\ a.thread \in seen'.threads /\ a.launch \in seen'.launches
  BY <1>1, ResultIs, Remembers
<1>5. /\ attempt' \in [Evaluation -> ResultArtifacts \cup {NoResult}] /\ attempt'[e] = a
      /\ \A f \in Evaluation : f # e => attempt'[f] = attempt[f]
  BY <1>1 DEF Typed
<1>6. Typed'
  BY <1>1, <1>2, <1>3, <1>4, <1>5 DEF Typed
<1>7. Own(e)'
  BY <1>1, <1>2, <1>3, <1>5 DEF KnownOf
<1>8. \A f \in Evaluation : f # e => Local(f)' = Local(f)
  BY <1>1, <1>2, <1>3, <1>5 DEF Local
<1>9. Balanced(session[e])' /\ KnownOf(e)'
  BY <1>1, <1>4, <1>5 DEF KnownOf
<1>10. FaultOf(e)' /\ FinishedOf(e)'
  BY <1>1, <1>2 DEF FaultOf, FinishedOf
<1> QED
  BY <1>1, <1>3, <1>4, <1>6, <1>7, <1>8, <1>9, <1>10, Together

\* A dispatch that fails, whatever the phase.
LEMMA RunFails ==
  ASSUME Inv, NEW e \in Evaluation, pc[e] # "end", NEW phase,
         UNCHANGED <<plan, session, outcome, total, trouble>>,
         Running(session[e])
  PROVE  /\ \A d \in Diagnosis :
              RunRejected(e, phase) /\ d = <<phase, "worker_attempt_rejected">>
                /\ StageFits(plan[e], session[e].life, d) => Inv'
         /\ (\A r \in DispatchReasons : /\ <<phase, r>> \in Diagnosis
                                        /\ StageFits(plan[e], session[e].life, <<phase, r>>))
              /\ RunUnavailable(e, phase) => Inv'
<1>1. ASSUME NEW d \in Diagnosis, RunRejected(e, phase),
             d = <<phase, "worker_attempt_rejected">>, StageFits(plan[e], session[e].life, d)
      PROVE  Inv'
  <2>1. /\ Typed /\ Remains /\ Consume(e) /\ Failed(e, d) /\ Blame(e)
        /\ attempt' = attempt /\ seen' = seen
    BY <1>1 DEF RunRejected, Inv
  <2>2. /\ Paid(e) /\ spent' \in [Evaluation -> Nat] /\ consumed' \in 0 .. total
        /\ \A f \in Evaluation : f # e => spent'[f] = spent[f]
    BY <2>1, Consumes
  <2>3. adverse' \in [Evaluation -> BOOLEAN]
    BY <2>1, Blames
  <2>4. seen' \in [threads : SUBSET Thread, launches : SUBSET Launch]
    BY <2>1 DEF Typed
  <2>5. UNCHANGED <<plan, session, attempt, outcome, total, trouble>>
    BY <2>1
  <2> QED
    BY <1>1, <2>1, <2>2, <2>3, <2>4, <2>5, Fails
<1>2. ASSUME RunUnavailable(e, phase),
             \A r \in DispatchReasons : /\ <<phase, r>> \in Diagnosis
                                        /\ StageFits(plan[e], session[e].life, <<phase, r>>)
      PROVE  Inv'
  <2>1. PICK r \in DispatchReasons : Failed(e, <<phase, r>>)
    BY <1>2 DEF RunUnavailable, DispatchReasons
  <2>2. /\ Blame(e) /\ attempt' = attempt /\ spent' = spent /\ consumed' = consumed
        /\ seen' = seen /\ Typed
    BY <1>2 DEF RunUnavailable, Inv
  <2>3. UNCHANGED <<plan, session, attempt, outcome, spent, backend, trouble>>
    BY <2>2 DEF backend
  <2>4. adverse' \in [Evaluation -> BOOLEAN]
    BY <2>2, Blames
  <2> QED
    BY <1>2, <2>1, <2>3, <2>4, FailsQuietly
<1> QED
  BY <1>1, <1>2

LEMMA RunReviewerInv == ASSUME Inv, NEW e \in Evaluation, RunReviewer(e) PROVE Inv'
<1>1. /\ pc[e] = "runReviewer" /\ pc[e] # "end"
      /\ UNCHANGED <<plan, session, outcome, total, trouble>>
      /\ plan' = plan /\ session' = session /\ outcome' = outcome
  BY DEF RunReviewer
<1>2. /\ outcome[e] = "none" /\ Own(e) /\ Typed
      /\ AwaitReview(plan[e], session[e]) /\ Sent(session[e]) /\ spent[e] = 0
  BY <1>1, NotReturned DEF Own
<1>3. Running(session[e])
  BY <1>2 DEF AwaitReview, Reviewing
\* The diagnoses that fit an awaited review.
<1>4. ASSUME NEW d, d \in {"reviewer_dispatch"} \X DispatchReasons
                    \/ d \in {"reviewer_acceptance"} \X
                               {"worker_attempt_rejected", "semantic_contract_rejected"}
      PROVE  d \in Diagnosis /\ StageFits(plan[e], session[e].life, d)
  <2>1. d \in Diagnosis
    BY <1>4 DEF Diagnosis
  <2>2. StageFits(plan[e], session[e].life, d)
    BY <1>2, <1>4, Roles DEF StageFits, AwaitReview, Reviewing
  <2> QED
    BY <2>1, <2>2
<1>5. ASSUME NEW t \in Thread, NEW l \in Launch, NEW c \in CandidateLists, NEW f \in BOOLEAN,
             ~OffTarget(ReviewerResult(ReviewerTask, t, l, c, f)),
             RunAccepted(e, ReviewerResult(ReviewerTask, t, l, c, f), "reviewerResult")
      PROVE  Inv'
  <2> DEFINE a == ReviewerResult(ReviewerTask, t, l, c, f)
  <2>1. a \in ResultArtifacts /\ a.type = "reviewer_result" /\ a.task = ReviewerTask
    BY Types DEF ResultArtifacts
  <2>2. "reviewerResult" \in Steps \ {"end", "recovery"}
    BY DEF Steps
  <2>3. ~OffTarget(a) /\ RunAccepted(e, a, "reviewerResult")
    BY <1>5
  <2> HIDE DEF a
  <2>4. ASSUME pc'[e] = "reviewerResult", attempt'[e] = a, spent'[e] = spent[e] + 1,
               a.thread \notin session[e].life.threads,
               a.launch \notin session[e].life.launches
        PROVE  Own(e)'
    <3>1. Answer(session[e], a, "reviewer_result") /\ spent'[e] = 1
      BY <1>2, <2>1, <2>4 DEF Answer, AwaitReview
    <3> QED
      BY <1>1, <1>2, <2>3, <2>4, <3>1 DEF Own, Before
  <2> QED
    BY <1>1, <2>1, <2>2, <2>3, <2>4, Runs
<1>6. ASSUME NEW t \in Thread, NEW l \in Launch, Remains, Consume(e), Blame(e),
             attempt' = attempt,
             seen' = [threads |-> seen.threads \cup {t}, launches |-> seen.launches \cup {l}],
             Failed(e, <<"reviewer_acceptance", "semantic_contract_rejected">>)
      PROVE  Inv'
  <2>1. /\ Paid(e) /\ spent' \in [Evaluation -> Nat] /\ consumed' \in 0 .. total
        /\ \A g \in Evaluation : g # e => spent'[g] = spent[g]
    BY <1>2, <1>6, Consumes
  <2>2. /\ seen' \in [threads : SUBSET Thread, launches : SUBSET Launch]
        /\ seen.threads \subseteq seen'.threads /\ seen.launches \subseteq seen'.launches
    BY <1>2, <1>6, Remembers
  <2>3. adverse' \in [Evaluation -> BOOLEAN]
    BY <1>2, <1>6, Blames
  <2> DEFINE d == <<"reviewer_acceptance", "semantic_contract_rejected">>
  <2>4. d \in Diagnosis /\ StageFits(plan[e], session[e].life, d)
    BY <1>4
  <2>5. UNCHANGED <<plan, session, attempt, outcome, total, trouble>>
    BY <1>1, <1>6
  <2> HIDE DEF d
  <2> QED
    BY <1>1, <1>3, <1>6, <2>1, <2>2, <2>3, <2>4, <2>5, Fails DEF d
<1>7. CASE RunRejected(e, "reviewer_acceptance")
  <2> DEFINE d == <<"reviewer_acceptance", "worker_attempt_rejected">>
  <2>1. d \in Diagnosis /\ StageFits(plan[e], session[e].life, d)
    BY <1>4
  <2> QED
    BY <1>1, <1>3, <1>7, <2>1, RunFails
<1>8. CASE RunUnavailable(e, "reviewer_dispatch")
  <2>1. \A r \in DispatchReasons :
          /\ <<"reviewer_dispatch", r>> \in Diagnosis
          /\ StageFits(plan[e], session[e].life, <<"reviewer_dispatch", r>>)
    BY <1>4
  <2> QED
    BY <1>1, <1>3, <1>8, <2>1, RunFails
<1>9. \/ \E t \in Thread, l \in Launch, c \in CandidateLists, f \in BOOLEAN :
           /\ ~OffTarget(ReviewerResult(ReviewerTask, t, l, c, f))
           /\ RunAccepted(e, ReviewerResult(ReviewerTask, t, l, c, f), "reviewerResult")
      \/ \E t \in Thread, l \in Launch :
           /\ Remains /\ Consume(e) /\ Blame(e) /\ attempt' = attempt
           /\ seen' = [threads |-> seen.threads \cup {t}, launches |-> seen.launches \cup {l}]
           /\ Failed(e, <<"reviewer_acceptance", "semantic_contract_rejected">>)
      \/ RunRejected(e, "reviewer_acceptance")
      \/ RunUnavailable(e, "reviewer_dispatch")
  BY DEF RunReviewer
<1> QED
  BY <1>5, <1>6, <1>7, <1>8, <1>9

\* The answer that is about to be written.
LEMMA AnswerIs ==
  ASSUME Inv, NEW e \in Evaluation, NEW type, Answer(session[e], attempt[e], type),
         type \in {"reviewer_result", "verifier_result"}
  PROVE  /\ attempt[e] \in ResultArtifacts /\ attempt[e] \in Artifacts
         /\ attempt[e].thread \in seen.threads /\ attempt[e].launch \in seen.launches
<1>1. attempt[e] \in ResultArtifacts /\ attempt[e].type # "none"
  BY DEF Inv, Typed, Answer, NoResult
<1>2. attempt[e] \in Artifact(0)
  BY <1>1 DEF ResultArtifacts, Artifact, WorkArtifact
<1> QED
  BY <1>1, <1>2 DEF Inv, Known, KnownOf, Artifacts

LEMMA WriteReviewerResultInv ==
  ASSUME Inv, NEW e \in Evaluation, WriteReviewerResult(e) PROVE Inv'
<1> DEFINE a == attempt[e]
<1>1. pc[e] = "reviewerResult" /\ pc[e] # "end" /\ Write(e, a, "coverage")
  BY DEF WriteReviewerResult
<1>2. /\ outcome[e] = "none" /\ Own(e) /\ session[e] \in Session
      /\ AwaitReview(plan[e], session[e]) /\ spent[e] = 1
      /\ Answer(session[e], a, "reviewer_result") /\ ~OffTarget(a)
  BY <1>1, NotReturned DEF Own
<1>3. /\ a \in ResultArtifacts
      /\ a.thread \in seen.threads /\ a.launch \in seen.launches
  BY <1>2, AnswerIs
<1> HIDE DEF a
<1>4. /\ a \in Artifacts /\ Admits(plan[e], session[e].life, Len(session[e].ledger), a)
      /\ Judging(plan[e], Put(session[e], a))
      /\ Put(session[e], a).life.pending = NoTask /\ Put(session[e], a).life.verified = 0
  BY <1>2, <1>3, ReviewerResultWritten
<1>5. "coverage" \in Steps \ {"end", "recovery"} /\ Alive(session[e])
  BY <1>2 DEF Steps, AwaitReview, Reviewing, Running
<1>6. ASSUME pc'[e] = "coverage", session'[e] = Put(session[e], a),
             UNCHANGED <<plan, attempt, diagnosis, outcome, spent, backend>>
      PROVE  Own(e)'
  BY <1>2, <1>4, <1>6 DEF Own, Before
<1> QED
  BY <1>1, <1>2, <1>3, <1>4, <1>5, <1>6, Writes

LEMMA CoverageInv == ASSUME Inv, NEW e \in Evaluation, Coverage(e) PROVE Inv'
<1>1. pc[e] = "coverage" /\ pc[e] # "end"
  BY DEF Coverage
<1> DEFINE s == session[e]
           life == session[e].life
           next == AfterCandidate(e)
<1>2. /\ outcome[e] = "none" /\ Own(e) /\ s \in Session /\ Typed
      /\ Judging(plan[e], s) /\ life.pending = NoTask /\ life.verified = 0
      /\ spent[e] = 1 /\ Len(life.cands) \in Nat
  BY <1>1, NotReturned, LifeTyped DEF Own
<1>3. CASE life.covered /\ Checked(e, next)
  <2>1. next = IF life.verified < Len(life.cands) THEN "verifierPacket" ELSE "readback"
    BY DEF AfterCandidate, Life
  <2>2. next \in Steps \ {"end", "recovery"}
    BY <2>1 DEF Steps
  <2>3. ASSUME pc'[e] = next, UNCHANGED <<local, backend>> PROVE Own(e)'
    <3>1. /\ plan' = plan /\ session' = session /\ spent' = spent /\ outcome' = outcome
      BY <2>3 DEF local
    <3>2. CASE life.verified < Len(life.cands)
      BY <1>2, <1>3, <2>1, <2>3, <3>1, <3>2 DEF Own, Before
    <3>3. CASE ~(life.verified < Len(life.cands))
      <4>1. Len(life.cands) = 0
        BY <1>2, <3>3
      <4>2. Ready(plan[e], s)
        BY <1>2, <1>3, <4>1 DEF Ready, Judging, AllVerified
      <4>3. Expected(e) = 1 /\ Expected(e)' = 1
        BY <1>2, <3>1, <4>1 DEF Expected, ExpectedAttempts, Judging, Life
      <4> QED
        BY <1>2, <2>1, <2>3, <3>1, <3>3, <4>2, <4>3 DEF Own, Before
    <3> QED
      BY <3>2, <3>3
  <2> HIDE DEF next
  <2> QED
    BY <1>2, <1>3, <2>2, <2>3, Checks
<1>4. CASE /\ ~life.covered
           /\ Failed(e, <<"reviewer_acceptance", "coverage_accounting_failed">>)
           /\ Blame(e)
           /\ UNCHANGED <<plan, session, attempt, outcome, spent, backend, trouble>>
  <2> DEFINE d == <<"reviewer_acceptance", "coverage_accounting_failed">>
  <2>1. d \in Diagnosis
    BY DEF Diagnosis
  <2>2. StageFits(plan[e], life, d)
    BY <1>2, <1>4 DEF StageFits, Judging
  <2>3. adverse' \in [Evaluation -> BOOLEAN]
    BY <1>2, <1>4, Blames
  <2> QED
    BY <1>1, <1>2, <1>4, <2>1, <2>2, <2>3, FailsQuietly DEF Judging
<1>5. CASE CheckFails(e)
  BY <1>2, <1>5, FailsCheck
<1> QED
  BY <1>3, <1>4, <1>5 DEF Coverage, Life

LEMMA VerifierPacketInv == ASSUME Inv, NEW e \in Evaluation, VerifierPacketStep(e) PROVE Inv'
<1> DEFINE s == session[e]
           a == RolePacket("verifier_packet", NextTask(e))
<1>1. pc[e] = "verifierPacket" /\ pc[e] # "end"
  BY DEF VerifierPacketStep
<1>2. /\ outcome[e] = "none" /\ Own(e) /\ s \in Session /\ Typed
      /\ Judging(plan[e], s) /\ s.life.covered /\ s.life.pending = NoTask
      /\ s.life.verified < Len(s.life.cands) /\ spent[e] = 1 + s.life.verified
  BY <1>1, NotReturned DEF Own
<1>3. Running(s) /\ Alive(s) /\ plan[e].reviewable /\ s.life.reviewed
  BY <1>2 DEF Judging, Running
<1>4. CASE Write(e, a, "runVerifier")
  <2>1. "runVerifier" \in Steps \ {"end", "recovery"}
    BY DEF Steps
  <2>2. /\ a \in Artifacts /\ Admits(plan[e], s.life, Len(s.ledger), a)
        /\ AwaitVerdict(plan[e], Put(s, a)) /\ Sent(Put(s, a))
        /\ Put(s, a).life.verified = s.life.verified
    BY <1>2, VerifierPacketWritten DEF NextTask, Life
  <2>3. a.type \notin {"reviewer_result", "verifier_result"}
    BY Types
  <2> HIDE DEF a
  <2>4. ASSUME pc'[e] = "runVerifier", session'[e] = Put(s, a),
               UNCHANGED <<plan, attempt, diagnosis, outcome, spent, backend>>
        PROVE  Own(e)'
    BY <1>2, <2>2, <2>4 DEF Own, Before
  <2> QED
    BY <1>2, <1>3, <1>4, <2>1, <2>2, <2>3, <2>4, Writes
<1>5. CASE /\ Failed(e, <<"verifier_acceptance", "semantic_contract_rejected">>)
           /\ Blame(e)
           /\ UNCHANGED <<plan, session, attempt, outcome, spent, backend, trouble>>
  <2> DEFINE d == <<"verifier_acceptance", "semantic_contract_rejected">>
  <2>1. d \in Diagnosis
    BY DEF Diagnosis
  <2>2. StageFits(plan[e], s.life, d)
    BY <1>2, <1>3 DEF StageFits
  <2>3. adverse' \in [Evaluation -> BOOLEAN]
    BY <1>2, <1>5, Blames
  <2> QED
    BY <1>1, <1>3, <1>5, <2>1, <2>2, <2>3, FailsQuietly
<1> QED
  BY <1>4, <1>5 DEF VerifierPacketStep

LEMMA RunVerifierInv == ASSUME Inv, NEW e \in Evaluation, RunVerifier(e) PROVE Inv'
<1>1. /\ pc[e] = "runVerifier" /\ pc[e] # "end"
      /\ UNCHANGED <<plan, session, outcome, total, trouble>>
      /\ plan' = plan /\ session' = session /\ outcome' = outcome
  BY DEF RunVerifier
<1> DEFINE life == session[e].life
<1>2. /\ outcome[e] = "none" /\ Own(e) /\ Typed
      /\ AwaitVerdict(plan[e], session[e]) /\ Sent(session[e])
      /\ spent[e] = 1 + life.verified
      /\ life.verified \in Nat /\ Len(life.cands) \in Nat /\ life.cands \in CandidateLists
  BY <1>1, NotReturned, LifeTyped DEF Own
<1>3. Running(session[e])
  BY <1>2 DEF AwaitVerdict, Judging
<1>4. ASSUME NEW d, d \in {"verifier_dispatch"} \X DispatchReasons
                    \/ d = <<"verifier_acceptance", "worker_attempt_rejected">>
      PROVE  d \in Diagnosis /\ StageFits(plan[e], life, d)
  <2>1. d \in Diagnosis
    BY <1>4 DEF Diagnosis
  <2>2. StageFits(plan[e], life, d)
    BY <1>2, <1>4, Roles DEF StageFits, AwaitVerdict, Judging
  <2> QED
    BY <2>1, <2>2
<1>5. ASSUME NEW t \in Thread, NEW l \in Launch, NEW d \in Disposition,
             RunAccepted(e, VerifierResult(NextTask(e), t, l, d), "verifierResult")
      PROVE  Inv'
  <2> DEFINE k == NextTask(e)
             a == VerifierResult(k, t, l, d)
  <2>1. k = life.pending /\ k \in Task \ {ReviewerTask}
    <3>1. life.verified + 1 \in 1 .. Len(life.cands)
      BY <1>2 DEF AwaitVerdict
    <3> QED
      BY <1>2, <3>1, InstanceIsTask DEF NextTask, Life, AwaitVerdict
  <2>2. a \in ResultArtifacts /\ a.type = "verifier_result" /\ a.task = k
    BY <2>1, Types DEF ResultArtifacts
  <2>3. "verifierResult" \in Steps \ {"end", "recovery"}
    BY DEF Steps
  <2>4. RunAccepted(e, a, "verifierResult")
    BY <1>5
  <2> HIDE DEF a, k
  <2>5. ASSUME pc'[e] = "verifierResult", attempt'[e] = a, spent'[e] = spent[e] + 1,
               a.thread \notin session[e].life.threads,
               a.launch \notin session[e].life.launches
        PROVE  Own(e)'
    <3>1. Answer(session[e], a, "verifier_result") /\ spent'[e] = 2 + life.verified
      BY <1>2, <2>1, <2>2, <2>5 DEF Answer
    <3> QED
      BY <1>1, <1>2, <2>5, <3>1 DEF Own, Before
  <2> QED
    BY <1>1, <2>2, <2>3, <2>4, <2>5, Runs
<1>6. CASE RunRejected(e, "verifier_acceptance")
  <2> DEFINE d == <<"verifier_acceptance", "worker_attempt_rejected">>
  <2>1. d \in Diagnosis /\ StageFits(plan[e], life, d)
    BY <1>4
  <2> QED
    BY <1>1, <1>3, <1>6, <2>1, RunFails
<1>7. CASE RunUnavailable(e, "verifier_dispatch")
  <2>1. \A r \in DispatchReasons :
          /\ <<"verifier_dispatch", r>> \in Diagnosis
          /\ StageFits(plan[e], life, <<"verifier_dispatch", r>>)
    BY <1>4
  <2> QED
    BY <1>1, <1>3, <1>7, <2>1, RunFails
<1> QED
  BY <1>5, <1>6, <1>7 DEF RunVerifier

LEMMA WriteVerifierResultInv ==
  ASSUME Inv, NEW e \in Evaluation, WriteVerifierResult(e) PROVE Inv'
<1> DEFINE a == attempt[e]
           s == session[e]
           u == Put(s, a)
           next == IF s.life.verified + 1 < Len(s.life.cands)
                   THEN "verifierPacket" ELSE "readback"
<1>1. pc[e] = "verifierResult" /\ pc[e] # "end" /\ Write(e, a, next)
  BY DEF WriteVerifierResult, Life
<1>2. /\ outcome[e] = "none" /\ Own(e) /\ s \in Session
      /\ AwaitVerdict(plan[e], s) /\ spent[e] = 2 + s.life.verified
      /\ Answer(s, a, "verifier_result")
      /\ s.life.verified \in Nat /\ Len(s.life.cands) \in Nat
  BY <1>1, NotReturned, LifeTyped DEF Own
<1>3. /\ a \in ResultArtifacts
      /\ a.thread \in seen.threads /\ a.launch \in seen.launches
  BY <1>2, AnswerIs
<1> HIDE DEF a
<1>4. /\ a \in Artifacts /\ Admits(plan[e], s.life, Len(s.ledger), a)
      /\ u.life.verified = s.life.verified + 1 /\ u.life.cands = s.life.cands
      /\ u.life.verified < Len(u.life.cands) =>
           Judging(plan[e], u) /\ u.life.covered /\ u.life.pending = NoTask
      /\ ~(u.life.verified < Len(u.life.cands)) => Ready(plan[e], u)
  BY <1>2, <1>3, VerifierResultWritten
<1>5. next \in Steps \ {"end", "recovery"} /\ Alive(s)
  BY <1>2 DEF Steps, AwaitVerdict, Judging, Running
<1>6. ASSUME pc'[e] = next, session'[e] = u,
             UNCHANGED <<plan, attempt, diagnosis, outcome, spent, backend>>
      PROVE  Own(e)'
  <2>1. CASE s.life.verified + 1 < Len(s.life.cands)
    <3>1. spent[e] = 1 + u.life.verified
      BY <1>2, <1>4
    <3> HIDE DEF u
    <3> QED
      BY <1>2, <1>4, <1>6, <2>1, <3>1 DEF Own, Before
  <2>2. CASE ~(s.life.verified + 1 < Len(s.life.cands))
    <3>1. Ready(plan[e], u) /\ plan[e].reviewable
      BY <1>2, <1>4, <2>2 DEF AwaitVerdict, Judging
    <3>2. u.life.verified = Len(u.life.cands)
      BY <3>1 DEF Ready, AllVerified
    <3>3. Expected(e)' = spent[e]
      <4>1. Expected(e)' = 1 + Len(u.life.cands)
        BY <1>6, <3>1 DEF Expected, ExpectedAttempts, Life
      <4> QED
        BY <1>2, <1>4, <3>2, <4>1
    <3> HIDE DEF u
    <3> QED
      BY <1>2, <1>6, <2>2, <3>1, <3>3 DEF Own, Before
  <2> QED
    BY <2>1, <2>2
<1> HIDE DEF next
<1> QED
  BY <1>1, <1>2, <1>3, <1>4, <1>5, <1>6, Writes

-----------------------------------------------------------------------------
(* The completion gate *)

\* A session for which all is done may fail at the gate.
LEMMA GateFits ==
  ASSUME NEW pl, NEW s, Ready(pl, s), NEW r \in GateReasons
  PROVE  /\ <<"completion_gate", r>> \in Diagnosis
         /\ StageFits(pl, s.life, <<"completion_gate", r>>)
         /\ Running(s)
<1>1. <<"completion_gate", r>> \in {"completion_gate"} \X GateReasons
  OBVIOUS
<1>2. <<"completion_gate", r>> \in Diagnosis
  BY <1>1 DEF Diagnosis
<1>3. StageFits(pl, s.life, <<"completion_gate", r>>)
  BY <1>1 DEF StageFits, Ready
<1> QED
  BY <1>2, <1>3 DEF Ready

LEMMA ReadbackInv == ASSUME Inv, NEW e \in Evaluation, Readback(e) PROVE Inv'
<1>1. pc[e] = "readback" /\ pc[e] # "end" /\ Checked(e, "gate")
  BY DEF Readback
<1>2. /\ outcome[e] = "none" /\ Own(e) /\ Ready(plan[e], session[e])
      /\ spent[e] = Expected(e)
  BY <1>1, NotReturned DEF Own
<1>3. "gate" \in Steps \ {"end", "recovery"}
  BY DEF Steps
<1>4. ASSUME pc'[e] = "gate", UNCHANGED <<local, backend>> PROVE Own(e)'
  <2>1. plan' = plan /\ session' = session /\ spent' = spent /\ outcome' = outcome
    BY <1>4 DEF local
  <2>2. Expected(e)' = Expected(e)
    BY <2>1 DEF Expected, Life
  <2> QED
    BY <1>2, <1>4, <2>1, <2>2 DEF Own, Before
<1> QED
  BY <1>1, <1>2, <1>3, <1>4, Checks

LEMMA GateInv == ASSUME Inv, NEW e \in Evaluation, Gate(e) PROVE Inv'
<1>1. /\ pc[e] = "gate" /\ pc[e] # "end"
      /\ UNCHANGED <<plan, session, attempt, outcome, spent, backend, trouble>>
      /\ plan' = plan /\ session' = session /\ outcome' = outcome /\ spent' = spent
      /\ total' = total /\ consumed' = consumed
  BY DEF Gate, backend
<1>2. /\ outcome[e] = "none" /\ Own(e) /\ Typed /\ Ready(plan[e], session[e])
      /\ spent[e] = Expected(e)
  BY <1>1, NotReturned DEF Own
<1>3. CASE /\ total = Expected(e) /\ consumed = Expected(e)
           /\ Goto(e, "project") /\ UNCHANGED <<diagnosis, adverse>>
  <2>1. "project" \in Steps \ {"end", "recovery"}
    BY DEF Steps
  <2>2. ASSUME pc'[e] = "project" PROVE Own(e)'
    <3>1. Expected(e)' = Expected(e)
      BY <1>1 DEF Expected, Life
    <3> QED
      BY <1>1, <1>2, <1>3, <2>2, <3>1 DEF Own, Before
  <2>3. /\ plan' \in [Evaluation -> Plan] /\ adverse' \in [Evaluation -> BOOLEAN]
        /\ diagnosis' \in [Evaluation -> Diagnosis \cup {NoDiagnosis}]
        /\ diagnosis' = diagnosis
    BY <1>1, <1>2, <1>3 DEF Typed
  <2> QED
    BY <1>1, <1>3, <2>1, <2>2, <2>3, Moves
<1>4. ASSUME NEW r \in GateReasons, Failed(e, <<"completion_gate", r>>),
             adverse' \in [Evaluation -> BOOLEAN]
      PROVE  Inv'
  <2> DEFINE d == <<"completion_gate", r>>
  <2>1. d \in Diagnosis /\ StageFits(plan[e], session[e].life, d) /\ Running(session[e])
    BY <1>2, GateFits
  <2> QED
    BY <1>1, <1>4, <2>1, FailsQuietly
<1>5. CASE /\ Failed(e, <<"completion_gate",
                          IF consumed < total THEN "scripted_attempts_leftover"
                          ELSE "scripted_attempt_accounting_mismatch">>)
           /\ adverse' = [adverse EXCEPT ![e] = @ \/ total # spent[e] \/ consumed # spent[e]]
  <2>1. adverse' \in [Evaluation -> BOOLEAN]
    BY <1>2, <1>5 DEF Typed
  <2>2. CASE consumed < total
    BY <1>4, <1>5, <2>1, <2>2 DEF GateReasons
  <2>3. CASE ~(consumed < total)
    BY <1>4, <1>5, <2>1, <2>3 DEF GateReasons
  <2> QED
    BY <2>2, <2>3
<1>6. CASE /\ Failed(e, <<"completion_gate", "scripted_attempt_accounting_mismatch">>)
           /\ Blame(e)
  <2>1. adverse' \in [Evaluation -> BOOLEAN]
    BY <1>2, <1>6, Blames
  <2> QED
    BY <1>4, <1>6, <2>1 DEF GateReasons
<1> QED
  BY <1>3, <1>5, <1>6 DEF Gate

LEMMA ProjectInv == ASSUME Inv, NEW e \in Evaluation, Project(e) PROVE Inv'
<1>1. /\ pc[e] = "project" /\ pc[e] # "end"
      /\ UNCHANGED <<plan, session, attempt, outcome, spent, backend, trouble>>
      /\ plan' = plan /\ session' = session /\ outcome' = outcome /\ spent' = spent
      /\ total' = total /\ consumed' = consumed
  BY DEF Project, backend
<1>2. /\ outcome[e] = "none" /\ Own(e) /\ Typed /\ Ready(plan[e], session[e])
      /\ spent[e] = Expected(e) /\ consumed = total /\ total = Expected(e)
      /\ session[e] \in Session
  BY <1>1, NotReturned DEF Own
<1>3. CASE Projects(plan[e], Life(e)) /\ Goto(e, "completion") /\ UNCHANGED <<diagnosis, adverse>>
  <2>1. "completion" \in Steps \ {"end", "recovery"}
    BY DEF Steps
  <2>2. plan[e].attempts = total /\ Answered(Life(e)) = total
    <3>1. plan[e].attempts = Expected(e)
      BY <1>3 DEF Projects, Expected
    <3>2. Answered(Life(e)) = Expected(e)
      <4>1. CASE plan[e].reviewable
        <5>1. Life(e).reviewed /\ Life(e).verified = Len(Life(e).cands)
          BY <1>2, <4>1 DEF Ready, AllVerified, Life
        <5>2. Len(Life(e).cands) \in Nat
          BY <1>2, LifeTyped DEF Life
        <5> QED
          BY <4>1, <5>1, <5>2 DEF Answered, Expected, ExpectedAttempts
      <4>2. CASE ~plan[e].reviewable
        BY <1>2, <4>2 DEF Answered, Expected, ExpectedAttempts, Ready, Life
      <4> QED
        BY <4>1, <4>2
    <3> QED
      BY <1>2, <3>1, <3>2
  <2>3. Exact(e)
    BY <1>2, <2>2 DEF Exact
  <2>4. ASSUME pc'[e] = "completion" PROVE Own(e)'
    <3>1. Exact(e)' /\ Projects(plan[e], session[e].life)
      BY <1>1, <1>3, <2>3 DEF Exact, Life
    <3> QED
      BY <1>1, <1>2, <2>4, <3>1 DEF Own, Before
  <2>5. /\ plan' \in [Evaluation -> Plan] /\ adverse' \in [Evaluation -> BOOLEAN]
        /\ diagnosis' \in [Evaluation -> Diagnosis \cup {NoDiagnosis}]
        /\ diagnosis' = diagnosis
    BY <1>1, <1>2, <1>3 DEF Typed
  <2> QED
    BY <1>1, <1>3, <2>1, <2>4, <2>5, Moves
<1>4. CASE /\ Failed(e, <<"completion_gate", "completion_projection_rejected">>)
           /\ Blame(e)
  <2> DEFINE d == <<"completion_gate", "completion_projection_rejected">>
  <2>1. "completion_projection_rejected" \in GateReasons
    BY DEF GateReasons
  <2>2. d \in Diagnosis /\ StageFits(plan[e], session[e].life, d) /\ Running(session[e])
    BY <1>2, <2>1, GateFits
  <2>3. adverse' \in [Evaluation -> BOOLEAN]
    BY <1>2, <1>4, Blames
  <2> QED
    BY <1>1, <1>4, <2>2, <2>3, FailsQuietly
<1> QED
  BY <1>3, <1>4 DEF Project

LEMMA WriteCompletionInv == ASSUME Inv, NEW e \in Evaluation, WriteCompletion(e) PROVE Inv'
<1> DEFINE s == session[e]
           a == Completion(Verdict(plan[e], s.life.dispositions), 1 .. Len(s.ledger))
           u == Put(s, a)
<1>1. pc[e] = "completion" /\ pc[e] # "end" /\ Write(e, a, "readCompletion")
  BY DEF WriteCompletion, Life, Size
<1>2. /\ outcome[e] = "none" /\ Own(e) /\ s \in Session /\ plan[e] \in Plan
      /\ Ready(plan[e], s) /\ Projects(plan[e], s.life) /\ Exact(e)
  BY <1>1, NotReturned DEF Own
<1>3. /\ a \in Artifacts /\ Admits(plan[e], s.life, Len(s.ledger), a)
      /\ Concluded(u, TheCompletion(plan[e], u, Len(u.ledger) - 1))
      /\ Answered(u.life) = Answered(s.life)
  BY <1>2, CompletionWritten
<1>4. a.type \notin {"reviewer_result", "verifier_result"}
  BY Types
<1>5. "readCompletion" \in Steps \ {"end", "recovery"} /\ Alive(s)
  BY <1>2 DEF Steps, Ready, Running
<1> HIDE DEF a
<1>6. ASSUME pc'[e] = "readCompletion", session'[e] = u,
             UNCHANGED <<plan, attempt, diagnosis, outcome, spent, backend>>
      PROVE  Own(e)'
  <2>1. Exact(e)'
    BY <1>2, <1>3, <1>6 DEF Exact, Life, backend
  <2> HIDE DEF u
  <2> QED
    BY <1>2, <1>3, <1>6, <2>1 DEF Own, Before
<1> QED
  BY <1>1, <1>2, <1>3, <1>4, <1>5, <1>6, Writes

LEMMA ReadCompletionInv == ASSUME Inv, NEW e \in Evaluation, ReadCompletion(e) PROVE Inv'
<1>1. pc[e] = "readCompletion" /\ pc[e] # "end" /\ Checked(e, "report")
  BY DEF ReadCompletion
<1>2. /\ outcome[e] = "none" /\ Own(e) /\ Exact(e)
      /\ Concluded(session[e], TheCompletion(plan[e], session[e], Len(session[e].ledger) - 1))
  BY <1>1, NotReturned DEF Own
<1>3. "report" \in Steps \ {"end", "recovery"}
  BY DEF Steps
<1>4. ASSUME pc'[e] = "report", UNCHANGED <<local, backend>> PROVE Own(e)'
  <2>1. /\ plan' = plan /\ session' = session /\ spent' = spent /\ outcome' = outcome
        /\ total' = total /\ consumed' = consumed
    BY <1>4 DEF local, backend
  <2>2. Exact(e)'
    BY <1>2, <2>1 DEF Exact, Life
  <2> QED
    BY <1>2, <1>4, <2>1, <2>2 DEF Own, Before
<1> QED
  BY <1>1, <1>2, <1>3, <1>4, Checks

LEMMA WriteReportInv == ASSUME Inv, NEW e \in Evaluation, WriteReport(e) PROVE Inv'
<1> DEFINE s == session[e]
           n == Len(s.ledger)
           r == Report("evaluation_report", n)
           u == Put(s, r)
           a == TheCompletion(plan[e], s, n - 1)
<1>1. pc[e] = "report" /\ pc[e] # "end" /\ Write(e, r, "readReport")
  BY DEF WriteReport, Size
<1>2. /\ outcome[e] = "none" /\ Own(e) /\ s \in Session
      /\ Concluded(s, a) /\ Exact(e)
  BY <1>1, NotReturned DEF Own
<1>3. a.type = "evaluation_completion" /\ ReportOf(a.type) = "evaluation_report"
  BY Types DEF TheCompletion, ReportOf
<1>4. /\ r \in Artifacts /\ Admits(plan[e], s.life, n, r)
      /\ Reported(u, a) /\ Len(u.ledger) - 2 = n - 1
      /\ u.life.dispositions = s.life.dispositions
      /\ Answered(u.life) = Answered(s.life)
  <2> HIDE DEF a
  <2> QED
    BY <1>2, <1>3, ReportWritten
<1>5. Reported(u, TheCompletion(plan[e], u, Len(u.ledger) - 2))
  BY <1>4 DEF TheCompletion
<1>6. r.type \notin {"reviewer_result", "verifier_result"}
  BY Types
<1>7. "readReport" \in Steps \ {"end", "recovery"} /\ Alive(s)
  BY <1>2 DEF Steps, Concluded
<1> HIDE DEF r, a
<1>8. ASSUME pc'[e] = "readReport", session'[e] = u,
             UNCHANGED <<plan, attempt, diagnosis, outcome, spent, backend>>
      PROVE  Own(e)'
  <2>1. Exact(e)'
    BY <1>2, <1>4, <1>8 DEF Exact, Life, backend
  <2> HIDE DEF u
  <2> QED
    BY <1>2, <1>5, <1>8, <2>1 DEF Own, Before
<1> QED
  BY <1>1, <1>2, <1>4, <1>6, <1>7, <1>8, Writes

LEMMA ReadReportInv == ASSUME Inv, NEW e \in Evaluation, ReadReport(e) PROVE Inv'
<1>1. pc[e] = "readReport" /\ pc[e] # "end" /\ Checked(e, "view")
  BY DEF ReadReport
<1>2. /\ outcome[e] = "none" /\ Own(e) /\ Exact(e)
      /\ Reported(session[e], TheCompletion(plan[e], session[e], Len(session[e].ledger) - 2))
  BY <1>1, NotReturned DEF Own
<1>3. "view" \in Steps \ {"end", "recovery"}
  BY DEF Steps
<1>4. ASSUME pc'[e] = "view", UNCHANGED <<local, backend>> PROVE Own(e)'
  <2>1. /\ plan' = plan /\ session' = session /\ spent' = spent /\ outcome' = outcome
        /\ total' = total /\ consumed' = consumed
    BY <1>4 DEF local, backend
  <2>2. Exact(e)'
    BY <1>2, <2>1 DEF Exact, Life
  <2> QED
    BY <1>2, <1>4, <2>1, <2>2 DEF Own, Before
<1> QED
  BY <1>1, <1>2, <1>3, <1>4, Checks

-----------------------------------------------------------------------------
(* Endings *)

LEMMA FailureInv == ASSUME Inv, NEW e \in Evaluation, Failure(e) PROVE Inv'
<1>1. pc[e] = "failure" /\ pc[e] # "end" /\ Checked(e, "diagnostic")
  BY DEF Failure
<1>2. /\ outcome[e] = "none" /\ Own(e) /\ Running(session[e])
      /\ StageFits(plan[e], session[e].life, diagnosis[e])
  BY <1>1, NotReturned DEF Own
<1>3. "diagnostic" \in Steps \ {"end", "recovery"}
  BY DEF Steps
<1>4. ASSUME pc'[e] = "diagnostic", UNCHANGED <<local, backend>> PROVE Own(e)'
  <2>1. plan' = plan /\ session' = session /\ diagnosis' = diagnosis /\ outcome' = outcome
    BY <1>4 DEF local
  <2> QED
    BY <1>2, <1>4, <2>1 DEF Own, Before
<1> QED
  BY <1>1, <1>2, <1>3, <1>4, Checks

LEMMA WriteDiagnosticInv == ASSUME Inv, NEW e \in Evaluation, WriteDiagnostic(e) PROVE Inv'
<1> DEFINE s == session[e]
           d == diagnosis[e]
           a == Diagnostic(d, 1 .. Len(s.ledger))
           u == Put(s, a)
<1>1. pc[e] = "diagnostic" /\ pc[e] # "end" /\ Write(e, a, "readDiagnostic")
  BY DEF WriteDiagnostic, Size
<1>2. /\ outcome[e] = "none" /\ Own(e) /\ s \in Session /\ Typed
      /\ Running(s) /\ StageFits(plan[e], s.life, d)
  BY <1>1, NotReturned DEF Own
<1>3. d \in Diagnosis
  <2>1. d # NoDiagnosis
    BY <1>2 DEF StageFits, NoDiagnosis
  <2> QED
    BY <1>2, <2>1 DEF Typed
<1>4. /\ a \in Artifacts /\ Admits(plan[e], s.life, Len(s.ledger), a)
      /\ Concluded(u, Diagnostic(d, 1 .. (Len(u.ledger) - 1)))
  BY <1>2, <1>3, DiagnosticWritten
<1>5. a.type \notin {"reviewer_result", "verifier_result"}
  BY Types
<1>6. "readDiagnostic" \in Steps \ {"end", "recovery"} /\ Alive(s)
  BY <1>2 DEF Steps, Running
<1> HIDE DEF a
<1>7. ASSUME pc'[e] = "readDiagnostic", session'[e] = u,
             UNCHANGED <<plan, attempt, diagnosis, outcome, spent, backend>>
      PROVE  Own(e)'
  <2>1. diagnosis'[e] = d
    BY <1>7
  <2> HIDE DEF u, d
  <2> QED
    BY <1>2, <1>4, <1>7, <2>1 DEF Own, Before
<1> QED
  BY <1>1, <1>2, <1>4, <1>5, <1>6, <1>7, Writes

LEMMA ReadDiagnosticInv == ASSUME Inv, NEW e \in Evaluation, ReadDiagnostic(e) PROVE Inv'
<1>1. pc[e] = "readDiagnostic" /\ pc[e] # "end" /\ Checked(e, "diagnosticReport")
  BY DEF ReadDiagnostic
<1>2. /\ outcome[e] = "none" /\ Own(e)
      /\ Concluded(session[e], Diagnostic(diagnosis[e], 1 .. (Len(session[e].ledger) - 1)))
  BY <1>1, NotReturned DEF Own
<1>3. "diagnosticReport" \in Steps \ {"end", "recovery"}
  BY DEF Steps
<1>4. ASSUME pc'[e] = "diagnosticReport", UNCHANGED <<local, backend>> PROVE Own(e)'
  <2>1. plan' = plan /\ session' = session /\ diagnosis' = diagnosis /\ outcome' = outcome
    BY <1>4 DEF local
  <2> QED
    BY <1>2, <1>4, <2>1 DEF Own, Before
<1> QED
  BY <1>1, <1>2, <1>3, <1>4, Checks

LEMMA WriteDiagnosticReportInv ==
  ASSUME Inv, NEW e \in Evaluation, WriteDiagnosticReport(e) PROVE Inv'
<1> DEFINE s == session[e]
           n == Len(s.ledger)
           r == Report("diagnostic_report", n)
           u == Put(s, r)
           a == Diagnostic(diagnosis[e], 1 .. (n - 1))
<1>1. pc[e] = "diagnosticReport" /\ pc[e] # "end" /\ Write(e, r, "readDiagnosticReport")
  BY DEF WriteDiagnosticReport, Size
<1>2. outcome[e] = "none" /\ Own(e) /\ s \in Session /\ Concluded(s, a)
  BY <1>1, NotReturned DEF Own
<1>3. a.type = "diagnostic" /\ ReportOf(a.type) = "diagnostic_report"
  BY Types DEF ReportOf
<1>4. /\ r \in Artifacts /\ Admits(plan[e], s.life, n, r)
      /\ Reported(u, a) /\ Len(u.ledger) - 2 = n - 1
  <2> HIDE DEF a
  <2> QED
    BY <1>2, <1>3, ReportWritten
<1>5. Reported(u, Diagnostic(diagnosis[e], 1 .. (Len(u.ledger) - 2)))
  BY <1>4
<1>6. r.type \notin {"reviewer_result", "verifier_result"}
  BY Types
<1>7. "readDiagnosticReport" \in Steps \ {"end", "recovery"} /\ Alive(s)
  BY <1>2 DEF Steps, Concluded
<1> HIDE DEF r, a
<1>8. ASSUME pc'[e] = "readDiagnosticReport", session'[e] = u,
             UNCHANGED <<plan, attempt, diagnosis, outcome, spent, backend>>
      PROVE  Own(e)'
  <2>1. diagnosis'[e] = diagnosis[e]
    BY <1>8
  <2> HIDE DEF u
  <2> QED
    BY <1>2, <1>5, <1>8, <2>1 DEF Own, Before
<1> QED
  BY <1>1, <1>2, <1>4, <1>6, <1>7, <1>8, Writes

LEMMA ReadDiagnosticReportInv ==
  ASSUME Inv, NEW e \in Evaluation, ReadDiagnosticReport(e) PROVE Inv'
<1>1. pc[e] = "readDiagnosticReport" /\ pc[e] # "end" /\ Checked(e, "diagnosticView")
  BY DEF ReadDiagnosticReport
<1>2. /\ outcome[e] = "none" /\ Own(e)
      /\ Reported(session[e], Diagnostic(diagnosis[e], 1 .. (Len(session[e].ledger) - 2)))
  BY <1>1, NotReturned DEF Own
<1>3. "diagnosticView" \in Steps \ {"end", "recovery"}
  BY DEF Steps
<1>4. ASSUME pc'[e] = "diagnosticView", UNCHANGED <<local, backend>> PROVE Own(e)'
  <2>1. plan' = plan /\ session' = session /\ diagnosis' = diagnosis /\ outcome' = outcome
    BY <1>4 DEF local
  <2> QED
    BY <1>2, <1>4, <2>1 DEF Own, Before
<1> QED
  BY <1>1, <1>2, <1>3, <1>4, Checks

LEMMA EndInv == ASSUME Inv, NEW e \in Evaluation, End(e) PROVE Inv'
<1>1. /\ pc[e] \in {"view", "diagnosticView", "blocked", "recovery"} /\ pc[e] # "end"
      /\ Goto(e, "end")
      /\ UNCHANGED <<plan, session, attempt, diagnosis, spent, backend>>
      /\ plan' = plan /\ session' = session /\ diagnosis' = diagnosis /\ spent' = spent
      /\ total' = total /\ consumed' = consumed
  BY DEF End, Endings, backend
<1>2. /\ outcome[e] = "none" /\ Own(e) /\ Typed /\ FaultOf(e)
      /\ trouble \in 0 .. MaxTrouble /\ trouble >= trouble
  BY <1>1, NotReturned, EvaluationAssumption DEF Typed
<1>3. CASE outcome' = [outcome EXCEPT ![e] = Endings[pc[e]]] /\ UNCHANGED <<adverse, trouble>>
  <2> DEFINE o == Endings[pc[e]]
  <2>1. /\ pc[e] = "view" => o = "completed"
        /\ pc[e] = "diagnosticView" => o = "diagnosed"
        /\ pc[e] = "blocked" => o = "blocked"
        /\ pc[e] = "recovery" => o = "recovered"
    BY DEF Endings
  <2>2. o \in {"completed", "diagnosed", "blocked", "recovered", "raised"}
    BY <1>1, <2>1
  <2>3. o = "recovered" => trouble > 0
    BY <1>1, <1>2, <2>1 DEF FaultOf
  <2>4. adverse' \in [Evaluation -> BOOLEAN] /\ trouble' \in 0 .. MaxTrouble
        /\ trouble' >= trouble
    BY <1>2, <1>3 DEF Typed
  <2>5. outcome' = [outcome EXCEPT ![e] = o]
    BY <1>3
  <2> HIDE DEF o
  <2>6. ASSUME pc'[e] = "end", outcome'[e] = o PROVE Own(e)'
    <3>1. Exact(e) => Exact(e)'
      BY <1>1 DEF Exact, Life
    <3>2. CASE pc[e] = "view"
      BY <1>1, <1>2, <2>1, <2>6, <3>1, <3>2 DEF Own, Before
    <3>3. CASE pc[e] = "diagnosticView"
      BY <1>1, <1>2, <2>1, <2>6, <3>3 DEF Own, Before
    <3>4. CASE pc[e] = "blocked"
      BY <1>1, <1>2, <2>1, <2>6, <3>4 DEF Own, Before
    <3>5. CASE pc[e] = "recovery"
      BY <2>1, <2>6, <3>5 DEF Own, Before
    <3> QED
      BY <1>1, <3>2, <3>3, <3>4, <3>5
  <2> QED
    BY <1>1, <2>2, <2>3, <2>4, <2>5, <2>6, Returns
<1>4. CASE Trouble /\ Blame(e) /\ outcome' = [outcome EXCEPT ![e] = "raised"]
  <2>1. trouble' \in 0 .. MaxTrouble /\ trouble' >= trouble
    BY <1>2, <1>4, Troubles
  <2> QED
    BY <1>1, <1>4, <2>1, Raises
<1> QED
  BY <1>3, <1>4 DEF End

\* A damaged session still holds what it held.
LEMMA CorruptInv == ASSUME Inv, NEW e \in Evaluation, Corrupt(e) PROVE Inv'
<1>1. /\ session[e].health = "sound" /\ outcome[e] = "none" /\ Trouble /\ Blame(e)
      /\ session' = [session EXCEPT ![e].health = "broken"]
      /\ pc' = pc /\ plan' = plan /\ attempt' = attempt /\ diagnosis' = diagnosis
      /\ outcome' = outcome /\ spent' = spent
      /\ total' = total /\ consumed' = consumed /\ seen' = seen
  BY DEF Corrupt, backend
<1>2. /\ Typed /\ Own(e) /\ Balanced(session[e]) /\ KnownOf(e) /\ FinishedOf(e)
      /\ session[e] \in Session /\ outcome[e] # "blocked"
  BY <1>1 DEF Inv, Typed, Books, Known, Finished
<1> DEFINE s == session[e]
           u == session'[e]
<1>3. /\ session' \in [Evaluation -> Session]
      /\ \A f \in Evaluation : f # e => session'[f] = session[f]
      /\ u.ledger = s.ledger /\ u.life = s.life /\ u.health = "broken"
  BY <1>1, <1>2 DEF Typed, Session
<1>4. trouble' \in 0 .. MaxTrouble /\ trouble' >= trouble /\ trouble' > 0
  BY <1>1, <1>2, Troubles
<1>5. adverse' \in [Evaluation -> BOOLEAN]
  BY <1>1, <1>2, Blames
<1>6. Typed'
  BY <1>1, <1>2, <1>3, <1>4, <1>5 DEF Typed
<1>7. \A f \in Evaluation : f # e => Local(f)' = Local(f)
  BY <1>1, <1>3 DEF Local
<1>8. Balanced(session[e])' /\ KnownOf(e)' /\ FaultOf(e)' /\ FinishedOf(e)' /\ Paid(e)
  BY <1>1, <1>2, <1>3, <1>4 DEF Balanced, Count, KnownOf, FaultOf, FinishedOf, Paid
<1>9. Own(e)'
  <2>1. pc[e] \notin Before
    BY <1>1, <1>2 DEF Own, NoSession
  <2>2. Alive(u) /\ Expected(e)' = Expected(e) /\ (Exact(e) => Exact(e)')
    BY <1>1, <1>3 DEF Alive, Expected, Exact, Life
  <2>3. /\ Running(s) => Running(u)
        /\ \A pl : /\ Reviewing(pl, s) => Reviewing(pl, u)
                   /\ Judging(pl, s) => Judging(pl, u)
                   /\ Ready(pl, s) => Ready(pl, u)
                   /\ AwaitReview(pl, s) => AwaitReview(pl, u)
                   /\ AwaitVerdict(pl, s) => AwaitVerdict(pl, u)
        /\ Sent(s) => Sent(u)
    BY <1>3 DEF Running, Alive, Reviewing, Judging, Ready, AwaitReview, AwaitVerdict, Sent, Last
  <2>4. /\ \A a : Concluded(s, a) => Concluded(u, a)
        /\ \A a : Reported(s, a) => Reported(u, a)
        /\ \A a, type : Answer(s, a, type) => Answer(u, a, type)
        /\ \A pl, n : TheCompletion(pl, u, n) = TheCompletion(pl, s, n)
    BY <1>3 DEF Concluded, Reported, Answer, Alive, Last, TheCompletion
  <2> HIDE DEF u
  <2> QED
    BY <1>1, <1>2, <1>3, <2>1, <2>2, <2>3, <2>4 DEF Own, u
<1> QED
  BY <1>1, <1>4, <1>6, <1>7, <1>8, <1>9, Together

-----------------------------------------------------------------------------
(* The invariant *)

LEMMA InitInv == ASSUME Init PROVE Inv
<1>1. Fresh \in LifeRecord
  <2>1. << >> \in CandidateLists /\ << >> \in Seq(Disposition)
    BY EmptyCandidateList
  <2> QED
    BY <2>1 DEF Fresh, LifeRecord
<1>2. NoSession \in Session /\ Len(NoSession.ledger) = 0 /\ NoSession.life = Fresh
  BY <1>1 DEF NoSession, Session
<1>3. [reviewable |-> TRUE, manual |-> FALSE, attempts |-> 0] \in Plan
  BY LifecycleAssumption DEF Plan
<1>4. "readiness" \in Steps /\ "readiness" \in Before
  BY DEF Steps, Before
<1>5. Typed
  BY <1>2, <1>3, <1>4, LifecycleAssumption, EvaluationAssumption DEF Init, Typed
<1>6. Budget /\ Faults /\ Finished
  BY DEF Init, Budget, Faults, FaultOf, NoSession, Finished, FinishedOf
<1>7. Known
  BY DEF Init, Known, KnownOf, NoSession, Fresh, NoResult
<1>8. Balanced(NoSession)
  <2>1. ASSUME NEW kinds PROVE Count(NoSession, kinds) = 0
    <3>1. {i \in 1 .. Len(NoSession.ledger) : NoSession.ledger[i].type \in kinds} = {}
      BY <1>2
    <3> QED
      BY <3>1, FS_EmptySet DEF Count
  <2>2. Asked(Fresh) = 0 /\ Answered(Fresh) = 0
    BY Roles DEF Asked, Answered, Fresh
  <2> QED
    BY <1>2, <2>1, <2>2 DEF Balanced
<1>9. Books
  BY <1>8 DEF Init, Books
<1>10. ASSUME NEW e \in Evaluation PROVE Own(e)
  <2>1. pc[e] = "readiness" /\ session[e] = NoSession /\ spent[e] = 0 /\ outcome[e] = "none"
    BY DEF Init
  <2> QED
    BY <2>1 DEF Own
<1> QED
  BY <1>5, <1>6, <1>7, <1>9, <1>10 DEF Inv

LEMMA StepInv == ASSUME Inv, NEW e \in Evaluation, Step(e) PROVE Inv'
<1>1. CASE Readiness(e) \/ Binding(e) \/ Identity(e) \/ Seal(e) \/ Create(e)
  BY <1>1, ReadinessInv, BindingInv, IdentityInv, SealInv, CreateInv
<1>2. CASE WriteTarget(e) \/ ReviewerPacketStep(e) \/ RunReviewer(e) \/ WriteReviewerResult(e)
  BY <1>2, WriteTargetInv, ReviewerPacketInv, RunReviewerInv, WriteReviewerResultInv
<1>3. CASE Coverage(e) \/ VerifierPacketStep(e) \/ RunVerifier(e) \/ WriteVerifierResult(e)
  BY <1>3, CoverageInv, VerifierPacketInv, RunVerifierInv, WriteVerifierResultInv
<1>4. CASE Readback(e) \/ Gate(e) \/ Project(e) \/ WriteCompletion(e) \/ ReadCompletion(e)
  BY <1>4, ReadbackInv, GateInv, ProjectInv, WriteCompletionInv, ReadCompletionInv
<1>5. CASE WriteReport(e) \/ ReadReport(e)
  BY <1>5, WriteReportInv, ReadReportInv
<1>6. CASE Failure(e) \/ WriteDiagnostic(e) \/ ReadDiagnostic(e) \/ WriteDiagnosticReport(e)
  BY <1>6, FailureInv, WriteDiagnosticInv, ReadDiagnosticInv, WriteDiagnosticReportInv
<1>7. CASE ReadDiagnosticReport(e) \/ End(e)
  BY <1>7, ReadDiagnosticReportInv, EndInv
<1> QED
  BY <1>1, <1>2, <1>3, <1>4, <1>5, <1>6, <1>7 DEF Step

LEMMA StutterInv == ASSUME Inv, UNCHANGED vars PROVE Inv'
<1>1. /\ pc' = pc /\ plan' = plan /\ session' = session /\ attempt' = attempt
      /\ diagnosis' = diagnosis /\ outcome' = outcome /\ spent' = spent
      /\ adverse' = adverse /\ total' = total /\ consumed' = consumed /\ seen' = seen
      /\ trouble' = trouble
  BY DEF vars, local, backend
<1>2. Typed' /\ Budget' /\ Faults' /\ Known' /\ Books' /\ Finished'
  BY <1>1 DEF Inv, Typed, Budget, Faults, FaultOf, Known, KnownOf, Books, Finished, FinishedOf
<1>3. ASSUME NEW f \in Evaluation PROVE Own(f)'
  BY <1>1, OtherOwn DEF Inv, Local
<1> QED
  BY <1>2, <1>3 DEF Inv

LEMMA NextInv == ASSUME Inv, [Next]_vars PROVE Inv'
  BY StepInv, CorruptInv, StutterInv DEF Next

\* The sessions, the control of the evaluations and the backend stay in step,
\* whatever goes wrong and whoever shares the backend.
THEOREM Invariance == Spec => []Inv
<1>1. Init => Inv
  BY InitInv
<1>2. Inv /\ [Next]_vars => Inv'
  BY NextInv
<1> QED
  BY <1>1, <1>2, PTL DEF Spec

-----------------------------------------------------------------------------
(* What the invariant says of the outcomes *)

\* Every variable has its shape, for any number of evaluations, and the cursor
\* of the backend stays within its script.
THEOREM TypeCorrect == Spec => []TypeOK
<1>1. ASSUME Inv PROVE TypeOK
  <2>1. Typed /\ MaxCandidates \in Nat /\ total \in Nat /\ consumed \in 0 .. total
    BY <1>1, LifecycleAssumption DEF Inv, Typed
  <2>2. plan \in [Evaluation -> [reviewable : BOOLEAN, manual : BOOLEAN,
                                 attempts : 0 .. MaxCandidates + 1]]
    BY <2>1 DEF Typed, Plan
  <2>3. ASSUME NEW e \in Evaluation
        PROVE  /\ session[e].health \in {"absent", "sound", "broken"}
               /\ \A i \in 1 .. Size(e) : session[e].ledger[i].type \in Kinds
               /\ attempt[e].type \in {"none", "reviewer_result", "verifier_result"}
               /\ diagnosis[e] \in Diagnosis \cup {NoDiagnosis}
    <3>1. session[e].ledger \in Seq(Artifacts)
          /\ session[e].health \in {"absent", "sound", "broken"}
      BY <2>1 DEF Typed, Session
    <3>2. \A i \in 1 .. Size(e) : session[e].ledger[i] \in Artifacts
      BY <3>1 DEF Size
    <3>3. attempt[e].type \in {"none", "reviewer_result", "verifier_result"}
      <4>1. attempt[e] \in ResultArtifacts \cup {NoResult}
        BY <2>1 DEF Typed
      <4> QED
        BY <4>1, ResultIs DEF NoResult
    <3> QED
      BY <2>1, <3>1, <3>2, <3>3, ArtifactKind DEF Typed
  <2>4. spent \in [Evaluation -> 0 .. total]
    <3>1. \A e \in Evaluation : spent[e] \in Nat /\ spent[e] <= consumed
      BY <1>1, <2>1 DEF Typed, Inv, Budget
    <3>2. \A e \in Evaluation : spent[e] \in 0 .. total
      BY <2>1, <3>1
    <3> QED
      BY <2>1, <3>2 DEF Typed
  <2> QED
    BY <2>1, <2>2, <2>3, <2>4 DEF TypeOK, Typed
<1> QED
  BY <1>1, Invariance, PTL

\* What the caller is told is what the session says, also when other
\* evaluations use the backend and the Store fails anywhere: the terminal that
\* is returned is in the ledger with its report right behind it.
THEOREM OutcomesTrue == Spec => []OutcomeMatchesStore
<1>1. ASSUME Inv PROVE OutcomeMatchesStore
  <2> SUFFICES ASSUME NEW e \in Evaluation
               PROVE  LET ledger == session[e].ledger
                          n == Size(e) IN
                      CASE outcome[e] = "completed" ->
                             /\ ledger[n - 1] =
                                  Completion(Verdict(plan[e], Life(e).dispositions), 1 .. (n - 2))
                             /\ ledger[n] = Report("evaluation_report", n - 1)
                        [] outcome[e] = "diagnosed" ->
                             /\ ledger[n - 1] = Diagnostic(diagnosis[e], 1 .. (n - 2))
                             /\ ledger[n] = Report("diagnostic_report", n - 1)
                        [] outcome[e] = "blocked" -> session[e] = NoSession /\ spent[e] = 0
                        [] OTHER -> TRUE
    BY DEF OutcomeMatchesStore
  <2>1. Own(e)
    BY <1>1 DEF Inv
  <2>2. CASE outcome[e] = "completed"
    <3> DEFINE n == Len(session[e].ledger)
               a == TheCompletion(plan[e], session[e], n - 2)
    <3>1. Reported(session[e], a)
      BY <2>1, <2>2 DEF Own
    <3>2. a = Completion(Verdict(plan[e], Life(e).dispositions), 1 .. (n - 2))
      BY DEF TheCompletion, Life
    <3>3. ReportOf(a.type) = "evaluation_report"
      BY Types DEF TheCompletion, ReportOf
    <3>4. session[e].ledger[n - 1] = a /\ session[e].ledger[n] = Report("evaluation_report", n - 1)
      BY <3>1, <3>3 DEF Reported, Last
    <3> HIDE DEF a
    <3> QED
      BY <2>2, <3>2, <3>4 DEF Size
  <2>3. CASE outcome[e] = "diagnosed"
    <3> DEFINE n == Len(session[e].ledger)
               a == Diagnostic(diagnosis[e], 1 .. (n - 2))
    <3>1. Reported(session[e], a)
      BY <2>1, <2>3 DEF Own
    <3>2. ReportOf(a.type) = "diagnostic_report"
      BY Types DEF ReportOf
    <3>3. session[e].ledger[n - 1] = a /\ session[e].ledger[n] = Report("diagnostic_report", n - 1)
      BY <3>1, <3>2 DEF Reported, Last
    <3> QED
      BY <2>3, <3>3 DEF Size
  <2>4. CASE outcome[e] = "blocked"
    BY <2>1, <2>4 DEF Own
  <2> QED
    BY <2>2, <2>3, <2>4
<1> QED
  BY <1>1, Invariance, PTL

\* The orchestrator never submits what the lifecycle refuses: with no fault and
\* no damage, no evaluation comes to the recovery view.
THEOREM RecoveryIsFault == Spec => []RecoveryOnlyOnFault
<1>1. ASSUME Inv PROVE RecoveryOnlyOnFault
  BY <1>1 DEF Inv, Faults, FaultOf, RecoveryOnlyOnFault
<1> QED
  BY <1>1, Invariance, PTL

\* An evaluation that completed used the whole script and nobody else used any
\* of it; its ledger holds one result for each attempt.
THEOREM ExactCompletions == Spec => []CompletionExact
<1>1. ASSUME Inv PROVE CompletionExact
  <2> SUFFICES ASSUME NEW e \in Evaluation, outcome[e] = "completed"
               PROVE  /\ consumed = total /\ spent[e] = total /\ plan[e].attempts = total
                      /\ Cardinality(Results(e)) = total
    BY DEF CompletionExact
  <2>1. Exact(e)
    BY <1>1 DEF Inv, Own
  <2>2. Count(session[e], {"reviewer_result", "verifier_result"}) = Answered(session[e].life)
    BY <1>1 DEF Inv, Books, Balanced
  <2>3. Cardinality(Results(e)) = Answered(Life(e))
    BY <2>2 DEF Results, Placed, Size, Count, Life
  <2> QED
    BY <2>1, <2>3 DEF Exact
<1> QED
  BY <1>1, Invariance, PTL

-----------------------------------------------------------------------------
(* What a step does, seen from outside: it leaves the sessions' lives and    *)
(* the accounts alone, commits one artifact, uses one attempt, or returns.   *)

Rests ==
  /\ outcome' = outcome /\ spent' = spent
  /\ \A f \in Evaluation : session'[f].life = session[f].life
Commits(e) ==
  /\ outcome' = outcome /\ spent' = spent
  /\ \E a : Admits(plan[e], Life(e), Size(e), a) /\ session' = Stored(e, a)
Dispatches(e) ==
  /\ outcome' = outcome /\ session' = session
  /\ pc[e] \in {"runReviewer", "runVerifier"}
  /\ Remains /\ spent' = [spent EXCEPT ![e] = @ + 1]
Answers(e) ==
  /\ session' = session /\ spent' = spent
  /\ \E o \in {"completed", "diagnosed", "blocked", "recovered", "raised"} :
       /\ outcome' = [outcome EXCEPT ![e] = o]
       /\ pc[e] # "end"
       /\ o = "completed" => pc[e] = "view"
       /\ o = "diagnosed" => pc[e] = "diagnosticView"
       /\ o = "blocked" => pc[e] = "blocked"

LEMMA HealthRests ==
  ASSUME Typed, NEW e \in Evaluation, NEW h,
         outcome' = outcome, spent' = spent, session' = [session EXCEPT ![e].health = h]
  PROVE  Rests
<1>1. session \in [Evaluation -> Session]
  BY DEF Typed
<1>2. ASSUME NEW f \in Evaluation PROVE session'[f].life = session[f].life
  BY <1>1 DEF Session
<1> QED
  BY <1>2 DEF Rests

LEMMA WriteEffect ==
  ASSUME Typed, NEW e \in Evaluation, NEW a, NEW next, Write(e, a, next)
  PROVE  Rests \/ Commits(e)
<1>1. outcome' = outcome /\ spent' = spent
  BY DEF Write
<1>2. \/ session' = session
      \/ session' = [session EXCEPT ![e].health = "broken"]
      \/ session' = Stored(e, a) /\ Admits(plan[e], Life(e), Size(e), a)
  BY DEF Write
<1>3. CASE session' = session
  BY <1>1, <1>3 DEF Rests
<1>4. CASE session' = [session EXCEPT ![e].health = "broken"]
  BY <1>1, <1>4, HealthRests
<1>5. CASE session' = Stored(e, a) /\ Admits(plan[e], Life(e), Size(e), a)
  BY <1>1, <1>5 DEF Commits
<1> QED
  BY <1>2, <1>3, <1>4, <1>5

LEMMA CheckEffect ==
  ASSUME NEW e, NEW next, Checked(e, next) \/ CheckFails(e)
  PROVE  Rests
  BY DEF Checked, CheckFails, Rests, local

LEMMA RunEffect ==
  ASSUME NEW e \in Evaluation, RunReviewer(e) \/ RunVerifier(e)
  PROVE  Rests \/ Dispatches(e)
<1>1. session' = session /\ outcome' = outcome /\ pc[e] \in {"runReviewer", "runVerifier"}
  BY DEF RunReviewer, RunVerifier
<1>2. spent' = spent \/ (Remains /\ Consume(e))
  BY DEF RunReviewer, RunVerifier, RunAccepted, RunRejected, RunUnavailable
<1>3. Consume(e) => spent' = [spent EXCEPT ![e] = @ + 1]
  BY DEF Consume
<1> QED
  BY <1>1, <1>2, <1>3 DEF Rests, Dispatches

LEMMA EndEffect ==
  ASSUME NEW e \in Evaluation, End(e)
  PROVE  Answers(e)
<1>1. /\ session' = session /\ spent' = spent
      /\ pc[e] \in {"view", "diagnosticView", "blocked", "recovery"}
  BY DEF End, Endings
<1>2. \/ outcome' = [outcome EXCEPT ![e] = Endings[pc[e]]]
      \/ outcome' = [outcome EXCEPT ![e] = "raised"]
  BY DEF End
<1>3. /\ Endings["view"] = "completed" /\ Endings["diagnosticView"] = "diagnosed"
      /\ Endings["blocked"] = "blocked" /\ Endings["recovery"] = "recovered"
  BY DEF Endings
<1> QED
  BY <1>1, <1>2, <1>3 DEF Answers

LEMMA Effects ==
  ASSUME Inv, NEW e \in Evaluation, Step(e) \/ Corrupt(e)
  PROVE  Rests \/ Commits(e) \/ Dispatches(e) \/ Answers(e)
<1>0. Typed
  BY DEF Inv
<1>1. CASE Readiness(e) \/ Seal(e)
  <2>1. /\ session' = session /\ spent' = spent
        /\ pc[e] # "end"
        /\ outcome' = outcome \/ outcome' = [outcome EXCEPT ![e] = "raised"]
    BY <1>1 DEF Readiness, Seal
  <2> QED
    BY <2>1 DEF Rests, Answers
<1>2. CASE Binding(e) \/ Identity(e)
  BY <1>2 DEF Binding, Identity, Rests
<1>3. CASE Create(e)
  <2>1. outcome' = outcome /\ spent' = spent
    BY <1>3 DEF Create
  <2>2. CASE session' = [session EXCEPT ![e].health = "sound"]
    BY <1>0, <2>1, <2>2, HealthRests
  <2>3. CASE session' = session
    BY <2>1, <2>3 DEF Rests
  <2> QED
    BY <1>3, <2>2, <2>3 DEF Create
<1>4. CASE WriteTarget(e) \/ WriteReviewerResult(e) \/ WriteVerifierResult(e)
           \/ WriteCompletion(e) \/ WriteReport(e) \/ WriteDiagnostic(e)
           \/ WriteDiagnosticReport(e)
  <2>1. \E a, next : Write(e, a, next)
    BY <1>4 DEF WriteTarget, WriteReviewerResult, WriteVerifierResult, WriteCompletion,
                WriteReport, WriteDiagnostic, WriteDiagnosticReport
  <2> QED
    BY <1>0, <2>1, WriteEffect
<1>5. CASE ReviewerPacketStep(e) \/ VerifierPacketStep(e)
  <2>1. \/ \E a, next : Write(e, a, next)
        \/ outcome' = outcome /\ spent' = spent /\ session' = session
    BY <1>5 DEF ReviewerPacketStep, VerifierPacketStep
  <2> QED
    BY <1>0, <2>1, WriteEffect DEF Rests
<1>6. CASE RunReviewer(e) \/ RunVerifier(e)
  BY <1>6, RunEffect
<1>7. CASE Coverage(e)
  <2>1. \/ \E next : Checked(e, next) \/ CheckFails(e)
        \/ outcome' = outcome /\ spent' = spent /\ session' = session
    BY <1>7 DEF Coverage
  <2> QED
    BY <2>1, CheckEffect DEF Rests
<1>8. CASE Readback(e) \/ ReadCompletion(e) \/ ReadReport(e) \/ Failure(e)
           \/ ReadDiagnostic(e) \/ ReadDiagnosticReport(e)
  <2>1. \E next : Checked(e, next)
    BY <1>8 DEF Readback, ReadCompletion, ReadReport, Failure, ReadDiagnostic,
                ReadDiagnosticReport
  <2> QED
    BY <2>1, CheckEffect
<1>9. CASE Gate(e) \/ Project(e)
  BY <1>9 DEF Gate, Project, Rests
<1>10. CASE End(e)
  BY <1>10, EndEffect
<1>11. CASE Corrupt(e)
  BY <1>0, <1>11, HealthRests DEF Corrupt
<1> QED
  BY <1>1, <1>2, <1>3, <1>4, <1>5, <1>6, <1>7, <1>8, <1>9, <1>10, <1>11 DEF Step

\* An attempt is consumed only for the packet that is the last artifact of the
\* ledger and awaits its result, and no packet costs two attempts.
THEOREM RecordedDispatches == Spec => DispatchRecorded
<1> DEFINE Recorded(e) ==
             /\ Size(e) \in Packets(e)
             /\ session[e].ledger[Size(e)].task = Life(e).pending
             /\ spent'[e] = Cardinality(Packets(e))
           Act == \A e \in Evaluation : spent'[e] # spent[e] => Recorded(e)
<1>1. ASSUME Inv, NEW e \in Evaluation, Dispatches(e) PROVE Recorded(e)
  <2> DEFINE s == session[e]
             life == session[e].life
  <2>1. /\ Typed /\ Own(e) /\ s \in Session /\ life.verified \in Nat
        /\ spent'[e] = spent[e] + 1
        /\ Cardinality(Packets(e)) = Asked(life)
    <3>1. Typed /\ Own(e) /\ Balanced(s)
      BY <1>1 DEF Inv, Books
    <3>2. s \in Session
      BY <3>1 DEF Typed
    <3>3. Cardinality(Packets(e)) = Count(s, {"reviewer_packet", "verifier_packet"})
      BY DEF Packets, Placed, Size, Count
    <3> QED
      BY <1>1, <3>1, <3>2, <3>3, LifeTyped DEF Dispatches, Typed, Balanced
  <2>2. pc[e] = "runReviewer" \/ pc[e] = "runVerifier"
    BY <1>1 DEF Dispatches
  <2>3. Sent(s)
    BY <2>1, <2>2 DEF Own
  <2>4. Size(e) \in Packets(e) /\ s.ledger[Size(e)].task = Life(e).pending
    <3>1. Len(s.ledger) \in 1 .. Len(s.ledger)
      BY <2>1, <2>3, LifeTyped DEF Sent
    <3> QED
      BY <2>3, <3>1 DEF Sent, Last, Packets, Placed, Size, Life
  <2>5. CASE pc[e] = "runReviewer"
    <3>1. /\ spent[e] = 0 /\ life.packet /\ life.pending.role = "reviewer"
          /\ life.verified = 0
      BY <2>1, <2>5, Roles DEF Own, AwaitReview, Reviewing
    <3>2. Asked(life) = 1
      BY <3>1 DEF Asked
    <3> QED
      BY <2>1, <2>4, <3>1, <3>2
  <2>6. CASE pc[e] = "runVerifier"
    <3>1. /\ spent[e] = 1 + life.verified /\ life.packet /\ life.pending.role = "verifier"
      BY <2>1, <2>6, Roles DEF Own, AwaitVerdict, Judging
    <3>2. Asked(life) = 1 + life.verified + 1
      BY <2>1, <3>1 DEF Asked
    <3> QED
      BY <2>1, <2>4, <3>1, <3>2
  <2> QED
    BY <2>2, <2>5, <2>6
<1>2. ASSUME Inv, Next PROVE Act
  <2> SUFFICES ASSUME NEW e \in Evaluation, spent'[e] # spent[e] PROVE Recorded(e)
    OBVIOUS
  <2>1. PICK g \in Evaluation : Step(g) \/ Corrupt(g)
    BY <1>2 DEF Next
  <2>2. Dispatches(g)
    BY <1>2, <2>1, Effects DEF Rests, Commits, Answers
  <2>3. g = e
    BY <1>2, <2>2 DEF Dispatches, Inv, Typed
  <2> HIDE DEF Recorded
  <2> QED
    BY <1>1, <1>2, <2>2, <2>3
<1>3. Inv /\ [Next]_vars => [Act]_vars
  BY <1>2
<1>4. [Act]_vars => [\A e \in Evaluation : spent'[e] # spent[e] =>
                       /\ Size(e) \in Packets(e)
                       /\ session[e].ledger[Size(e)].task = Life(e).pending
                       /\ spent'[e] = Cardinality(Packets(e))]_vars
  OBVIOUS
<1> QED
  BY <1>3, <1>4, Invariance, PTL DEF Spec, DispatchRecorded

-----------------------------------------------------------------------------
(* The promise of EvaluationPromise *)

PhaseOf(e) ==
  IF outcome[e] # "none" THEN outcome[e]
  ELSE IF Life(e).terminal # "none" THEN "concluded" ELSE "open"
Phase == [e \in Evaluation |-> PhaseOf(e)]

\* Only a terminal that is committed ends the work of a session.
LEMMA TerminalAdvances ==
  ASSUME NEW life \in LifeRecord, NEW a
  PROVE  Advance(life, a).terminal =
           IF a.type \in {"diagnostic", "evaluation_completion"} THEN a.type ELSE life.terminal
<1>1. CASE a.type \in {"diagnostic", "evaluation_completion"}
  BY <1>1 DEF Advance, LifeRecord
<1>2. CASE a.type \in {"target_packet", "reviewer_packet", "verifier_packet"}
  BY <1>2 DEF Advance, LifeRecord
<1>3. CASE a.type \in {"reviewer_result", "verifier_result"}
  BY <1>3 DEF Advance, Executed, LifeRecord
<1>4. CASE a.type \notin {"diagnostic", "evaluation_completion", "target_packet",
                          "reviewer_packet", "verifier_packet",
                          "reviewer_result", "verifier_result"}
  BY <1>4 DEF Advance, LifeRecord
<1> QED
  BY <1>1, <1>2, <1>3, <1>4

LEMMA PhaseRests ==
  ASSUME NEW f \in Evaluation, outcome' = outcome, session'[f].life = session[f].life
  PROVE  PhaseOf(f)' = PhaseOf(f)
  BY DEF PhaseOf, Life

LEMMA RestsPromise == ASSUME Rests PROVE Phase' = Phase /\ spent' = spent
  BY PhaseRests DEF Rests, Phase

\* Nobody completes with attempts that are left for others.
LEMMA CompletedAll ==
  ASSUME Inv, NEW f \in Evaluation, Exact(f)
  PROVE  ~Remains /\ \A g \in Evaluation \ {f} : spent[g] = 0
<1>1. consumed = total /\ spent[f] = total /\ total \in Nat
  BY LifecycleAssumption DEF Exact, Inv, Typed
<1>2. ASSUME NEW g \in Evaluation \ {f} PROVE spent[g] = 0
  BY <1>1 DEF Inv, Budget, Typed
<1> QED
  BY <1>1, <1>2 DEF Remains

LEMMA CommitsPromise ==
  ASSUME Inv, NEW e \in Evaluation, Commits(e)
  PROVE  \/ Promise!Conclude(e)
         \/ Phase' = Phase /\ spent' = spent
<1>1. PICK a : Admits(plan[e], Life(e), Size(e), a) /\ session' = Stored(e, a)
  BY DEF Commits
<1>2. /\ outcome' = outcome /\ spent' = spent /\ session \in [Evaluation -> Session]
      /\ session[e] \in Session
  BY DEF Commits, Inv, Typed
<1>3. /\ session'[e].life = Advance(session[e].life, a)
      /\ \A f \in Evaluation : f # e => session'[f] = session[f]
  BY <1>1, <1>2 DEF Stored, Session
<1>4. \A f \in Evaluation : f # e => PhaseOf(f)' = PhaseOf(f)
  BY <1>2, <1>3, PhaseRests
<1>5. CASE a.type \in {"diagnostic", "evaluation_completion"}
  <2>1. session[e].life.terminal = "none"
    BY <1>1, <1>5 DEF Admits, AdmitsDiagnostic, AdmitsCompletion, Open, ReportKinds, Life
  <2>2. session'[e].life.terminal = a.type
    BY <1>2, <1>3, <1>5, LifeTyped, TerminalAdvances
  <2>3. CASE outcome[e] = "none"
    <3>1. PhaseOf(e) = "open" /\ PhaseOf(e)' = "concluded"
      BY <1>2, <1>5, <2>1, <2>2, <2>3 DEF PhaseOf, Life
    <3>2. Phase[e] = "open" /\ Phase' = [Phase EXCEPT ![e] = "concluded"]
      BY <1>4, <3>1 DEF Phase
    <3> QED
      BY <1>2, <3>2 DEF Promise!Conclude, Phase, PhaseOf
  <2>4. CASE outcome[e] # "none"
    <3>1. PhaseOf(e)' = PhaseOf(e)
      BY <1>2, <2>4 DEF PhaseOf
    <3> QED
      BY <1>2, <1>4, <3>1 DEF Phase
  <2> QED
    BY <2>3, <2>4
<1>6. CASE a.type \notin {"diagnostic", "evaluation_completion"}
  <2>1. session'[e].life.terminal = session[e].life.terminal
    BY <1>2, <1>3, <1>6, LifeTyped, TerminalAdvances
  <2>2. PhaseOf(e)' = PhaseOf(e)
    BY <1>2, <2>1 DEF PhaseOf, Life
  <2> QED
    BY <1>2, <1>4, <2>2 DEF Phase
<1> QED
  BY <1>5, <1>6

LEMMA DispatchesPromise ==
  ASSUME Inv, NEW e \in Evaluation, Dispatches(e)
  PROVE  Promise!Dispatch(e)
<1>1. /\ outcome' = outcome /\ session' = session /\ Remains
      /\ spent' = [spent EXCEPT ![e] = @ + 1]
      /\ pc[e] \in {"runReviewer", "runVerifier"} /\ pc[e] # "end"
  BY DEF Dispatches
<1>2. outcome[e] = "none" /\ Own(e)
  BY <1>1, NotReturned
<1>3. Life(e).terminal = "none"
  BY <1>1, <1>2 DEF Own, AwaitReview, AwaitVerdict, Reviewing, Judging, Running, Open, Life
<1>4. PhaseOf(e) = "open"
  BY <1>2, <1>3 DEF PhaseOf
<1>5. Phase' = Phase
  BY <1>1, PhaseRests DEF Phase
<1>6. ASSUME NEW f \in Evaluation, PhaseOf(f) = "completed" PROVE spent[f] = 0
  <2>1. outcome[f] = "completed"
    BY <1>6 DEF PhaseOf
  <2>2. Exact(f)
    BY <2>1 DEF Inv, Own
  <2> QED
    BY <1>1, <2>2, CompletedAll
<1> QED
  BY <1>1, <1>4, <1>5, <1>6 DEF Promise!Dispatch, Phase, PhaseOf

LEMMA AnswersPromise ==
  ASSUME Inv, NEW e \in Evaluation, Answers(e)
  PROVE  \E ending \in Promise!Endings : Promise!End(e, ending)
<1>1. PICK o \in {"completed", "diagnosed", "blocked", "recovered", "raised"} :
        /\ outcome' = [outcome EXCEPT ![e] = o]
        /\ pc[e] # "end"
        /\ o = "completed" => pc[e] = "view"
        /\ o = "diagnosed" => pc[e] = "diagnosticView"
        /\ o = "blocked" => pc[e] = "blocked"
  BY DEF Answers
<1>2. /\ session' = session /\ spent' = spent /\ outcome[e] = "none" /\ Own(e) /\ Typed
  BY <1>1, NotReturned DEF Answers
<1>3. /\ outcome'[e] = o /\ \A f \in Evaluation : f # e => outcome'[f] = outcome[f]
  BY <1>1, <1>2 DEF Typed
<1>4. PhaseOf(e)' = o /\ \A f \in Evaluation : f # e => PhaseOf(f)' = PhaseOf(f)
  BY <1>2, <1>3 DEF PhaseOf, Life
<1>5. Phase' = [Phase EXCEPT ![e] = o]
  BY <1>4 DEF Phase
<1>6. PhaseOf(e) \in {"open", "concluded"}
  BY <1>2 DEF PhaseOf
<1>7. o = "blocked" => PhaseOf(e) = "open" /\ spent[e] = 0
  <2> SUFFICES ASSUME o = "blocked" PROVE PhaseOf(e) = "open" /\ spent[e] = 0
    OBVIOUS
  <2>1. session[e] = NoSession /\ spent[e] = 0
    BY <1>1, <1>2 DEF Own, Before
  <2> QED
    BY <1>2, <2>1 DEF PhaseOf, Life, NoSession, Fresh
<1>8. o = "diagnosed" => PhaseOf(e) = "concluded"
  <2> SUFFICES ASSUME o = "diagnosed" PROVE PhaseOf(e) = "concluded"
    OBVIOUS
  <2>1. Life(e).terminal = "diagnostic"
    BY <1>1, <1>2, Types DEF Own, Reported, Life
  <2> QED
    BY <1>2, <2>1 DEF PhaseOf
<1>9. o = "completed" =>
        PhaseOf(e) = "concluded" /\ \A f \in Evaluation \ {e} : spent[f] = 0
  <2> SUFFICES ASSUME o = "completed"
               PROVE  PhaseOf(e) = "concluded" /\ \A f \in Evaluation \ {e} : spent[f] = 0
    OBVIOUS
  <2>1. Life(e).terminal = "evaluation_completion" /\ Exact(e)
    BY <1>1, <1>2, Types DEF Own, Reported, TheCompletion, Life
  <2> QED
    BY <1>2, <2>1, CompletedAll DEF PhaseOf
<1>10. Phase[e] = PhaseOf(e)
  BY DEF Phase
<1>11. Promise!End(e, o)
  BY <1>2, <1>5, <1>6, <1>7, <1>8, <1>9, <1>10 DEF Promise!End, Phase, PhaseOf
<1>12. o \in Promise!Endings
  BY DEF Promise!Endings
<1> QED
  BY <1>11, <1>12

\* Evaluations that are handed the same backend keep the promise: workers are
\* dispatched only while a session is open, each evaluation ends once, and one
\* that completes with worker evidence had the backend for itself.
THEOREM PromiseKept == Spec => ImplementsPromise
<1>1. Init => Promise!Init
  <2> SUFFICES ASSUME Init PROVE Promise!Init
    OBVIOUS
  <2>1. \A e \in Evaluation : PhaseOf(e) = "open"
    BY DEF Init, PhaseOf, Life, NoSession, Fresh
  <2>2. Phase = [e \in Evaluation |-> "open"] /\ spent = [e \in Evaluation |-> 0]
    BY <2>1 DEF Init, Phase
  <2> QED
    BY <2>2 DEF Promise!Init, Phase, PhaseOf
<1>2. Inv /\ [Next]_vars => [Promise!Next]_(Promise!vars)
  <2> SUFFICES ASSUME Inv, [Next]_vars
               PROVE  Promise!Next \/ (Phase' = Phase /\ spent' = spent)
    BY DEF Promise!vars, Phase, PhaseOf
  <2>1. CASE UNCHANGED vars
    <3>1. session' = session /\ outcome' = outcome /\ spent' = spent
      BY <2>1 DEF vars, local
    <3> QED
      BY <3>1, PhaseRests DEF Phase
  <2>2. ASSUME NEW e \in Evaluation, Step(e) \/ Corrupt(e)
        PROVE  Promise!Next \/ (Phase' = Phase /\ spent' = spent)
    BY <2>2, Effects, RestsPromise, CommitsPromise, DispatchesPromise, AnswersPromise
    DEF Promise!Next
  <2> QED
    BY <2>1, <2>2 DEF Next
<1> QED
  BY <1>1, <1>2, Invariance, PTL DEF Spec, ImplementsPromise, Promise!Spec
=============================================================================
