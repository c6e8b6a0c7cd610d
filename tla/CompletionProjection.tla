------------------------ MODULE CompletionProjection ------------------------
(***************************************************************************)
(* The conclusion of an evaluation, which three pieces of code must agree  *)
(* on: derive_completion_payload rebuilds it from the evidence a session   *)
(* holds, _validate_evaluation_completion_semantics checks the numbers and *)
(* records of any completion against each other, and                       *)
(* render_evaluation_report accepts it for a report only with the results  *)
(* it names.  The evidence is whatever a caller of the projection has:     *)
(* packets and results in any order, of any task, missing or repeated.     *)
(*                                                                         *)
(* Abstracted data: the hash of a thing is the thing, and a sorted list of *)
(* hashes is their set; a candidate is its root cause and its severity; a  *)
(* verifier's texts are one text; `exec` stands for the attempt, the       *)
(* thread and the launch of a result, and `bound` says that the hashes and *)
(* ids in it are those of its task.  A disposition of the target is the    *)
(* set of its atoms.                                                       *)
(***************************************************************************)
EXTENDS Naturals, Sequences, FiniteSets, SequencesExt

CONSTANTS
  Candidates,    \* what a reviewer may report: root and severity
  Answers,       \* what a verifier may answer: disposition, severity, text, bound
  Executions,    \* identities of worker executions
  Targets,       \* target packets: atoms, reviewable, manual
  MaxCandidates, \* bound on the candidates of a reviewer result
  MaxResults,    \* bound on the verifier packets, and on the verifier results
  MaxEdits   \* bound on the changes somebody makes to a completion

Dispositions == {"confirmed", "false_positive", "pre_existing", "needs_manual_review"}
Severities == {"Important", "Nit"}
Verdicts == {"clean", "findings", "manual_review_required"}

ASSUME ProjectionAssumption ==
  /\ \A c \in Candidates : DOMAIN c = {"root", "severity"} /\ c.severity \in Severities
  /\ \A a \in Answers : /\ DOMAIN a = {"disposition", "severity", "text", "bound"}
                        /\ a.disposition \in Dispositions
                        /\ (a.disposition = "confirmed") <=> (a.severity \in Severities)
  /\ \A t \in Targets : IsFiniteSet(t.atoms)
  /\ MaxCandidates \in Nat /\ MaxResults \in Nat /\ MaxEdits \in Nat

VARIABLES
  stage,      \* "collect", "derived", "refused", "invalid" or "edited"
  evidence,   \* target; reviews, packets and results in the order of the ledger
  completion, \* the payload, once there is one
  edits

vars == <<stage, evidence, completion, edits>>

NoEvidence(t) == [target |-> t, packeted |-> FALSE, reviews |-> <<>>,
                  packets |-> <<>>, results |-> <<>>]
NoCompletion == [verdict |-> "none"]

Init ==
  /\ stage = "collect"
  /\ \E t \in Targets : evidence = NoEvidence(t)
  /\ completion = NoCompletion
  /\ edits = 0

-----------------------------------------------------------------------------
(* The evidence.                                                           *)

\* validate_target_packet: each atom is reviewable or in one disposition.
ValidTarget(t) ==
  /\ t.atoms # {}
  /\ \A d, e \in t.manual : d # {} /\ (d # e => d \cap e = {})
  /\ t.reviewable \cap UNION t.manual = {}
  /\ t.reviewable \cup UNION t.manual = t.atoms

\* Equal candidates are told apart by how many equal ones came before.
Instance(cands, i) ==
  [cand |-> cands[i], ordinal |-> Cardinality({j \in 1..i - 1 : cands[j] = cands[i]})]

Instances(cands) == [i \in DOMAIN cands |-> Instance(cands, i)]

\* The tasks that packets and results are of; the last may be nobody's.
TasksAround(cands) ==
  ToSet(Instances(cands)) \cup
    (IF cands = <<>> THEN {} ELSE {[cand |-> cands[1], ordinal |-> 1]})
PlausibleTasks == UNION {TasksAround(r.cands) : r \in ToSet(evidence.reviews)}

Collect(e) ==
  /\ stage = "collect"
  /\ evidence' = e
  /\ UNCHANGED <<stage, completion, edits>>

PacketReviewer ==
  /\ ~evidence.packeted /\ evidence.reviews = <<>>
  /\ Collect([evidence EXCEPT !.packeted = TRUE])

Review ==
  /\ evidence.reviews = <<>> /\ evidence.packets = <<>>
  /\ \E cands \in SeqOf(Candidates, MaxCandidates), x \in Executions, covered \in BOOLEAN :
       Collect([evidence EXCEPT !.reviews = <<[cands |-> cands, exec |-> x, covered |-> covered]>>])

PacketVerifier ==
  /\ Len(evidence.packets) < MaxResults /\ evidence.results = <<>>
  /\ \E t \in PlausibleTasks : Collect([evidence EXCEPT !.packets = Append(@, t)])

Answer ==
  /\ Len(evidence.results) < MaxResults
  /\ \E t \in PlausibleTasks, a \in Answers, x \in Executions :
       Collect([evidence EXCEPT !.results =
                  Append(@, [task |-> t, exec |-> x, disposition |-> a.disposition,
                             severity |-> a.severity, text |-> a.text, bound |-> a.bound])])

-----------------------------------------------------------------------------
(* derive_completion_payload                                               *)

\* No execution gave two results.
FreshExecutions(e) ==
  LET execs == [i \in DOMAIN e.results |-> e.results[i].exec] \o <<e.reviews[1].exec>>
  IN IsInjective(execs)

\* One packet and one result for each instance, none over, and none spliced.
Matched(instances, e) ==
  /\ Len(e.packets) = Len(instances) /\ Len(e.results) = Len(instances)
  /\ IsInjective(e.packets)
  /\ IsInjective([i \in DOMAIN e.results |-> e.results[i].task])
  /\ \A i \in DOMAIN instances :
       /\ instances[i] \in ToSet(e.packets)
       /\ \E r \in ToSet(e.results) : r.task = instances[i] /\ r.bound

ExpectedAttempts(e) == IF e.target.reviewable = {} THEN 0 ELSE 1 + Len(e.reviews[1].cands)

\* No exception is raised on the way to the payload.
EvidenceFits(e, attempts) ==
  /\ ValidTarget(e.target)
  /\ IF e.target.reviewable = {}
     THEN ~e.packeted /\ e.reviews = <<>> /\ e.packets = <<>> /\ e.results = <<>>
     ELSE /\ e.packeted /\ Len(e.reviews) = 1
          /\ e.reviews[1].covered
          /\ Matched(Instances(e.reviews[1].cands), e)
          /\ FreshExecutions(e)
  /\ attempts = ExpectedAttempts(e)

RootOf(c) == c.root

\* Bug: the severity of the first instance stays.
Bug_EnrolledFirst(groups, root, instance, text) ==
  LET mine == {g \in groups : g.root = root}
  IN (groups \ mine) \cup
       {[root |-> root, instances |-> (UNION {g.instances : g \in mine}) \cup {instance},
         proof |-> (UNION {g.proof : g \in mine}) \cup {text},
         severity |-> IF mine = {} THEN instance.severity
                      ELSE (CHOOSE g \in mine : TRUE).severity]}

\* The group of its root cause takes the instance and the verifier's text.
Enrolled(groups, root, instance, text) ==
  LET mine == {g \in groups : g.root = root}
      instances == (UNION {g.instances : g \in mine}) \cup {instance}
  IN (groups \ mine) \cup
       {[root |-> root, instances |-> instances,
         proof |-> (UNION {g.proof : g \in mine}) \cup {text},
         severity |-> IF \E i \in instances : i.severity = "Important"
                      THEN "Important" ELSE "Nit"]}

\* The loop over the instances, in the order of the reviewer's candidates.
Dispose(e, acc, task) ==
  LET r == CHOOSE r \in ToSet(e.results) : r.task = task
      named == [cand |-> task.cand, ordinal |-> task.ordinal, result |-> r]
      record == [cand |-> task.cand, ordinal |-> task.ordinal, result |-> r,
                 disposition |-> r.disposition, severity |-> r.severity]
      instance == [cand |-> task.cand, ordinal |-> task.ordinal, result |-> r,
                   severity |-> r.severity]
  IN [records |-> acc.records \cup {record},
      manual |-> IF r.disposition = "needs_manual_review" THEN acc.manual \cup {named}
                 ELSE acc.manual,
      groups |-> IF r.disposition = "confirmed"
                 THEN Enrolled(acc.groups, RootOf(task.cand), instance, r.text)
                 ELSE acc.groups]

NoneDisposed == [records |-> {}, manual |-> {}, groups |-> {}]
Disposed(e) ==
  LET tasks == IF e.reviews = <<>> THEN <<>> ELSE Instances(e.reviews[1].cands)
      disposed[n \in 0..Len(tasks)] ==
        IF n = 0 THEN NoneDisposed ELSE Dispose(e, disposed[n - 1], tasks[n])
  IN disposed[Len(tasks)]

CountOf(records, d) == Cardinality({r \in records : r.disposition = d})

\* Manual items win over findings, and findings over clean.
VerdictOf(manualItems, findings) ==
  IF manualItems > 0 THEN "manual_review_required"
  ELSE IF findings > 0 THEN "findings" ELSE "clean"

Derived(e) ==
  LET d == Disposed(e)
      t == e.target
      needsManual == CountOf(d.records, "needs_manual_review")
  IN [coverage |-> [total |-> Cardinality(t.atoms), reviewed |-> Cardinality(t.reviewable),
                    manual |-> Cardinality(t.atoms) - Cardinality(t.reviewable)],
      raw |-> IF e.reviews = <<>> THEN 0 ELSE Len(e.reviews[1].cands),
      verified |-> Len(e.results),
      counts |-> [k \in Dispositions |-> CountOf(d.records, k)],
      canonical |-> Cardinality(d.groups),
      adapter |-> Cardinality(t.manual),
      dispatched |-> t.reviewable # {},
      reviewer |-> ToSet(e.reviews),
      verifiers |-> ToSet(e.results),
      accepted |-> ToSet(e.reviews) \cup ToSet(e.results),
      records |-> d.records,
      findings |-> d.groups,
      adapterItems |-> t.manual,
      verifierItems |-> d.manual,
      verdict |-> VerdictOf(Cardinality(t.manual) + needsManual, Cardinality(d.groups))]

-----------------------------------------------------------------------------
(* _validate_evaluation_completion_semantics, on any payload.              *)

Named(r) == [cand |-> r.cand, ordinal |-> r.ordinal, result |-> r.result]
Pair(r) == [cand |-> r.cand, ordinal |-> r.ordinal]
WithDisposition(c, d) == {r \in c.records : r.disposition = d}

\* The records of the verifiers' dispositions, and the counts of them.
RecordsValid(c) ==
  /\ c.verified = c.raw /\ Cardinality(c.verifiers) = c.raw /\ Cardinality(c.records) = c.raw
  /\ \A r \in c.records : (r.disposition = "confirmed") <=> (r.severity \in Severities)
  /\ \A r, s \in c.records : r # s => Pair(r) # Pair(s) /\ r.result # s.result
  /\ {r.result : r \in c.records} = c.verifiers
  /\ \A r \in c.records :
       LET ordinals == {s.ordinal : s \in {s \in c.records : s.cand = r.cand}}
       IN ordinals = 0..Cardinality(ordinals) - 1
  /\ \A d \in Dispositions : c.counts[d] = CountOf(c.records, d)

\* _validate_canonical_finding_core
FindingValid(f) ==
  /\ f.instances # {} /\ f.proof # {}
  /\ \A i, j \in f.instances : i # j => Named(i) # Named(j)
  /\ f.severity = IF \E i \in f.instances : i.severity = "Important" THEN "Important" ELSE "Nit"

\* Bug: the severities of the instances are not compared with the records.
Bug_ProjectsIdentities(c) ==
  {Named(i) : i \in UNION {f.instances : f \in c.findings}}
    = {Named(r) : r \in WithDisposition(c, "confirmed")}

\* The instances of the findings are the confirmed records, severity included.
ProjectsConfirmed(c) ==
  UNION {f.instances : f \in c.findings}
    = {[cand |-> r.cand, ordinal |-> r.ordinal, result |-> r.result, severity |-> r.severity] :
         r \in WithDisposition(c, "confirmed")}

\* The confirmed records that a finding stands for.
Members(f) == {Named(i) : i \in f.instances}

FindingsValid(c) ==
  LET confirmed == c.counts["confirmed"] IN
  /\ (confirmed = 0) <=> (c.canonical = 0)
  /\ c.canonical <= confirmed
  /\ Cardinality(c.findings) = c.canonical
  /\ \A f \in c.findings : FindingValid(f) /\ \A i \in f.instances : i.result \in c.verifiers
  /\ Cardinality(UNION {Members(f) : f \in c.findings}) = confirmed
  /\ \A f, g \in c.findings : f # g => f.root # g.root /\ Members(f) \cap Members(g) = {}
  /\ ProjectsConfirmed(c)

\* The manual items of the target and of the verifiers, and no result in two
\* domains.
ManualValid(c) ==
  /\ Cardinality(c.adapterItems) = c.adapter
  /\ \A d, e \in c.adapterItems : d # {} /\ (d # e => d \cap e = {})
  /\ Cardinality(UNION c.adapterItems) = c.coverage.manual
  /\ c.verifierItems = {Named(r) : r \in WithDisposition(c, "needs_manual_review")}
  /\ LET confirmed == {Named(i) : i \in UNION {f.instances : f \in c.findings}} IN
       \A i \in confirmed, j \in c.verifierItems : Pair(i) # Pair(j) /\ i.result # j.result

\* Either a reviewer answered for the reviewable atoms, or there were none.
BranchValid(c) ==
  IF c.coverage.reviewed > 0
  THEN /\ c.dispatched /\ Cardinality(c.reviewer) = 1
       /\ c.accepted = c.reviewer \cup c.verifiers
  ELSE /\ ~c.dispatched /\ c.reviewer = {}
       /\ c.coverage.manual = c.coverage.total
       /\ c.raw = 0 /\ c.verified = 0 /\ c.canonical = 0
       /\ \A d \in Dispositions : c.counts[d] = 0
       /\ c.verifiers = {} /\ c.findings = {}
       /\ c.adapter > 0 /\ c.accepted = {}

\* The schema of a completion: its lists are finite and its numbers count.
SchemaValid(c) ==
  /\ IsFiniteSet(c.records) /\ IsFiniteSet(c.adapterItems)
  /\ c.coverage \in [{"total", "reviewed", "manual"} -> Nat] /\ c.coverage.total > 0
  /\ c.counts \in [Dispositions -> Nat] /\ {c.raw, c.canonical, c.adapter} \subseteq Nat
  /\ \A r \in c.records : r.disposition \in Dispositions

Valid(c) ==
  /\ SchemaValid(c)
  /\ c.coverage.reviewed + c.coverage.manual = c.coverage.total
  /\ RecordsValid(c) /\ FindingsValid(c) /\ ManualValid(c) /\ BranchValid(c)
  /\ c.verdict = VerdictOf(c.adapter + c.counts["needs_manual_review"], c.canonical)

\* render_evaluation_report, to the results the report is made for.
Renders(c, reviews, results) ==
  /\ Valid(c)
  /\ IsInjective(reviews) /\ IsInjective(results)
  /\ ToSet(reviews) \cup ToSet(results) = c.accepted
  /\ ToSet(reviews) = c.reviewer /\ ToSet(results) = c.verifiers

-----------------------------------------------------------------------------
(* The steps.                                                              *)

\* evaluate and the Store derive, validate and render from one evidence, for a
\* plan that sealed a number of attempts; a payload that is derived and not
\* accepted would end an evaluation in which nothing went wrong.
Conclude(attempts) ==
  /\ stage = "collect"
  /\ IF ~EvidenceFits(evidence, attempts) THEN stage' = "refused" /\ UNCHANGED completion
     ELSE /\ completion' = Derived(evidence)
          /\ stage' = IF Renders(completion', evidence.reviews, evidence.results)
                      THEN "derived" ELSE "invalid"
  /\ UNCHANGED <<evidence, edits>>

Counts == 0..MaxCandidates + 1

ChangedRecords(c) ==
  {[c EXCEPT !.records = @ \ {r}] : r \in c.records}
  \cup {[c EXCEPT !.records = (@ \ {r}) \cup {[r EXCEPT !.disposition = d, !.severity = s]}] :
          r \in c.records, d \in Dispositions, s \in Severities \cup {"none"}}

ChangedFindings(c) ==
  {[c EXCEPT !.findings = @ \ {f}] : f \in c.findings}
  \cup {[c EXCEPT !.findings = (@ \ {f}) \cup {[f EXCEPT !.severity = s]}] :
          f \in c.findings, s \in Severities}
  \cup (UNION {{[c EXCEPT !.findings =
                  (@ \ {f}) \cup {[f EXCEPT !.instances = (@ \ {i}) \cup {[i EXCEPT !.severity = s]}]}] :
                 i \in f.instances, s \in Severities} : f \in c.findings})
  \cup (UNION {{[c EXCEPT !.findings = (@ \ {f}) \cup {[f EXCEPT !.instances = @ \ {i}]}] :
                 i \in f.instances} : f \in c.findings})
  \cup {[c EXCEPT !.findings = (@ \ {f}) \cup {[f EXCEPT !.instances = @ \cup g.instances]}] :
          f \in c.findings, g \in c.findings}

ChangedManual(c) ==
  {[c EXCEPT !.adapterItems = @ \ {d}] : d \in c.adapterItems}
  \cup {[c EXCEPT !.verifierItems = @ \ {i}] : i \in c.verifierItems}
  \cup {[c EXCEPT !.verifierItems = @ \cup {Named(r)}] : r \in c.records}

ChangedNumbers(c) ==
  {[c EXCEPT !.counts[d] = n] : d \in Dispositions, n \in Counts}
  \cup {[c EXCEPT !.canonical = n] : n \in Counts}
  \cup {[c EXCEPT !.adapter = n] : n \in Counts}
  \cup {[c EXCEPT !.raw = n, !.verified = n] : n \in Counts}
  \cup {[c EXCEPT !.coverage[k] = n] : k \in {"total", "reviewed", "manual"}, n \in Counts}
  \cup {[c EXCEPT !.verdict = v] : v \in Verdicts}

\* A payload is changed by somebody who has none of its evidence to show, one
\* thing at a time; whatever submits or renders it has it validated.
Edit ==
  /\ stage \in {"derived", "edited"} /\ edits < MaxEdits
  /\ completion' \in ChangedRecords(completion) \cup ChangedFindings(completion)
                       \cup ChangedManual(completion) \cup ChangedNumbers(completion)
  /\ completion' # completion
  /\ stage' = "edited" /\ edits' = edits + 1
  /\ evidence' = NoEvidence(CHOOSE t \in Targets : TRUE)

Next ==
  \/ PacketReviewer \/ Review \/ PacketVerifier \/ Answer
  \/ \E n \in 0..MaxCandidates + 1 : Conclude(n)
  \/ Edit

Spec == Init /\ [][Next]_vars

-----------------------------------------------------------------------------
(* Properties.                                                             *)

\* A reference for the projection: what the evidence says, without an order.
Confirmed(e) == {r \in ToSet(e.results) : r.disposition = "confirmed"}
RootsConfirmed(e) == {r.task.cand.root : r \in Confirmed(e)}
OfRoot(e, x) == {r \in Confirmed(e) : r.task.cand.root = x}
ManualNeeded(e) ==
  e.target.manual # {} \/ \E r \in ToSet(e.results) : r.disposition = "needs_manual_review"

\* Three pieces of code agree: the validator and the renderer take whatever was
\* projected, and it says of each root cause, in whatever order the packets and
\* results came, once, the higher severity and all that the verifiers said.
ProjectionExact ==
  /\ stage # "invalid"
  /\ stage = "derived" =>
       /\ {f.root : f \in completion.findings} = RootsConfirmed(evidence)
       /\ Cardinality(completion.findings) = Cardinality(RootsConfirmed(evidence))
       /\ \A f \in completion.findings :
            LET rs == OfRoot(evidence, f.root) IN
            /\ {i.result : i \in f.instances} = rs
            /\ f.proof = {r.text : r \in rs}
            /\ f.severity = "Nit" <=> \A r \in rs : r.severity = "Nit"
       /\ completion.verdict = "clean" <=>
            ~ManualNeeded(evidence) /\ Confirmed(evidence) = {}
       /\ completion.verdict = "findings" <=>
            ~ManualNeeded(evidence) /\ Confirmed(evidence) # {}

Holds(f, r) == Named(r) \in Members(f)

Honest(c) ==
  /\ \A r \in WithDisposition(c, "confirmed") : \E f \in c.findings :
       /\ \A g \in c.findings : Holds(g, r) <=> g = f
       /\ r.severity = "Important" => f.severity = "Important"
  /\ \A f \in c.findings : \A i \in f.instances :
       \E r \in WithDisposition(c, "confirmed") : Named(i) = Named(r)
  /\ {Named(r) : r \in WithDisposition(c, "needs_manual_review")} = c.verifierItems
  /\ c.coverage.total - c.coverage.reviewed = Cardinality(UNION c.adapterItems)
  /\ c.verdict # "manual_review_required" =>
       c.verifierItems = {} /\ c.coverage.reviewed = c.coverage.total
  /\ c.verdict = "clean" => WithDisposition(c, "confirmed") = {}

\* Whoever wrote a completion, if it passes the validator it hides nothing that
\* its own records say: each confirmed record is in one finding that is no
\* milder than it, each record for a person and each manual atom is in the
\* items, and the verdict is theirs.
ValidatedHonest == stage = "edited" /\ Valid(completion) => Honest(completion)
=============================================================================
