# A verification project for local-ultra-review

local-ultra-review runs a code review with worker processes on the user's own
machine and keeps the evidence. The repository holds two generations of it:

- the package `src/local_ultra_review`: an orchestrator that seals a review
  target, dispatches one reviewer and one verifier per candidate to a worker
  backend, and commits every packet, result and conclusion to an append-only
  session store;
- the older scripts under `scripts/`: a pipeline over a git worktree that
  collects context, runs reviewers, ranks findings and posts them.

The TLA+ modules here model the package first, because that is where the
promises are: what a session store that was flushed, interrupted or raced for
still says, what a sealed target leaves to whom, and what an evaluation that
has ended may claim. The scripts follow, from the worktree a session reviews in
to the review on GitHub. The first part of this file is the inventory, the
second what is modelled, checked and proved, the third what is not modelled,
the fourth the plan.

Paths below are relative to the repository; `store.py` means
`src/local_ultra_review/store.py`, and so on.

## 1. The system

| Part | State it keeps | Operations | Talks to |
|---|---|---|---|
| Session creation (`store.py`, `ArtifactStore.create`) | lock file, staging directory, session root | `create` | file system, other creators |
| Artifact store (`store.py`) | artifact files, `ledger.jsonl`, hash chain | `write_artifact`, `append_event`, `verify` | file system |
| Lifecycle validator (`store.py`, `_validate_session_sequence`) | none; recomputed from the ledger | run before each commit and in `verify` | store, completion projection |
| Orchestrator (`orchestrator.py`, `evaluate`) | one session, one plan | one call per evaluation | store, backend, renderer |
| Scripted backend (`backend.py`, `FakeBackend`) | cursor, remembered identities, consumption state | `readiness`, `run`, consumption oracle | orchestrator |
| Codex backend (`backend.py`, `CodexBackend`) | preflight record | `readiness` (always blocks), `run` | `codex` processes |
| Completion projection (`completion_projection.py`) | none | derives the completion from plan and evidence | validator, orchestrator |
| Contracts (`contracts.py`) | none | schemas, diagnosis table | everything |
| Rendering (`render.py`) | none | render | orchestrator |
| View materialisation (`render.py`, `_materialize`) | the view beside the session root, shared by the sessions of one parent directory; temporary files | write or replace a view | orchestrator, file system, other sessions |
| Git target, redaction (`git_target.py`, `redaction.py`) | none | partition of a diff, safe sinks | orchestrator |
| Worktree scripts (`scripts/prepare-worktree.sh`, `prepare-pr-worktree.sh`, `ensure-local-ignore.sh`, `finalize-session.sh`, `cleanup.sh`) | worktree registration, session directory, `info/exclude` | prepare, finalize, clean up | git, the user's working tree |
| Review context (`scripts/collect-*.py`, `collect-diff.sh`, `run-checks.sh`, ...) | none | each writes one file | git, `gh` |
| Reviewers (`scripts/run-reviewers.py`) | a candidate file per role | run the roles side by side | commands of the host |
| Candidate pipeline (`scripts/verify-findings.py`, `dedupe-rank.py`, `render-report.py`) | files of a session | verify, merge, rank, render | session directory |
| Posting (`scripts/post-github-review.py`, `post-github-summary.py`) | none | post a review or a summary | `gh`, a pull request that moves on |

What is hard in it:

- **Creation** is a race on a path: several processes may create the same
  session root, any of them may be interrupted or killed between two system
  calls, and a power loss keeps only what was flushed.
- **Commits** are two files: the artifact and the ledger record that names it.
  Each is durable at a different moment. The class is documented as
  single-writer (`store.py`, class comment) and takes no lock.
- **Views** are files beside the session root. Two sessions with one parent
  directory replace each other's, and the directory may be moved away while a
  view is written.
- **The lifecycle** is a long loop with many local variables; what a session
  may contain follows from all its branches together.
- **An evaluation** duplicates part of what the Store checks. If the two
  disagree about a stage, an ordinary failure ends as an integrity failure.
- **The backend** is consumed: an attempt that was rejected is gone, and a
  backend shared by two evaluations may be found unused by both.
- **The conclusion** of an evaluation is computed in one place, checked in a
  second and rendered in a third; each counts the same records again.
- **A target** is split by two passes over the diff with overlapping claims.
- **Worktrees** are prepared by shell scripts that may stop after any line,
  beside each other, while the user edits, stages and commits.
- **Posting** meets a pull request that has moved since its context was
  collected, and calls whose answer is lost.

`PROJECT.json` lists the hazards at their lines, with the properties that would
catch each. Four have none, because the code promises nothing of them: parent
directories that `create` or a view makes are not flushed in their own parents;
the lock of a killed `create` stays; and the candidates that an earlier run of
the reviewers left cannot be told from new ones. The models have all four, and
what is checked holds with them.

## 2. What is modelled, checked and proved

### Modules

| Module | Models | Checked by | Proved in |
|---|---|---|---|
| `Lifecycle` | `_validate_session_sequence`, stage table, verdict | through the two below | |
| `SessionLifecycle` | an arbitrary caller against that validator | `session_lifecycle` | `SessionLifecycle_proofs` |
| `SessionCreate` | `ArtifactStore.create`, system call by system call | `session_create` | `SessionCreate_proofs` |
| `SessionRoot` | what `create` promises | as a property | as a theorem |
| `ArtifactStore` | `write_artifact`, `append_event`, `verify` | `store_solo`, `store_race` | `ArtifactStore_proofs` |
| `CommitLog` | what the store promises | as a property | as a theorem |
| `Evaluation` | `evaluate`, `FakeBackend` | `evaluation_alone`, `_shared` | `Evaluation_proofs` |
| `EvaluationPromise` | what evaluations of one backend promise | as a property | as a theorem |
| `ViewMaterialization` | `_materialize`, system call by system call | `view_materialization` | `ViewMaterialization_proofs` |
| `CompletionProjection` | `derive_completion_payload`, the semantic checks of a completion, what a report demands of it | `completion_projection` | `CompletionProjection_proofs` |
| `TargetPartition` | `seal_two_dot_target`, `classify_and_redact_diff` | `target_partition` | `TargetPartition_proofs` |
| `WorktreeSession` | the five worktree scripts | `worktree_session` | `Scripts_proofs` |
| `CandidatePipeline` | reviewers, gates, merge and ranking | through the next | `Scripts_proofs` |
| `PostReview` | the two posting scripts, after `CandidatePipeline` | `post_review`, `post_review_listed` | `Scripts_proofs` |

`MC_*` modules only give constants small values. An operator whose name begins
with `Bug_` is a plausible error in the definition right after it (a dropped
flush, a wrong counter, a forgotten guard). No specification uses it. The table
`mutants` in `PROJECT.json` says which property must be violated when it
replaces the original; that is the evidence that the property is sensitive to
the code.

### Lifecycle and SessionLifecycle

`Lifecycle` takes the validator's loop one artifact at a time. The record `life`
is the loop's local variables, `Admits` the absence of an `IntegrityError`,
`Advance` the assignments. The Store recomputes the loop over the whole ledger
at every call; since `Advance` is a function of the previous value and the
artifact, keeping its value is the same.

`SessionLifecycle` lets anyone submit any well formed artifact, so its
invariants hold of every session that `verify` accepts, whoever wrote it. Its
properties are read off the ledger, not off `life`.

Data that is abstracted: a candidate is its canonical hash, a task the role,
candidate and duplicate ordinal its packet binds, an input hash the position in
the ledger. The attempt hash, a fourth execution identity, is bound by the
other three and left out. `dismissed` stands for the two dispositions that no
rule tells apart.

Run `session_lifecycle`: three candidates, one of them off the target, up to two
per reviewer result (so equal ones occur), three threads and launches (one more
than needed for a full session's second result, so that reuse is possible and
avoidable). Every stage, each diagnosis and all three verdicts occur. Symmetry
over candidates on the target, threads and launches is sound: the properties
are invariants that compare those values only for equality.

The module type invariants that are theorems (of `SessionLifecycle`,
`SessionCreate`, `ArtifactStore`, `ViewMaterialization`, `TargetPartition` and
`WorktreeSession`) are not run again.

### SessionCreate and SessionRoot

The file system is kept twice: as the processes see it (`lock`, `tree`, `final`)
and as far as it was flushed (`keptLock`, `sealed`, `keptFinal`). A step is a
system call or a group of calls whose intermediate states are only seen as
"partial". Errors of every step, `KeyboardInterrupt` (which skips `except
Exception` and not `finally`), kills, power losses, and a foreign program that
makes the path are actions of their own.

- The descriptor of the lock file is closed before the `try` statement, so an
  error there leaves the lock behind; `messy` marks the calls that could not
  clean up, and `NoLitter` speaks of the others only.
- `mkdir(parents=True)` (`store.py:716`) flushes no ancestor. `anchored` says
  whether the parent directory's own entry is durable; without it even an
  acknowledged session can be lost with its parent, and `SessionRoot` says so.
- The platform branches of the exclusive rename are one step: each refuses an
  existing destination.
- A removal of the staging directory that was not flushed can be undone only by
  a power loss before the final flush of the parent, that is for calls which
  the loss ends; only the litter of dead calls is affected.

Run `session_create`: three creators, two troubles. Two creators show the race,
the third one arrives at a lock left behind. Two troubles give a fault in the
handler of a fault and a power loss after a kill. `SomeoneCreates` needs
fairness: a process that runs is scheduled again (`WF` on the steps of a call,
none on faults).

### ArtifactStore and CommitLog

One action per system call of the commit protocol, with the verifications
before and after. The ledger is a sequence of records; `tail` says whether it
ends in a partial record. `kept` is what was flushed. A verification is one
step; a killed process is a call that is refused, and another process may open
the session later. `append_event` writes records that commit nothing.
Whether the lifecycle lets an artifact follow others is the constant operator
`Accepts`; a ledger is `Legal` when each of its artifacts was accepted after the
ones before it, which is the validator's loop. The directory of an artifact type,
which the first artifact of the type makes and flushes, is left out: it is there
before any name in it is flushed.

`store_solo` is the documented use: one writer, four calls, two troubles, four
envelopes for two places, so that a call can be repeated, rejected by the
lifecycle, and follow a half-done one. `CommitsBacked` and `AckedKept` are about
power losses at any moment; `SoloSound` and `LegalCallsSucceed` about what is
left without trouble. `LegalCallsSucceed` uses weak fairness on the steps of a
call in progress; nobody has to call.

`store_race` breaks the single-writer rule with two writers. The chain can
break and the session then never verifies again, as the documentation has it;
what the run shows is that even then everything that was acknowledged stays in
the sound part of the ledger, which is a legal log (`ImplementsCommitLog`).

### Evaluation and EvaluationPromise

`evaluate` with one action per call that reads or changes state outside of it.
The Store's answers are sound, failed or damaged (`Corrupt`), a write may fail
with its artifact committed or not. The backend's script has `total` attempts
whose content is chosen when they are consumed: accepted, rejected for the task,
the thread or the launch, or unavailable. `spent` and `adverse` are history
variables: the attempts consumed for an evaluation, and whether something that
it is not to blame for went wrong.

- `evaluation_alone`: every worker behaviour with up to two candidates (equal
  ones included) and two faults, 232,156 states without symmetry. The outcome is
  what the ledger says, and the Store refuses nothing the orchestrator writes,
  which is the hazard of having the stage rules twice. `EvaluationEnds` is
  checked there too, under weak fairness on the steps of a call: every loop of
  `evaluate` is bounded by the candidates, and each step is a call that returns
  or raises, so an evaluation ends, and with a completion unless something
  outside the orchestrator went wrong.
- `evaluation_shared`: two evaluations interleaved on one backend, no faults (a
  fault only ends an evaluation earlier). A completion owns the whole script.
  The code protects this three times (the gate, the projection and the cursor),
  so a single dropped check is not always visible; the mutants are the ones
  that are.

`run` of the backend is one step: nothing in the repository calls one backend
from two threads. A crash of the evaluating process is not modelled; it leaves
an open session, which no code resumes.

### ViewMaterialization

One action per system call of `_materialize` and its two helpers, for calls with
the same path. `now` is a directory as its processes see it, `disk` the set of
its states since it was last flushed; a power loss may mix what was not flushed,
but does not split a rename. `text` is what each call is to write.

- The read-back compares bytes, so a call whose view was replaced by one with
  the same text returns, and one whose view was replaced by another text raises
  although it published. `LastWriterReturns` says that this never hits all.
- The parent directory is checked three times because another program may move
  it away (`MoveParent`), and the view may be changed by others (`ChangeView`):
  the view they leave is a file with other content, a link, a directory, or
  nothing.
- A missing parent is made, but its own entry is not flushed (`loose`); a
  blocked evaluation comes here before any session exists. `ReturnedKept`
  promises nothing of the view in such a directory.
- A call that finds the parent made by another one between its two attempts to
  open it raises.
- `except Exception` does not catch `KeyboardInterrupt`, so an interrupt is like
  a kill: the temporary file stays.

Only the last component of the parent path is made or moved; the walk to it is
one step. The checks of the arguments (absolute path, exact basename) are left
out: every caller passes a path that satisfies them.

Run `view_materialization`: two calls with equal or different texts, two
directories, so that the parent can be moved away and back, and two troubles:
a move and a fault of the clean-up that follows it, or a kill and a power loss.

### CompletionProjection

Three pieces of code must agree on the conclusion of an evaluation.
`derive_completion_payload` is `EvidenceFits` (no exception on the way) and
`Derived`: `Disposed` is its loop over the reviewer's candidates, a recursive
function of how many it has taken, and `Enrolled` the group of a root cause.
`_validate_evaluation_completion_semantics` is `Valid`, a conjunct per passage
of the function, over any payload of the schema. `render_evaluation_report` is
`Renders`, as far as it can refuse. `Conclude` is the place in `evaluate`, and
in the Store's validator, where all three come together: what is derived and
then refused would end, as `completion_projection_rejected`, an evaluation in
which nothing went wrong.

A hash stands for what it is a hash of, so a sorted list of hashes is a set;
that a record is in its place in such a list is left out. A candidate is its
root cause and its severity, and a verifier's proof, provenance, fix, judgment
and risk are one text. `exec` stands for the four identities of a worker
execution, `bound` for the comparisons that tie a result to its task.

The evidence is whatever a caller may have: packets and results in any order,
of any task around the reviewer's candidates, missing, repeated, of another
task, or from one execution. `ProjectionExact` compares the loop with a
reference that has no order: each confirmed root cause is one finding, with the
results of exactly its candidates, all their texts and the higher severity. In
the other half somebody changes a completion, one record, instance, number or
verdict at a time (`Edit`); `ValidatedHonest` says that what still passes the
validator hides nothing. Changed payloads that pass do occur, for example with
two severities changed together.

Run `completion_projection`: three candidates, two of them of one root cause,
and up to two in a result, so that equal ones, two of one root and two apart
occur; four targets, one of them no partition; three executions, so that reuse
is possible and avoidable; two changes, because one alone is nearly always
noticed. 4.2 million states. Symmetry over the executions, which are only
compared for equality.

### TargetPartition

`Resolve` and `ReadView` are the calls of git that find the changes, `Classify`
the pass over the paths that collects the hints of `_manual`, `Claim` the pass
that gives each hint the atoms which no earlier hint has, `Finish` the checks
and the packet. A call of git that fails or an answer that does not parse is
`Refuse`. A path is its position in the sorted list, a hunk its number. Where
the redaction found passages is data; which hunks a passage takes out of the
review (`HunksForRange`) is modelled by what it does, including passages before
the first hunk and across several.

Run `target_partition`: two paths, each with up to two hunks, with every kind of
change, of withheld diff and of places of passages: 33,181 states. Paths do not
interact, so two are enough to see that they do not, and `TargetPartition_proofs`
covers any number. `Evaluation` starts from any partition.

### WorktreeSession

One action per command of the scripts that changes state outside of them.
`live` is one file in HEAD, in the index and in the working tree, a patch the
pair of versions it leads from and to; `git apply` fails on any other version.
A run may stop at each step (`set -e`, or a signal), and the user edits, stages
and commits between any two. `saw`, `disturbed`, `got` and `asked` are history.

- The two diffs are two commands. When the user stages or commits in between,
  or before the worktree is added, the patches may lead nowhere, or to a text
  that never was; `disturbed` marks these runs, and `SnapshotExact` speaks of
  the others: however the user edits, they get the text of the second diff.
- Session ids of `prepare-worktree.sh` change by the second, so two runs may
  share one. `git worktree add` refuses the second; it has written the first
  run's patch files anew by then, which counts as `disturbed`.
- `finalize-session.sh` looks for its path with `grep` in the list of
  worktrees, so a longer path that begins alike is found too (`Longer`); `git
  worktree remove` then fails, which is what `PreparedKept` relies on.
- `info/exclude` is written by two commands, and the rule that was last may
  lack its newline. Two runs at once leave a doubled pattern or an empty line,
  and no broken rule (`IgnoredFirst`).

Run `worktree_session`: two runs, for one session or for two whose paths begin
alike, three versions of the file (head, index and working tree can all
differ), one action of the user, one closing script; 2.4 million states.
Symmetry over runs and versions, which are compared only for equality. One
action of the user suffices to disturb; the theorems have no bound.

### CandidatePipeline and PostReview

`CandidatePipeline` has an action for each script the host agent runs in turn:
the reviewers side by side (answered, timed out or without a command, over the
files of an earlier run), `Verify`, `Rank`. A reviewer is its position in the
configuration, for their files are read in that order. The gates, `merge_rows`
and the ranking are functions with the order of the code: the loops that build
something up are recursive functions of the rounds made, and a stable sort puts
each row behind as many rows as come before it (`Arranged`). The title and the
failure scenario of a finding are those of the first row of its key and are left
out. `Kept` is what is shown and posted, `Shown` what `render-report.py` prints
of it: the first `EvidenceLimit` items of evidence (five).

A line of a patch is what the parser gets from `splitlines()`: one of eight kinds
that the parser and the diff tell apart, and whether it starts a line of the
diff. Python also ends a line at a form feed, a vertical tab, U+0085, U+2028 and
a few more, git does not; the rest of a line that is cut so may look like
anything, also like a header of a hunk, with a number or without. `PostReview`
adds the pull request, whose author may push at any time, and the posting
scripts; a call of `gh` may fail, or succeed without an answer, and the user
may run a script that failed again. `lost` counts the reviews whose answer did
not arrive.

- `ConfirmedEarned`: what is called confirmed has a candidate of its name in a
  file, on a line that exists and with the fields a reader decides by, that
  carries the status `confirmed` or passed every gate of `--static-confirm`. The
  script believes the status whoever wrote it, the reviewer too, and asks such a
  candidate for none of the other gates; nor does it know a candidate of an
  earlier run. The property promises no more.
- `ConfirmedShown`: the report has at most one finding for a confirmed candidate,
  and it tells what the candidate says: no text is shorter, and its evidence is
  there, unless the report already shows all it may. There is none only for what
  the first candidate of the key is: a nit when the report has all its nits, or
  of a severity that has no section. The severity is the first one's, whatever
  the others say; see below.
- `InlineOnDiffLine`: the parser takes an added line that begins like a file
  header for one and loses count of it; the lines it does take are in the diff
  all the same (`RightSide`). Behind a line that is cut its counter may run
  ahead, and nothing is promised from the start of such a hunk on (`Overrun`).
  The files may also be fetched after a push, while the review names the commit
  of the context; the code does not compare the two, and nothing is promised.
- `EveryFindingPlaced`: inline or in the list, exactly once, as long as the list
  has room.
- `PostedOnce`: only a lost answer can lead to a second review.

Run `post_review`: two reviewers with one candidate each out of eighteen that
fail each gate in turn or share a key, a candidate of an earlier run in each
file, five patches, two heads, two tries. The patches lose count at lines like
file headers, are cut before a context line (so that the parser makes up a third
line), and are cut before what looks like headers. Evidence is limited to two
items, the main findings to two and everything else to one, so that each limit is
reached (in the scripts 5, 20, 20 and 10; they are parameters of the model):
4.6 million states.

Run `post_review_listed` checks what `README.md:121` says: a verified finding
that cannot be placed on a commentable line is listed in the review body.
`build_review_body` lists the first `ListLimit` skipped findings only (20,
`post-github-review.py:181`), and the ranking puts no limit on important
findings, so the next one is nowhere in the review. TLC finds this with a limit
of one and two findings.

In three more places the scripts do not do what the documents say. No run shows
them; the properties above hold of what the code does, and say where they stop:

- `dedupe-rank.py` gives a merged finding the severity of its first row
  (`dedupe-rank.py:62-66`) and cuts the nits after the merge
  (`dedupe-rank.py:100`), so an Important candidate behind a Nit with the same key
  goes with the Nit; `prompts/08-dedupe-ranker.md:36` says "Important: no
  artificial limit, but merge duplicates".
- `main_findings`, cut to 20 (`dedupe-rank.py:102`), is written to the file and
  read by no script; the report and the review show everything in `important`
  and `nits`. `prompts/08-dedupe-ranker.md:39` says "Main report: at most 20
  unless the user requests all confirmed findings".
- `parse_commentable_right_lines` cuts a patch with `splitlines()`
  (`post-github-review.py:72`), so an added line with a form feed counts as two
  lines when its rest begins with a blank or a plus sign, and a line that is not
  in the diff becomes commentable. `README.md:121` says that a finding is listed
  "instead of forcing a bad inline comment".

### Deadlock

Every run says `CHECK_DEADLOCK FALSE`: sessions, calls and evaluations end, and
nobody has to start another one. That they do not stop early is what the three
liveness properties (`SomeoneCreates`, `LegalCallsSucceed`, `EvaluationEnds`)
are for. Completions, sealed targets, closed worktrees and posted reviews are
final as well; their specifications state safety only.

### Proofs

TLC checks the small instances above. TLAPS proves the following for all values
of the constants: any number of candidates, workers, creators, writers, calls,
paths, runs and faults. The only assumptions are the ones stated next to the
constants (`LifecycleAssumption`, `SessionCreateAssumption`, `StoreAssumption`,
`EvaluationAssumption`, `ViewAssumption`, `TargetAssumption`,
`WorktreeAssumption`, `ProjectionAssumption`, `PipelineAssumption`,
`PostAssumption`): special values are not ordinary
ones, bounds are naturals, data is of the shape the code reads, and a passage
lies in hunks that there are.

- **`SessionLifecycle_proofs`**: `TypeOK`, `TerminalIsLast`,
  `ExecutionsDistinct`, `VerdictHonest`, `DiagnosisTruthful`,
  `CompletionAccounts`, `AlwaysConcludable`. The properties
  speak of the ledger and the guards of `life`, so neither is inductive alone.
  The invariant `Inv` ties them: `Staged` lists the combinations of flags that
  a stage consists of (needed for `AlwaysConcludable`, and for the bound on
  `verified`), `Ending` says that the last artifacts of the ledger are what
  `terminal` and `reported` remember, `Remembered` that every result's
  identities are in the sets, `Accounted` that the dispositions are those of
  the ledger and each verdict was computed from them. The proof has a lemma per
  kind of commit (which guard applied, what changed), then lemmas that say
  what one more artifact of that kind does to each part. The two properties
  that count artifacts rest on the layout of a ledger: a reviewed session is
  target, packet, result, then packet and result for each candidate in turn, and
  at most two artifacts that conclude it; so the length and the place of an
  artifact say what it is, and `LayoutInvariance` replaces an induction over
  the counts.
- **`SessionCreate_proofs`**: `TypeOK`, `Exclusive`, `PublishedWhole`,
  `NoLitter`, and the refinement `Spec => ImplementsSessionRoot`. `Inv` adds
  that whoever is in the critical section owns the lock (`Holding`), that a
  visible root was flushed whole (`Published`; without "flushed" a power loss
  breaks it), that a flushed root is the visible one (`Kept`), that a call that
  passed the flush of the parent without an exception knows its root durable
  (`Told`; this is what makes the acknowledgement safe), and what a tidy call
  leaves at each step (`Tidy`). In the refinement `Rename` is the appearance,
  `Verify` the acknowledgement, `PowerLoss` the loss or a stutter.
- **`ArtifactStore_proofs`**: `TypeOK`, `CommitsBacked`, `AckedKept` and the
  refinement `Spec => ImplementsCommitLog` for any number of writers, so also
  when the single-writer rule is broken, and `SoloSound` for one. `Inv`
  follows an artifact on its way (`Durable`) and its record (`Recorded`:
  appended, then in the flushed part of the ledger, unless the ledger is torn,
  in which case the final verification refuses). The lemmas on prefixes of the
  ledger are what a power loss needs. The log of a ledger is a recursive
  function: that it exists and unfolds is proved first, by a least
  counterexample, and then that the log of a prefix is a prefix of the log. In
  the refinement only a record that extends the sound part is a step:
  `AckedSound` says that whatever was acknowledged is in that part, whatever a
  second writer appended behind it. `SoloInv` says that without trouble the one writer finds the chain
  as it left it, so its record continues it.
- **`Evaluation_proofs`**: `TypeOK`, `OutcomeMatchesStore`,
  `RecoveryOnlyOnFault`, `CompletionExact`, the action property
  `DispatchRecorded` and the refinement `Spec => ImplementsPromise`, for any
  number of evaluations of one backend. None of the properties is inductive: the
  control of `evaluate` is its program counter, the guards of the next write are
  about the validator's state. `Own` relates the two; at each step it says what
  the session must look like, so that the next write is admitted, and with it
  `RecoveryOnlyOnFault` follows from `Faults`: the recovery view needs a fault
  or damage. `Known` says that the backend remembers each identity of every
  session, which is why it never hands out one that a session has; `Books` that
  the packets and results of the ledger are those the validator counted; `Budget`
  that no attempt was consumed for two evaluations, so that one which owns the
  script leaves nothing to another. Each action has a lemma that it preserves
  `Inv`, and one that says what it does to ledgers and cursor (`Effects`), from
  which the action property and each step of the refinement follow. In the
  refinement a session is what its ledger and the outcome show (`Phase`).
- **`TargetPartition_proofs`**: `TypeOK`, `Partitioned`, `ManualForCause`. The
  invariant says what the two passes have done halfway: `hints` are those of the
  paths classified (`Progress`), and `claimed` is what the hints heard so far
  select, cut up by the dispositions without overlap (`Claimed`). It needs no
  order of the hints, so the partition does not depend on the sort. The lemma
  `HintedForCause` ties a hint to the reference definition of a cause.
- **`Scripts_proofs`**, the worktrees: `TypeOK`, `SnapshotExact`,
  `PreparedKept`, `IgnoredFirst`. `OwnInv` says that a worktree that a run added
  is its own until somebody closes the session, `PatchInv` that at each step the
  patches still to apply lead from the text of the worktree to what the run saw,
  or the run is marked, and `IgnoreInv` that a run which is to write the pattern
  finds the last line ended, whatever the other runs wrote since it looked.
- **`Scripts_proofs`**, from the candidates to the review: `ConfirmedEarned`,
  `ConfirmedShown`, `InlineOnDiffLine`, `EveryFindingPlaced`, `PostedOnce`, for
  any reviewers, candidates, patches, limits and tries. The state invariant
  `PostingInv` says that each file is what its script makes of the one before,
  and that a review is not sent more often than answers got lost, plus one. The
  rest is about what the scripts compute. A loop is a recursive function; `Loop`
  proves once that such a function exists and unfolds, and `Rounds` that what
  its start has and each round keeps holds in the end. Each loop has an
  invariant of its own: `MergeInv` (each row so far has the entry of its key,
  which has all its evidence and no shorter text, and each entry keeps the name
  and the severity of the first row of its key), `CountInv` (each line taken is
  on the right side of the diff or from a hunk on in which a line is cut; in a
  hunk without a cut the parser's number is at most behind that of the diff, by
  the lines that it took for file headers; in one with a cut it is only known
  not to be before the start of the hunk), `PlaceInv` (each
  finding so far is among the comments and the skipped ones as often as it
  came, and the comments are on lines that take one). For the sort, ranks are
  counted: the number of rows before a row is another one for each row and
  covers all places, so a sorted list has exactly the rows it was given.
- **`CompletionProjection_proofs`**: every payload that passes the validator is
  `Honest`, of any size and origin (`ValidatorSuffices`), hence
  `ValidatedHonest`. No invariant is needed, for the validator looks at nothing
  but the payload; the proof shows which of its many comparisons carry it: the
  distinct pairs of the records, the disjoint members of the findings, and the
  exact projections. And `ProjectionExact`, for any number of candidates and any
  order of packets and results. `ProjectionInv` says that what is derived came
  of evidence that fits. What the loop has done after some rounds is a function
  of the set of records made so far (`Grouping`): a group for each root cause
  that one of them confirms, with all that they say of it. `EnrolledGroups` is
  the round, `DisposedGroups` the loop. Counting the equal candidates before
  each one gives a task that is nobody else's (`OrdinalsDiffer`) and numbers
  the equal ones from zero (`OrdinalsCount`, which the validator asks for); as
  many results as tasks, of distinct tasks, are then the results of exactly
  these (`ResultsTaken`). From there each comparison of the validator and the
  renderer is a count over the records (`DerivedRenders`), and the reference
  without an order says the same as the groups (`DerivedExact`).
- **`ViewMaterialization_proofs`**: `TypeOK`, `NeverTorn`, `ReturnedKept`,
  `NoLitter`, `LastWriterReturns`. The properties speak of the directory as it
  is; the invariant must speak of every state that may be on disk. `Whole`
  says that each view in it was flushed, `Lasting` that a published view is
  replaced by views only and that after the flush nothing older is left,
  `Tidy` where the owner of a temporary file can be. `Calm` is about runs
  without trouble: calls that opened the parent agree on it, the owner of the
  view is on its way to return, and while there is no view a call that failed
  left another one that will write it (it lost the race to make the parent).

Every invariant and action property that a run checks is a theorem, and so are
the refinements. Only model-checked is liveness (`SomeoneCreates`,
`LegalCallsSucceed`, `EvaluationEnds`): it rests on fairness and `ENABLED`, out
of this prover's reach.

## 3. Not modelled

- **Codex backend** (`backend.py`, `CodexBackend`): its readiness always
  blocks, `run` always raises `WorkerUnavailable`, and the launch spec it can
  build is used by tests only. `evaluate` sees a backend that is not ready,
  which `Evaluation` has. Preflight and version probes are reads whose results
  end in a record that nothing acts on.
- **Review context** (`scripts/collect-*.py`, `collect-diff.sh`,
  `collect-tests.py`, `run-checks.sh`, `detect-target.sh`, `preflight.sh`): each
  reads git or `gh` and writes one file; no state is shared and no order is
  fixed among them.
- **Redaction rules** (`redaction.py`): which texts are sensitive is data; what
  follows from where they are is in `TargetPartition`.
- **Contracts**: JSON schemas, hashing, canonical JSON and the qualification
  record are data. The diagnosis table is in `Lifecycle`, the completion in
  `CompletionProjection`.
- **Text**: wording and layout of reports, prompts and comments; the order of
  sorted lists of hashes.
- **Inside one attempt of the scripted backend** (`_accept_scripted_attempt`):
  the comparisons of an attempt with its task are a choice between accepted and
  the ways of being rejected.
- An output directory for worktrees that is absolute, which needs no rule in
  `info/exclude`; the command line, which maps outcomes to exit codes.

## 4. Plan

Done, in this order: lifecycle, creation, commits, evaluation, views; the
target, the pipeline with posting, the worktrees, the projection of the
completion; and the proofs of the safety properties of all of them. Next:

1. **Composition**: `Evaluation` on a target sealed by `TargetPartition`, with
   the completion of `CompletionProjection` in place of the account in
   `Lifecycle`.
2. **Scripted backend**: an attempt's comparisons one by one.
3. **Codex backend**, once its readiness can be anything but blocked.
