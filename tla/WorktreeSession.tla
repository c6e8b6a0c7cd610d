--------------------------- MODULE WorktreeSession ---------------------------
(***************************************************************************)
(* The worktrees the sessions review in: prepare-worktree.sh,              *)
(* prepare-pr-worktree.sh, ensure-local-ignore.sh, finalize-session.sh and *)
(* cleanup.sh, run side by side and stopped at any step, while the user    *)
(* goes on working in the live tree.                                       *)
(*                                                                         *)
(* Abstracted data: one file, whose text is a version; a patch is the pair *)
(* of the versions it leads from and to, or empty, when they are equal; it *)
(* applies to the version it leads from and to no other.  A line of        *)
(* info/exclude is whole or glued to the one before it.  The output        *)
(* directory is the default one, inside the repository.                    *)
(***************************************************************************)
EXTENDS Naturals, Sequences, SequencesExt

CONSTANTS
  Runs,      \* runs of the prepare scripts
  Ids,       \* session ids
  Longer,    \* the pairs <<i, j>> where the path of j begins with that of i
  Versions,  \* texts of the live file
  PRText,    \* its text at the head of the pull request
  Rules,     \* the lines of the user in info/exclude
  MaxEdits,  \* bound on what the user does in the live tree
  MaxCloses  \* bound on the runs of finalize-session.sh and cleanup.sh

None == "none"
Pattern == ".local-ultra-review/"
Lines == Range(Rules) \cup {Pattern, "", "glued"}
Texts == Versions \cup {PRText}
Empty == <<None, None>>
Patches == (Versions \X Versions) \cup {Empty}
Diff(from, to) == IF from = to THEN Empty ELSE <<from, to>>
Kinds == {"local", "bare", "pr"}  \* "bare": --no-apply-local-patches

ASSUME WorktreeAssumption ==
  /\ Longer \subseteq Ids \X Ids /\ \A i \in Ids : <<i, i>> \in Longer
  /\ None \notin Texts
  /\ Rules \in Seq(Lines)
  /\ MaxEdits \in Nat /\ MaxCloses \in Nat

VARIABLES
  live,     \* the file in HEAD, in the index and in the working tree
  exclude,  \* .git/info/exclude; `open`: its last line has no newline
  dirs,     \* the session directories
  patches,  \* staged.patch and unstaged.patch of each session directory
  trees,    \* the registered worktrees, by session id, and their text
  paths,    \* the sessions whose worktree-path.txt is written
  at,       \* the next step of each run
  kind, id, \* what each run was asked for
  closing,  \* what the closing scripts are about to remove
  edits, closes,
  saw, disturbed, got, asked
            \* history: the live text at the second diff of a run; whether the
            \* index, HEAD or its patches were changed under it; the text of
            \* its worktree when it returned; the sessions somebody closed

vars == <<live, exclude, dirs, patches, trees, paths, at, kind, id, closing, edits, closes,
          saw, disturbed, got, asked>>
user == <<live, edits>>
files == <<dirs, patches, trees, paths>>
asks == <<kind, id>>
close == <<closing, closes, asked>>
history == <<saw, disturbed, got>>

Steps == {"idle", "newline", "pattern", "mkdir", "staged", "unstaged", "add",
          "index", "apply", "checkout", "path", "done", "failed"}

TypeOK ==
  /\ live \in [head : Versions, index : Versions, work : Versions]
  /\ exclude \in [lines : Seq(Lines), open : BOOLEAN]
  /\ dirs \subseteq Ids /\ paths \subseteq Ids /\ closing \subseteq Ids /\ asked \subseteq Ids
  /\ patches \in [Ids -> [staged : Patches, unstaged : Patches]]
  /\ trees \in [Ids -> Texts \cup {None}]
  /\ at \in [Runs -> Steps] /\ kind \in [Runs -> Kinds] /\ id \in [Runs -> Ids]
  /\ saw \in [Runs -> Versions \cup {None}] /\ disturbed \in [Runs -> BOOLEAN]
  /\ got \in [Runs -> Texts \cup {None}]
  /\ edits \in 0..MaxEdits /\ closes \in 0..MaxCloses

Init ==
  /\ live \in [head : Versions, index : Versions, work : Versions]
  /\ \E open \in BOOLEAN : (open => Rules # <<>>) /\ exclude = [lines |-> Rules, open |-> open]
  /\ dirs = {} /\ paths = {} /\ closing = {} /\ asked = {}
  /\ patches = [i \in Ids |-> [staged |-> Empty, unstaged |-> Empty]]
  /\ trees = [i \in Ids |-> None]
  /\ at = [r \in Runs |-> "idle"]
  /\ kind \in [Runs -> Kinds] /\ id \in [Runs -> Ids]
  /\ saw = [r \in Runs |-> None] /\ disturbed = [r \in Runs |-> FALSE]
  /\ got = [r \in Runs |-> None]
  /\ edits = 0 /\ closes = 0

-----------------------------------------------------------------------------
(* The user.                                                               *)

\* The runs for which a change of the index or of HEAD comes between their
\* first diff and their worktree.
Exposed == {r \in Runs : at[r] \in {"unstaged", "add"}}

Work(next) ==
  /\ edits < MaxEdits /\ edits' = edits + 1
  /\ live' = next /\ live' # live
  /\ disturbed' = [r \in Runs |-> disturbed[r] \/
                     (r \in Exposed /\ <<next.head, next.index>> # <<live.head, live.index>>)]
  /\ UNCHANGED <<exclude, files, at, asks, close, saw, got>>

Edit == \E v \in Versions : Work([live EXCEPT !.work = v])
Stage == Work([live EXCEPT !.index = live.work])
Commit == Work([live EXCEPT !.head = live.index])

-----------------------------------------------------------------------------
(* ensure-local-ignore.sh                                                  *)

Go(r, step) == at' = [at EXCEPT ![r] = step]

\* A write at the end of the file.
Appended(file, line) ==
  [lines |-> IF file.open /\ file.lines # <<>>
             THEN [file.lines EXCEPT ![Len(file.lines)] = "glued"]
             ELSE Append(file.lines, line),
   open |-> FALSE]

\* An empty line, or the end of the last one.
NewLine(file) == IF file.open THEN [lines |-> file.lines, open |-> FALSE] ELSE Appended(file, "")

\* Bug: the last line is taken to have its newline.
Bug_LookForPatternAppending(r) ==
  /\ at[r] = "idle"
  /\ Go(r, IF Pattern \in Range(exclude.lines) THEN "mkdir" ELSE "pattern")
  /\ UNCHANGED <<user, exclude, files, asks, close, history>>

\* An open last line is a line for grep.
LookForPattern(r) ==
  /\ at[r] = "idle"
  /\ Go(r, IF Pattern \in Range(exclude.lines) THEN "mkdir"
           ELSE IF exclude.lines # <<>> THEN "newline" ELSE "pattern")
  /\ UNCHANGED <<user, exclude, files, asks, close, history>>

AppendNewline(r) ==
  /\ at[r] = "newline"
  /\ exclude' = NewLine(exclude)
  /\ Go(r, "pattern")
  /\ UNCHANGED <<user, files, asks, close, history>>

AppendPattern(r) ==
  /\ at[r] = "pattern"
  /\ exclude' = Appended(exclude, Pattern)
  /\ Go(r, "mkdir")
  /\ UNCHANGED <<user, files, asks, close, history>>

-----------------------------------------------------------------------------
(* prepare-worktree.sh and prepare-pr-worktree.sh                          *)

MakeDirectories(r) ==
  /\ at[r] = "mkdir"
  /\ dirs' = dirs \cup {id[r]}
  /\ Go(r, IF kind[r] = "pr" THEN "add" ELSE "staged")
  /\ UNCHANGED <<user, exclude, patches, trees, paths, asks, close, history>>

\* The runs that use the patches which r writes anew.
SharePatches(r) ==
  {q \in Runs \ {r} : id[q] = id[r] /\ at[q] \in {"unstaged", "add", "index", "apply"}}

WritePatch(r, name, from, to) ==
  /\ patches' = [patches EXCEPT ![id[r]][name] = Diff(from, to)]
  /\ UNCHANGED <<user, exclude, dirs, trees, paths, asks, close, got>>

DiffStaged(r) ==
  /\ at[r] = "staged"
  /\ WritePatch(r, "staged", live.head, live.index)
  /\ disturbed' = [q \in Runs |-> disturbed[q] \/ q \in SharePatches(r)]
  /\ Go(r, "unstaged")
  /\ UNCHANGED saw

DiffUnstaged(r) ==
  /\ at[r] = "unstaged"
  /\ WritePatch(r, "unstaged", live.index, live.work)
  /\ disturbed' = [q \in Runs |-> disturbed[q] \/ q \in SharePatches(r)]
  /\ saw' = [saw EXCEPT ![r] = live.work]
  /\ Go(r, "add")

Fail(r) == Go(r, "failed") /\ UNCHANGED trees

\* Bug: a worktree that exists is taken for the new one.
Bug_AddWorktreeReusing(r) ==
  /\ at[r] = "add"
  /\ trees' = [trees EXCEPT ![id[r]] = IF @ = None THEN live.head ELSE @]
  /\ Go(r, CASE kind[r] = "local" -> "index" [] kind[r] = "bare" -> "path"
             [] kind[r] = "pr" -> "checkout")
  /\ UNCHANGED <<user, exclude, dirs, patches, paths, asks, close, history>>

\* git refuses a directory that exists.
AddWorktree(r) ==
  /\ at[r] = "add"
  /\ IF trees[id[r]] # None THEN Fail(r)
     ELSE /\ trees' = [trees EXCEPT ![id[r]] = live.head]
          /\ Go(r, CASE kind[r] = "local" -> "index" [] kind[r] = "bare" -> "path"
                     [] kind[r] = "pr" -> "checkout")
  /\ UNCHANGED <<user, exclude, dirs, patches, paths, asks, close, history>>

\* git apply, which an empty patch never reaches.
ApplyPatch(r, patch, next) ==
  /\ IF patch = Empty THEN Go(r, next) /\ UNCHANGED trees
     ELSE IF trees[id[r]] = patch[1]
     THEN Go(r, next) /\ trees' = [trees EXCEPT ![id[r]] = patch[2]]
     ELSE Fail(r)
  /\ UNCHANGED <<user, exclude, dirs, patches, paths, asks, close, history>>

\* Bug: the second patch is applied only when the first is empty.
Bug_ApplyStagedOnly(r) ==
  /\ at[r] = "index"
  /\ ApplyPatch(r, patches[id[r]].staged, IF patches[id[r]].staged = Empty THEN "apply" ELSE "path")

ApplyStaged(r) == at[r] = "index" /\ ApplyPatch(r, patches[id[r]].staged, "apply")
ApplyUnstaged(r) == at[r] = "apply" /\ ApplyPatch(r, patches[id[r]].unstaged, "path")

\* The base is fetched and gh checks the pull request out; either may fail.
CheckOut(r) ==
  /\ at[r] = "checkout"
  /\ \/ trees[id[r]] # None /\ trees' = [trees EXCEPT ![id[r]] = PRText] /\ Go(r, "path")
     \/ Fail(r)
  /\ UNCHANGED <<user, exclude, dirs, patches, paths, asks, close, history>>

\* worktree-path.txt, and metadata.json, which a closing script never reads.
Record(r) ==
  /\ at[r] = "path"
  /\ paths' = paths \cup {id[r]}
  /\ got' = [got EXCEPT ![r] = trees[id[r]]]
  /\ Go(r, "done")
  /\ UNCHANGED <<user, exclude, dirs, patches, trees, asks, close, saw, disturbed>>

\* The run is stopped, or a command of it fails.
Interrupt(r) ==
  /\ at[r] \notin {"idle", "done", "failed"}
  /\ Fail(r)
  /\ UNCHANGED <<user, exclude, dirs, patches, paths, asks, close, history>>

-----------------------------------------------------------------------------
(* finalize-session.sh after a success, and cleanup.sh without --keep.     *)

\* The worktree is named by worktree-path.txt or by an argument; grep finds it
\* in the list when the path of a registered one begins with its path.
FindRegistered(i) ==
  /\ closes < MaxCloses /\ closes' = closes + 1
  /\ \E j \in Ids : <<i, j>> \in Longer /\ trees[j] # None
  /\ closing' = closing \cup {i}
  /\ asked' = asked \cup {i}
  /\ UNCHANGED <<user, exclude, files, at, asks, history>>

\* git removes that worktree, or fails when there is none of that path.
RemoveWorktree(i) ==
  /\ i \in closing
  /\ closing' = closing \ {i}
  /\ trees' = [trees EXCEPT ![i] = None]
  /\ UNCHANGED <<user, exclude, dirs, patches, paths, at, asks, closes, asked, history>>

Prepare(r) ==
  \/ LookForPattern(r) \/ AppendNewline(r) \/ AppendPattern(r)
  \/ MakeDirectories(r) \/ DiffStaged(r) \/ DiffUnstaged(r) \/ AddWorktree(r)
  \/ ApplyStaged(r) \/ ApplyUnstaged(r) \/ CheckOut(r) \/ Record(r) \/ Interrupt(r)

Next ==
  \/ Edit \/ Stage \/ Commit
  \/ \E r \in Runs : Prepare(r)
  \/ \E i \in Ids : FindRegistered(i) \/ RemoveWorktree(i)

Spec == Init /\ [][Next]_vars

-----------------------------------------------------------------------------
(* Properties.                                                             *)

\* What a session reviews is what the user had: the two patches together give
\* the live text of the second diff, however the user edits meanwhile, unless
\* the index or HEAD changes under the script, another run writes the same
\* patch files, or the worktree is closed under it.
SnapshotExact ==
  \A r \in Runs : at[r] = "done" /\ id[r] \notin asked =>
    /\ kind[r] = "local" => disturbed[r] \/ got[r] = saw[r]
    /\ kind[r] = "pr" => got[r] = PRText

\* A session that was prepared keeps its worktree as it was, and finalize finds
\* it, until somebody closes that very session: neither the end of a session
\* whose path begins like its own nor a run for the same id takes it.
PreparedKept ==
  \A r \in Runs : at[r] = "done" /\ id[r] \notin asked =>
    trees[id[r]] = got[r] /\ id[r] \in paths

\* The rules of the user stay as they were, and git ignores the sessions
\* before the first of them is there, though two runs append to the file at
\* once or one stops between its two writes.
IgnoredFirst ==
  /\ IsPrefix(Rules, exclude.lines)
  /\ dirs # {} => Pattern \in Range(exclude.lines)
=============================================================================
