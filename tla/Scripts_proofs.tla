--------------------------- MODULE Scripts_proofs ---------------------------
(***************************************************************************)
(* The older scripts, for any number of runs, reviewers and candidates:    *)
(* the worktrees the sessions review in, then the way of a candidate from  *)
(* the files of the reviewers to the review on GitHub.                     *)
(***************************************************************************)
EXTENDS WorktreeSession, PostReview, FiniteSetTheorems, TLAPS

-----------------------------------------------------------------------------
(* The worktrees.  Three invariants go side by side: what stands in        *)
(* info/exclude, which run owns a worktree, and how far the patches of a   *)
(* run still describe the live tree.                                       *)

Ignored == \E k \in DOMAIN exclude.lines : exclude.lines[k] = Pattern

\* Lines are only added, and never to a line without its end.
IgnoreInv ==
  /\ Len(exclude.lines) >= Len(Rules)
  /\ \A k \in 1..Len(Rules) : exclude.lines[k] = Rules[k]
  /\ exclude.open => exclude.lines # <<>>
  /\ \A r \in Runs : at[r] = "pattern" => ~exclude.open
  /\ \A r \in Runs : at[r] \notin {"idle", "newline", "pattern", "failed"} => Ignored
  /\ dirs # {} => Ignored

\* While nobody closed its session, the worktree that a run added is its own.
Owning == {"index", "apply", "checkout", "path", "done"}
OwnInv ==
  /\ closing \subseteq asked
  /\ \A r \in Runs : at[r] \in Owning /\ id[r] \notin asked => trees[id[r]] # None
  /\ \A r, q \in Runs : r # q /\ id[r] = id[q] /\ at[r] \in Owning /\ at[q] \in Owning
                          => id[r] \in asked
  /\ \A r \in Runs : at[r] = "done" => id[r] \in paths
  /\ \A r \in Runs : at[r] = "done" /\ id[r] \notin asked => got[r] = trees[id[r]]

\* The patches lead from the text of the worktree to the live text they were
\* made for.
PatchInv ==
  /\ \A r \in Runs : at[r] \in {"staged", "unstaged"} => kind[r] # "pr"
  /\ \A r \in Runs : at[r] \in {"index", "apply"} => kind[r] = "local"
  /\ \A r \in Runs : at[r] = "checkout" => kind[r] = "pr"
  /\ \A r \in Runs : at[r] = "unstaged" /\ ~disturbed[r] =>
       patches[id[r]].staged = Diff(live.head, live.index)
  /\ \A r \in Runs : at[r] = "add" /\ kind[r] = "local" /\ ~disturbed[r] =>
       /\ patches[id[r]].staged = Diff(live.head, live.index)
       /\ patches[id[r]].unstaged = Diff(live.index, saw[r])
  /\ \A r \in Runs : at[r] = "index" /\ ~disturbed[r] /\ id[r] \notin asked =>
       \E x \in Versions : /\ patches[id[r]].staged = Diff(trees[id[r]], x)
                           /\ patches[id[r]].unstaged = Diff(x, saw[r])
  /\ \A r \in Runs : at[r] = "apply" /\ ~disturbed[r] /\ id[r] \notin asked =>
       patches[id[r]].unstaged = Diff(trees[id[r]], saw[r])
  /\ \A r \in Runs : at[r] \in {"path", "done"} /\ id[r] \notin asked =>
       /\ kind[r] = "local" => disturbed[r] \/ trees[id[r]] = saw[r]
       /\ kind[r] = "pr" => trees[id[r]] = PRText

WorktreeInv == TypeOK /\ IgnoreInv /\ OwnInv /\ PatchInv

-----------------------------------------------------------------------------
\* A patch is empty exactly when it changes nothing.
LEMMA DiffEmpty ==
  ASSUME NEW a \in Texts, NEW b
  PROVE  /\ Diff(a, b) = Empty <=> a = b
         /\ a # b => Diff(a, b)[1] = a /\ Diff(a, b)[2] = b
<1>1. a # None
  BY WorktreeAssumption
<1> QED BY <1>1 DEF Diff, Empty

\* The invariant holds initially.
LEMMA Initially == Init => WorktreeInv
<1> SUFFICES ASSUME Init PROVE WorktreeInv
  OBVIOUS
<1>1. TypeOK
  BY WorktreeAssumption DEF Init, TypeOK, Patches, Steps
<1>2. IgnoreInv
  <2>1. /\ exclude.lines = Rules /\ (exclude.open => Rules # <<>>)
        /\ \A r \in Runs : at[r] = "idle"
        /\ dirs = {}
    BY DEF Init
  <2>2. Len(Rules) \in Nat
    BY WorktreeAssumption
  <2> QED BY <2>1, <2>2 DEF IgnoreInv
<1>3. OwnInv /\ PatchInv
  BY DEF Init, OwnInv, PatchInv, Owning
<1> QED BY <1>1, <1>2, <1>3 DEF WorktreeInv

-----------------------------------------------------------------------------
(* The steps.                                                              *)

\* What the user does in the live tree marks the runs it comes across.
LEMMA WorkPreserves ==
  ASSUME WorktreeInv, NEW next \in [head : Versions, index : Versions, work : Versions], Work(next)
  PROVE  WorktreeInv'
<1>1. TypeOK'
  <2>1. disturbed' \in [Runs -> BOOLEAN]
    BY DEF Work
  <2>2. edits' \in 0..MaxEdits
    BY WorktreeAssumption DEF WorktreeInv, TypeOK, Work
  <2>3. live' = next
    BY DEF Work
  <2> QED BY <2>1, <2>2, <2>3 DEF WorktreeInv, TypeOK, Work, asks, files, close
<1>2. IgnoreInv'
  BY DEF WorktreeInv, IgnoreInv, Ignored, Work, files
<1>3. OwnInv'
  BY DEF WorktreeInv, OwnInv, Work, files, asks, close
<1>4. PatchInv'
  <2>1. /\ UNCHANGED <<at, kind, id, patches, trees, asked, saw>>
        /\ live' = next
        /\ \A r \in Runs : disturbed'[r] <=> (disturbed[r] \/
             (r \in Exposed /\ <<next.head, next.index>> # <<live.head, live.index>>))
    BY DEF Work, files, asks, close
  <2>2. \A r \in Runs : at[r] \in {"unstaged", "add"} /\ ~disturbed'[r] =>
          ~disturbed[r] /\ live'.head = live.head /\ live'.index = live.index
    BY <2>1 DEF Exposed
  <2> QED BY <2>1, <2>2 DEF WorktreeInv, PatchInv
<1> QED BY <1>1, <1>2, <1>3, <1>4 DEF WorktreeInv

LEMMA UserPreserves == WorktreeInv /\ (Edit \/ Stage \/ Commit) => WorktreeInv'
<1> SUFFICES ASSUME WorktreeInv, Edit \/ Stage \/ Commit PROVE WorktreeInv'
  OBVIOUS
<1>1. live \in [head : Versions, index : Versions, work : Versions]
  BY DEF WorktreeInv, TypeOK
<1>2. CASE Edit
  <2>1. PICK v \in Versions : Work([live EXCEPT !.work = v])
    BY <1>2 DEF Edit
  <2> QED BY <1>1, <2>1, WorkPreserves
<1>3. CASE Stage
  BY <1>1, <1>3, WorkPreserves DEF Stage
<1>4. CASE Commit
  BY <1>1, <1>4, WorkPreserves DEF Commit
<1> QED BY <1>2, <1>3, <1>4

\* A write behind a whole line leaves the lines there are.
LEMMA AppendKeeps ==
  ASSUME WorktreeInv, ~exclude.open, NEW line \in Lines, exclude' = Appended(exclude, line)
  PROVE  /\ exclude' \in [lines : Seq(Lines), open : BOOLEAN]
         /\ ~exclude'.open /\ Len(exclude'.lines) = Len(exclude.lines) + 1
         /\ \A k \in 1..Len(exclude.lines) : exclude'.lines[k] = exclude.lines[k]
         /\ exclude'.lines[Len(exclude.lines) + 1] = line
<1>1. exclude.lines \in Seq(Lines)
  BY DEF WorktreeInv, TypeOK
<1>2. exclude' = [lines |-> Append(exclude.lines, line), open |-> FALSE]
  BY DEF Appended
<1> QED BY <1>1, <1>2

LEMMA LookPreserves ==
  ASSUME WorktreeInv, NEW r \in Runs, LookForPattern(r)
  PROVE  WorktreeInv'
<1>1. /\ at[r] = "idle" /\ at' = [at EXCEPT ![r] = at'[r]]
      /\ at'[r] \in {"mkdir", "newline", "pattern"}
      /\ at'[r] = "mkdir" => Ignored
      /\ at'[r] = "pattern" => exclude.lines = <<>>
  BY DEF LookForPattern, Go, WorktreeInv, TypeOK, Ignored, Range
<1>2. UNCHANGED <<live, edits, exclude, dirs, patches, trees, paths, kind, id, closing, closes,
                  asked, saw, disturbed, got>>
  BY DEF LookForPattern, user, files, asks, close, history
<1>3. TypeOK'
  BY <1>1, <1>2 DEF WorktreeInv, TypeOK, Steps
<1>4. IgnoreInv'
  BY <1>1, <1>2 DEF WorktreeInv, TypeOK, IgnoreInv, Ignored
<1>5. OwnInv'
  BY <1>1, <1>2 DEF WorktreeInv, TypeOK, OwnInv, Owning
<1>6. PatchInv'
  BY <1>1, <1>2 DEF WorktreeInv, TypeOK, PatchInv
<1> QED BY <1>3, <1>4, <1>5, <1>6 DEF WorktreeInv

LEMMA NewlinePreserves ==
  ASSUME WorktreeInv, NEW r \in Runs, AppendNewline(r)
  PROVE  WorktreeInv'
<1>1. at[r] = "newline" /\ at' = [at EXCEPT ![r] = "pattern"] /\ exclude' = NewLine(exclude)
  BY DEF AppendNewline, Go
<1>2. UNCHANGED <<live, edits, dirs, patches, trees, paths, kind, id, closing, closes,
                  asked, saw, disturbed, got>>
  BY DEF AppendNewline, user, files, asks, close, history
<1>3. /\ exclude' \in [lines : Seq(Lines), open : BOOLEAN]
      /\ ~exclude'.open /\ Len(exclude'.lines) >= Len(exclude.lines)
      /\ \A k \in 1..Len(exclude.lines) : exclude'.lines[k] = exclude.lines[k]
  <2>0. exclude \in [lines : Seq(Lines), open : BOOLEAN] /\ Len(exclude.lines) \in Nat
    BY DEF WorktreeInv, TypeOK
  <2>1. CASE exclude.open
    <3>1. exclude' = [lines |-> exclude.lines, open |-> FALSE]
      BY <1>1, <2>1 DEF NewLine
    <3> QED BY <2>0, <3>1
  <2>2. CASE ~exclude.open
    <3>1. exclude' = Appended(exclude, "") /\ "" \in Lines
      BY <1>1, <2>2 DEF NewLine, Lines
    <3>2. /\ exclude' \in [lines : Seq(Lines), open : BOOLEAN]
          /\ ~exclude'.open /\ Len(exclude'.lines) = Len(exclude.lines) + 1
          /\ \A k \in 1..Len(exclude.lines) : exclude'.lines[k] = exclude.lines[k]
      BY <2>2, <3>1, AppendKeeps
    <3> QED BY <2>0, <3>2
  <2> QED BY <2>1, <2>2
<1>4. TypeOK'
  BY <1>1, <1>2, <1>3 DEF WorktreeInv, TypeOK, Steps
<1>5. Ignored => Ignored'
  <2>1. DOMAIN exclude.lines = 1..Len(exclude.lines) /\ DOMAIN exclude'.lines = 1..Len(exclude'.lines)
        /\ Len(exclude.lines) \in Nat /\ Len(exclude'.lines) \in Nat
    BY <1>3 DEF WorktreeInv, TypeOK
  <2> QED BY <1>3, <2>1 DEF Ignored
<1>6. IgnoreInv'
  BY <1>1, <1>2, <1>3, <1>5, WorktreeAssumption DEF WorktreeInv, TypeOK, IgnoreInv
<1>7. OwnInv' /\ PatchInv'
  BY <1>1, <1>2 DEF WorktreeInv, TypeOK, OwnInv, PatchInv, Owning
<1> QED BY <1>4, <1>6, <1>7 DEF WorktreeInv

LEMMA PatternPreserves ==
  ASSUME WorktreeInv, NEW r \in Runs, AppendPattern(r)
  PROVE  WorktreeInv'
<1>1. at[r] = "pattern" /\ at' = [at EXCEPT ![r] = "mkdir"] /\ exclude' = Appended(exclude, Pattern)
  BY DEF AppendPattern, Go
<1>2. UNCHANGED <<live, edits, dirs, patches, trees, paths, kind, id, closing, closes,
                  asked, saw, disturbed, got>>
  BY DEF AppendPattern, user, files, asks, close, history
<1>3. /\ exclude' \in [lines : Seq(Lines), open : BOOLEAN]
      /\ ~exclude'.open /\ Len(exclude'.lines) = Len(exclude.lines) + 1
      /\ \A k \in 1..Len(exclude.lines) : exclude'.lines[k] = exclude.lines[k]
      /\ exclude'.lines[Len(exclude.lines) + 1] = Pattern
  <2>1. ~exclude.open
    BY <1>1 DEF WorktreeInv, IgnoreInv
  <2>2. Pattern \in Lines
    BY DEF Lines
  <2> QED BY <1>1, <2>1, <2>2, AppendKeeps
<1>4. TypeOK'
  BY <1>1, <1>2, <1>3 DEF WorktreeInv, TypeOK, Steps
<1>5. Ignored'
  BY <1>3 DEF Ignored, WorktreeInv, TypeOK
<1>6. IgnoreInv'
  BY <1>1, <1>2, <1>3, <1>5, WorktreeAssumption DEF WorktreeInv, TypeOK, IgnoreInv
<1>7. OwnInv' /\ PatchInv'
  BY <1>1, <1>2 DEF WorktreeInv, TypeOK, OwnInv, PatchInv, Owning
<1> QED BY <1>4, <1>6, <1>7 DEF WorktreeInv

LEMMA MakePreserves ==
  ASSUME WorktreeInv, NEW r \in Runs, MakeDirectories(r)
  PROVE  WorktreeInv'
<1>1. /\ at[r] = "mkdir" /\ at' = [at EXCEPT ![r] = at'[r]] /\ dirs' = dirs \cup {id[r]}
      /\ at'[r] = IF kind[r] = "pr" THEN "add" ELSE "staged"
  BY DEF MakeDirectories, Go, WorktreeInv, TypeOK
<1>2. UNCHANGED <<live, edits, exclude, patches, trees, paths, kind, id, closing, closes,
                  asked, saw, disturbed, got>>
  BY DEF MakeDirectories, user, files, asks, close, history
<1>3. TypeOK'
  BY <1>1, <1>2 DEF WorktreeInv, TypeOK, Steps
<1>4. IgnoreInv'
  BY <1>1, <1>2 DEF WorktreeInv, TypeOK, IgnoreInv, Ignored
<1>5. OwnInv'
  BY <1>1, <1>2 DEF WorktreeInv, TypeOK, OwnInv, Owning
<1>6. PatchInv'
  BY <1>1, <1>2 DEF WorktreeInv, TypeOK, PatchInv
<1> QED BY <1>3, <1>4, <1>5, <1>6 DEF WorktreeInv

\* A run that writes its patches anew marks the others that use them.
LEMMA StagedPreserves ==
  ASSUME WorktreeInv, NEW r \in Runs, DiffStaged(r)
  PROVE  WorktreeInv'
<1>1. /\ at[r] = "staged" /\ at' = [at EXCEPT ![r] = "unstaged"]
      /\ patches' = [patches EXCEPT ![id[r]]["staged"] = Diff(live.head, live.index)]
      /\ disturbed' = [q \in Runs |-> disturbed[q] \/ q \in SharePatches(r)]
  BY DEF DiffStaged, WritePatch, Go
<1>2. UNCHANGED <<live, edits, exclude, dirs, trees, paths, kind, id, closing, closes,
                  asked, saw, got>>
  BY DEF DiffStaged, WritePatch, user, asks, close
<1>3. /\ patches' \in [Ids -> [staged : Patches, unstaged : Patches]]
      /\ patches'[id[r]].staged = Diff(live.head, live.index)
      /\ \A i \in Ids \ {id[r]} : patches'[i] = patches[i]
  <2>1. Diff(live.head, live.index) \in Patches
    BY DEF WorktreeInv, TypeOK, Diff, Patches
  <2>2. patches \in [Ids -> [staged : Patches, unstaged : Patches]] /\ id[r] \in Ids
    BY DEF WorktreeInv, TypeOK
  <2> QED BY <1>1, <2>1, <2>2
<1>4. disturbed' \in [Runs -> BOOLEAN]
  BY <1>1
<1>5. TypeOK'
  BY <1>1, <1>2, <1>3, <1>4 DEF WorktreeInv, TypeOK, Steps
<1>6. IgnoreInv'
  BY <1>1, <1>2 DEF WorktreeInv, TypeOK, IgnoreInv, Ignored
<1>7. OwnInv'
  BY <1>1, <1>2 DEF WorktreeInv, TypeOK, OwnInv, Owning
<1>8. \A q \in Runs : ~disturbed'[q] =>
        ~disturbed[q] /\ (q = r \/ id[q] # id[r] \/ at[q] \notin {"unstaged", "add", "index", "apply"})
  BY <1>1 DEF SharePatches
<1>9. PatchInv'
  <2>1. /\ at'[r] = "unstaged" /\ kind[r] # "pr"
        /\ \A q \in Runs \ {r} : at'[q] = at[q]
    BY <1>1 DEF WorktreeInv, TypeOK, PatchInv
  <2>2. \A q \in Runs \ {r} : at[q] \in {"unstaged", "add", "index", "apply"} /\ ~disturbed'[q] =>
          ~disturbed[q] /\ patches'[id[q]] = patches[id[q]]
    BY <1>3, <1>8 DEF WorktreeInv, TypeOK
  <2>3. \A q \in Runs : disturbed[q] => disturbed'[q]
    BY <1>1
  <2> QED BY <1>2, <1>3, <2>1, <2>2, <2>3 DEF WorktreeInv, PatchInv
<1> QED BY <1>5, <1>6, <1>7, <1>9 DEF WorktreeInv

LEMMA UnstagedPreserves ==
  ASSUME WorktreeInv, NEW r \in Runs, DiffUnstaged(r)
  PROVE  WorktreeInv'
<1>1. /\ at[r] = "unstaged" /\ at' = [at EXCEPT ![r] = "add"]
      /\ patches' = [patches EXCEPT ![id[r]]["unstaged"] = Diff(live.index, live.work)]
      /\ disturbed' = [q \in Runs |-> disturbed[q] \/ q \in SharePatches(r)]
      /\ saw' = [saw EXCEPT ![r] = live.work]
  BY DEF DiffUnstaged, WritePatch, Go
<1>2. UNCHANGED <<live, edits, exclude, dirs, trees, paths, kind, id, closing, closes, asked, got>>
  BY DEF DiffUnstaged, WritePatch, user, asks, close
<1>3. /\ patches' \in [Ids -> [staged : Patches, unstaged : Patches]]
      /\ patches'[id[r]].staged = patches[id[r]].staged
      /\ patches'[id[r]].unstaged = Diff(live.index, live.work)
      /\ \A i \in Ids \ {id[r]} : patches'[i] = patches[i]
  <2>1. Diff(live.index, live.work) \in Patches
    BY DEF WorktreeInv, TypeOK, Diff, Patches
  <2>2. patches \in [Ids -> [staged : Patches, unstaged : Patches]] /\ id[r] \in Ids
    BY DEF WorktreeInv, TypeOK
  <2> QED BY <1>1, <2>1, <2>2
<1>4. disturbed' \in [Runs -> BOOLEAN]
  BY <1>1
<1>5. TypeOK'
  BY <1>1, <1>2, <1>3, <1>4 DEF WorktreeInv, TypeOK, Steps
<1>6. IgnoreInv'
  BY <1>1, <1>2 DEF WorktreeInv, TypeOK, IgnoreInv, Ignored
<1>7. OwnInv'
  BY <1>1, <1>2 DEF WorktreeInv, TypeOK, OwnInv, Owning
<1>8. \A q \in Runs : ~disturbed'[q] =>
        ~disturbed[q] /\ (q = r \/ id[q] # id[r] \/ at[q] \notin {"unstaged", "add", "index", "apply"})
  BY <1>1 DEF SharePatches
<1>9. PatchInv'
  <2>1. /\ at'[r] = "add" /\ kind[r] # "pr" /\ saw'[r] = live.work
        /\ \A q \in Runs \ {r} : at'[q] = at[q] /\ saw'[q] = saw[q]
    BY <1>1 DEF WorktreeInv, TypeOK, PatchInv
  <2>2. \A q \in Runs \ {r} : at[q] \in {"unstaged", "add", "index", "apply"} /\ ~disturbed'[q] =>
          ~disturbed[q] /\ patches'[id[q]] = patches[id[q]]
    BY <1>3, <1>8 DEF WorktreeInv, TypeOK
  <2>3. \A q \in Runs : disturbed[q] => disturbed'[q]
    BY <1>1
  <2>4. ~disturbed'[r] => patches'[id[r]].staged = Diff(live.head, live.index)
    BY <1>1, <1>3, <1>8 DEF WorktreeInv, PatchInv
  <2> QED BY <1>2, <1>3, <2>1, <2>2, <2>3, <2>4 DEF WorktreeInv, PatchInv
<1> QED BY <1>5, <1>6, <1>7, <1>9 DEF WorktreeInv

\* A run that ends without its worktree leaves everything else as it is.
LEMMA FailPreserves ==
  ASSUME WorktreeInv, NEW r \in Runs, Fail(r),
         UNCHANGED <<user, exclude, dirs, patches, paths, asks, close, history>>
  PROVE  WorktreeInv'
<1>1. at' = [at EXCEPT ![r] = "failed"]
  BY DEF Fail, Go
<1>2. UNCHANGED <<live, edits, exclude, dirs, patches, trees, paths, kind, id, closing, closes,
                  asked, saw, disturbed, got>>
  BY DEF Fail, user, asks, close, history
<1>3. TypeOK'
  BY <1>1, <1>2 DEF WorktreeInv, TypeOK, Steps
<1>4. IgnoreInv'
  BY <1>1, <1>2 DEF WorktreeInv, TypeOK, IgnoreInv, Ignored
<1>5. OwnInv'
  BY <1>1, <1>2 DEF WorktreeInv, TypeOK, OwnInv, Owning
<1>6. PatchInv'
  BY <1>1, <1>2 DEF WorktreeInv, TypeOK, PatchInv
<1> QED BY <1>3, <1>4, <1>5, <1>6 DEF WorktreeInv

\* A worktree that is added has no other owner.
LEMMA AddPreserves ==
  ASSUME WorktreeInv, NEW r \in Runs, AddWorktree(r)
  PROVE  WorktreeInv'
<1>1. CASE trees[id[r]] # None
  BY <1>1, FailPreserves DEF AddWorktree
<1>2. CASE trees[id[r]] = None
  <2>1. /\ at[r] = "add" /\ at' = [at EXCEPT ![r] = at'[r]]
        /\ trees' = [trees EXCEPT ![id[r]] = live.head]
        /\ kind[r] = "local" => at'[r] = "index"
        /\ kind[r] = "bare" => at'[r] = "path"
        /\ kind[r] = "pr" => at'[r] = "checkout"
        /\ kind[r] \in Kinds
    BY <1>2 DEF AddWorktree, Go, WorktreeInv, TypeOK, Kinds
  <2>2. UNCHANGED <<live, edits, exclude, dirs, patches, paths, kind, id, closing, closes,
                    asked, saw, disturbed, got>>
    BY DEF AddWorktree, user, asks, close, history
  <2>3. /\ trees' \in [Ids -> Texts \cup {None}]
        /\ trees'[id[r]] = live.head /\ live.head \in Versions /\ live.head # None
        /\ \A i \in Ids \ {id[r]} : trees'[i] = trees[i]
    BY <2>1, WorktreeAssumption DEF WorktreeInv, TypeOK, Texts
  <2>4. TypeOK'
    BY <2>1, <2>2, <2>3 DEF WorktreeInv, TypeOK, Steps, Kinds
  <2>5. IgnoreInv'
    BY <2>1, <2>2 DEF WorktreeInv, TypeOK, IgnoreInv, Ignored, Kinds
  <2>6. \A q \in Runs \ {r} : at'[q] = at[q] /\
          (at[q] \in Owning /\ id[q] \notin asked => id[q] # id[r] /\ trees'[id[q]] = trees[id[q]])
    BY <1>2, <2>1, <2>3 DEF WorktreeInv, TypeOK, OwnInv
  <2>7. OwnInv'
    BY <2>1, <2>2, <2>3, <2>6 DEF WorktreeInv, OwnInv, Owning, Kinds
  <2>8. PatchInv'
    <3>1. \A q \in Runs \ {r} : at[q] \in {"index", "apply", "path", "done"} /\ id[q] \notin asked =>
            trees'[id[q]] = trees[id[q]]
      BY <2>6 DEF Owning
    <3>2. at[r] = "add" /\ live.index \in Versions
      BY <2>1 DEF WorktreeInv, TypeOK
    <3> QED BY <2>1, <2>2, <2>3, <2>6, <3>1, <3>2 DEF WorktreeInv, PatchInv, Kinds
  <2> QED BY <2>4, <2>5, <2>7, <2>8 DEF WorktreeInv
<1> QED BY <1>1, <1>2

\* A run that writes into its worktree writes into nobody else's.
LEMMA OwnersKeep ==
  ASSUME WorktreeInv, NEW r \in Runs, at[r] \in Owning, NEW text \in Texts,
         trees' = [trees EXCEPT ![id[r]] = text]
  PROVE  /\ trees' \in [Ids -> Texts \cup {None}]
         /\ trees'[id[r]] = text /\ text # None
         /\ \A q \in Runs \ {r} : at[q] \in Owning /\ id[q] \notin asked =>
              trees'[id[q]] = trees[id[q]]
<1>1. trees \in [Ids -> Texts \cup {None}] /\ id \in [Runs -> Ids]
  BY DEF WorktreeInv, TypeOK
<1>2. \A q \in Runs \ {r} : at[q] \in Owning /\ id[q] \notin asked => id[q] # id[r]
  BY DEF WorktreeInv, OwnInv
<1> QED BY <1>1, <1>2, WorktreeAssumption

LEMMA ApplyPreserves ==
  ASSUME WorktreeInv, NEW r \in Runs, ApplyStaged(r) \/ ApplyUnstaged(r)
  PROVE  WorktreeInv'
<1> DEFINE change == IF at[r] = "index" THEN patches[id[r]].staged ELSE patches[id[r]].unstaged
<1> DEFINE next == IF at[r] = "index" THEN "apply" ELSE "path"
<1>1. at[r] \in {"index", "apply"} /\ ApplyPatch(r, change, next)
  BY DEF ApplyStaged, ApplyUnstaged
<1>2. change \in Patches /\ trees[id[r]] \in Texts \cup {None} /\ saw[r] \in Versions \cup {None}
  BY DEF WorktreeInv, TypeOK
<1>3. kind[r] = "local"
  BY <1>1 DEF WorktreeInv, PatchInv
<1> HIDE DEF change
<1>4. CASE change # Empty /\ trees[id[r]] # change[1]
  BY <1>1, <1>4, FailPreserves DEF ApplyPatch
<1>5. CASE change = Empty \/ trees[id[r]] = change[1]
  <2> DEFINE text == IF change = Empty THEN trees[id[r]] ELSE change[2]
  <2>1. at' = [at EXCEPT ![r] = next]
    BY <1>1, <1>5 DEF ApplyPatch, Go
  <2>2. UNCHANGED <<live, edits, exclude, dirs, patches, paths, kind, id, closing, closes,
                    asked, saw, disturbed, got>>
    BY <1>1 DEF ApplyPatch, user, asks, close, history
  <2>3. trees' = [trees EXCEPT ![id[r]] = text]
    BY <1>1, <1>5 DEF ApplyPatch, WorktreeInv, TypeOK
  <2>4. id[r] \notin asked => text \in Texts
    BY <1>1, <1>2 DEF WorktreeInv, OwnInv, Owning, Patches, Texts
  <2>5. /\ trees' \in [Ids -> Texts \cup {None}]
        /\ trees'[id[r]] = text
        /\ id[r] \notin asked => text # None
        /\ \A q \in Runs \ {r} : at[q] \in Owning /\ id[q] \notin asked =>
             trees'[id[q]] = trees[id[q]]
    <3>1. text \in Texts \cup {None}
      BY <1>2 DEF Patches, Texts
    <3>2. trees \in [Ids -> Texts \cup {None}] /\ id \in [Runs -> Ids]
      BY DEF WorktreeInv, TypeOK
    <3>3. \A q \in Runs \ {r} : at[q] \in Owning /\ id[q] \notin asked => id[q] # id[r]
      BY <1>1 DEF WorktreeInv, OwnInv, Owning
    <3> HIDE DEF text
    <3> QED BY <2>3, <2>4, <3>1, <3>2, <3>3, WorktreeAssumption
  <2>6. ~disturbed[r] /\ id[r] \notin asked =>
          IF at[r] = "index" THEN patches[id[r]].unstaged = Diff(text, saw[r]) ELSE text = saw[r]
    <3> SUFFICES ASSUME ~disturbed[r], id[r] \notin asked
                 PROVE  IF at[r] = "index" THEN patches[id[r]].unstaged = Diff(text, saw[r])
                                           ELSE text = saw[r]
      OBVIOUS
    <3>1. trees[id[r]] \in Texts
      BY <1>1, <1>2 DEF WorktreeInv, OwnInv, Owning
    <3>2. CASE at[r] = "index"
      <4>1. PICK x \in Versions : /\ change = Diff(trees[id[r]], x)
                                  /\ patches[id[r]].unstaged = Diff(x, saw[r])
        BY <3>2 DEF WorktreeInv, PatchInv, change
      <4>2. text = x
        BY <3>1, <4>1, DiffEmpty
      <4> QED BY <3>2, <4>1, <4>2
    <3>3. CASE at[r] = "apply"
      <4>1. change = Diff(trees[id[r]], saw[r])
        BY <3>3 DEF WorktreeInv, PatchInv, change
      <4>2. text = saw[r]
        BY <3>1, <4>1, DiffEmpty
      <4> QED BY <3>3, <4>2
    <3> QED BY <1>1, <3>2, <3>3
  <2> HIDE DEF text
  <2>7. TypeOK'
    BY <1>1, <2>1, <2>2, <2>5 DEF WorktreeInv, TypeOK, Steps
  <2>8. IgnoreInv'
    BY <1>1, <2>1, <2>2 DEF WorktreeInv, TypeOK, IgnoreInv, Ignored
  <2>9. OwnInv'
    BY <1>1, <2>1, <2>2, <2>5 DEF WorktreeInv, TypeOK, OwnInv, Owning
  <2>10. PatchInv'
    <3>1. \A q \in Runs \ {r} : at'[q] = at[q] /\
            (at[q] \in {"index", "apply", "path", "done"} /\ id[q] \notin asked =>
               trees'[id[q]] = trees[id[q]])
      BY <2>1, <2>5 DEF Owning, WorktreeInv, TypeOK
    <3>2. at'[r] = next
      BY <2>1 DEF WorktreeInv, TypeOK
    <3> QED BY <1>1, <1>3, <2>2, <2>5, <2>6, <3>1, <3>2 DEF WorktreeInv, PatchInv
  <2> QED BY <2>7, <2>8, <2>9, <2>10 DEF WorktreeInv
<1> QED BY <1>4, <1>5

LEMMA CheckOutPreserves ==
  ASSUME WorktreeInv, NEW r \in Runs, CheckOut(r)
  PROVE  WorktreeInv'
<1>1. CASE Fail(r)
  BY <1>1, FailPreserves DEF CheckOut
<1>2. CASE trees' = [trees EXCEPT ![id[r]] = PRText] /\ Go(r, "path")
  <2>1. at[r] = "checkout" /\ at' = [at EXCEPT ![r] = "path"] /\ kind[r] = "pr"
    BY <1>2 DEF CheckOut, Go, WorktreeInv, PatchInv
  <2>2. UNCHANGED <<live, edits, exclude, dirs, patches, paths, kind, id, closing, closes,
                    asked, saw, disturbed, got>>
    BY DEF CheckOut, user, asks, close, history
  <2>3. /\ trees' \in [Ids -> Texts \cup {None}]
        /\ trees'[id[r]] = PRText /\ PRText # None
        /\ \A q \in Runs \ {r} : at[q] \in Owning /\ id[q] \notin asked =>
             trees'[id[q]] = trees[id[q]]
    <3>1. PRText \in Texts /\ at[r] \in Owning
      BY <2>1 DEF Texts, Owning
    <3> QED BY <1>2, <3>1, OwnersKeep
  <2>4. TypeOK'
    BY <2>1, <2>2, <2>3 DEF WorktreeInv, TypeOK, Steps
  <2>5. IgnoreInv'
    BY <2>1, <2>2 DEF WorktreeInv, TypeOK, IgnoreInv, Ignored
  <2>6. OwnInv'
    BY <2>1, <2>2, <2>3 DEF WorktreeInv, TypeOK, OwnInv, Owning
  <2>7. PatchInv'
    <3>1. \A q \in Runs \ {r} : at'[q] = at[q] /\
            (at[q] \in {"index", "apply", "path", "done"} /\ id[q] \notin asked =>
               trees'[id[q]] = trees[id[q]])
      BY <2>1, <2>3 DEF Owning, WorktreeInv, TypeOK
    <3>2. at'[r] = "path"
      BY <2>1 DEF WorktreeInv, TypeOK
    <3> QED BY <2>1, <2>2, <2>3, <3>1, <3>2 DEF WorktreeInv, PatchInv
  <2> QED BY <2>4, <2>5, <2>6, <2>7 DEF WorktreeInv
<1> QED BY <1>1, <1>2 DEF CheckOut

LEMMA RecordPreserves ==
  ASSUME WorktreeInv, NEW r \in Runs, Record(r)
  PROVE  WorktreeInv'
<1>1. /\ at[r] = "path" /\ at' = [at EXCEPT ![r] = "done"]
      /\ paths' = paths \cup {id[r]} /\ got' = [got EXCEPT ![r] = trees[id[r]]]
  BY DEF Record, Go
<1>2. UNCHANGED <<live, edits, exclude, dirs, patches, trees, kind, id, closing, closes,
                  asked, saw, disturbed>>
  BY DEF Record, user, asks, close
<1>3. TypeOK'
  BY <1>1, <1>2 DEF WorktreeInv, TypeOK, Steps
<1>4. IgnoreInv'
  BY <1>1, <1>2 DEF WorktreeInv, TypeOK, IgnoreInv, Ignored
<1>5. OwnInv'
  BY <1>1, <1>2 DEF WorktreeInv, TypeOK, OwnInv, Owning
<1>6. PatchInv'
  BY <1>1, <1>2 DEF WorktreeInv, TypeOK, PatchInv
<1> QED BY <1>3, <1>4, <1>5, <1>6 DEF WorktreeInv

LEMMA InterruptPreserves ==
  ASSUME WorktreeInv, NEW r \in Runs, Interrupt(r)
  PROVE  WorktreeInv'
  BY FailPreserves DEF Interrupt

\* A closing script marks its session before it removes anything.
LEMMA ClosePreserves ==
  ASSUME WorktreeInv, NEW i \in Ids, FindRegistered(i) \/ RemoveWorktree(i)
  PROVE  WorktreeInv'
<1>1. UNCHANGED <<live, edits, exclude, dirs, patches, paths, at, kind, id, saw, disturbed, got>>
  BY DEF FindRegistered, RemoveWorktree, user, files, asks, history
<1>2. /\ closing' \subseteq asked' /\ asked \subseteq asked' /\ closing' \subseteq Ids
      /\ asked' \subseteq Ids /\ closes' \in 0..MaxCloses
      /\ trees' \in [Ids -> Texts \cup {None}]
      /\ \A j \in Ids : j \notin asked' => trees'[j] = trees[j]
  <2>1. CASE FindRegistered(i)
    BY <2>1, WorktreeAssumption DEF FindRegistered, files, WorktreeInv, TypeOK, OwnInv
  <2>2. CASE RemoveWorktree(i)
    BY <2>2 DEF RemoveWorktree, WorktreeInv, TypeOK, OwnInv
  <2> QED BY <2>1, <2>2
<1>3. TypeOK'
  BY <1>1, <1>2 DEF WorktreeInv, TypeOK
<1>4. IgnoreInv'
  BY <1>1 DEF WorktreeInv, IgnoreInv, Ignored
<1>5. \A r \in Runs : id[r] \in Ids
  BY DEF WorktreeInv, TypeOK
<1>6. OwnInv'
  BY <1>1, <1>2, <1>5 DEF WorktreeInv, OwnInv
<1>7. PatchInv'
  BY <1>1, <1>2, <1>5 DEF WorktreeInv, PatchInv
<1> QED BY <1>3, <1>4, <1>6, <1>7 DEF WorktreeInv

\* The invariant holds throughout.
THEOREM WorktreeInvariance == Spec => []WorktreeInv
<1>1. WorktreeInv /\ [Next]_vars => WorktreeInv'
  <2> SUFFICES ASSUME WorktreeInv, [Next]_vars PROVE WorktreeInv'
    OBVIOUS
  <2>1. CASE UNCHANGED vars
    <3>1. UNCHANGED <<live, exclude, dirs, patches, trees, paths, at, kind, id, closing, edits,
                      closes, saw, disturbed, got, asked>>
      BY <2>1 DEF vars
    <3>2. TypeOK' /\ IgnoreInv'
      BY <3>1 DEF WorktreeInv, TypeOK, IgnoreInv, Ignored
    <3>3. OwnInv' /\ PatchInv'
      BY <3>1 DEF WorktreeInv, OwnInv, PatchInv
    <3> QED BY <3>2, <3>3 DEF WorktreeInv
  <2>2. ASSUME NEW r \in Runs, Prepare(r) PROVE WorktreeInv'
    BY <2>2, LookPreserves, NewlinePreserves, PatternPreserves, MakePreserves, StagedPreserves,
       UnstagedPreserves, AddPreserves, ApplyPreserves, CheckOutPreserves, RecordPreserves,
       InterruptPreserves DEF Prepare
  <2> QED BY <2>1, <2>2, UserPreserves, ClosePreserves DEF Next
<1> QED BY <1>1, Initially, PTL DEF Spec

-----------------------------------------------------------------------------
(* What follows from it.                                                   *)

\* The state of the scripts keeps its shape.
THEOREM WorktreesTyped == Spec => []TypeOK
<1>1. WorktreeInv => TypeOK
  BY DEF WorktreeInv
<1> QED BY <1>1, WorktreeInvariance, PTL

\* A prepared worktree holds what the user had when it was made.
THEOREM SnapshotsExact == Spec => []SnapshotExact
<1>1. WorktreeInv => SnapshotExact
  BY DEF WorktreeInv, OwnInv, PatchInv, SnapshotExact
<1> QED BY <1>1, WorktreeInvariance, PTL

\* A prepared worktree stays until its own session is closed.
THEOREM WorktreesKept == Spec => []PreparedKept
<1>1. WorktreeInv => PreparedKept
  BY DEF WorktreeInv, OwnInv, PreparedKept
<1> QED BY <1>1, WorktreeInvariance, PTL

\* The rules of the user are kept, and sessions are ignored from the start.
THEOREM SessionsIgnored == Spec => []IgnoredFirst
<1>1. WorktreeInv => IgnoredFirst
  <2> SUFFICES ASSUME WorktreeInv PROVE IgnoredFirst
    OBVIOUS
  <2>1. /\ exclude.lines \in Seq(Lines) /\ Rules \in Seq(Lines)
        /\ Len(Rules) <= Len(exclude.lines)
        /\ \A k \in 1..Len(Rules) : exclude.lines[k] = Rules[k]
    BY WorktreeAssumption DEF WorktreeInv, TypeOK, IgnoreInv
  <2>2. SubSeq(Rules, 1, Len(Rules)) = SubSeq(exclude.lines, 1, Len(Rules))
    BY <2>1
  <2>3. dirs # {} => Pattern \in Range(exclude.lines)
    BY DEF WorktreeInv, IgnoreInv, Ignored, Range
  <2> QED BY <2>1, <2>2, <2>3 DEF IgnoredFirst, IsPrefix
<1> QED BY <1>1, WorktreeInvariance, PTL
-----------------------------------------------------------------------------
(* Loops.  What a loop over a list computes is a function of the rounds    *)
(* it has made; the list can also be taken one number after another.       *)

LEMMA LeastNumber ==
  ASSUME NEW S, S \subseteq Nat, S # {}
  PROVE  \E m \in S : \A k \in S : m <= k
<1> DEFINE R == OpToRel(<, Nat)
<1>1. IsWellFoundedOn(R, Nat)
  BY NatLessThanWellFounded
<1>2. PICK m \in S : \A k \in S : ~(<<k, m>> \in R)
  <2> HIDE DEF R
  <2> QED
    BY <1>1, WFMin
<1>3. \A k \in S : ~(k < m)
  BY <1>2 DEF OpToRel
<1> QED
  BY <1>3

\* What holds before the first round and is kept by each holds after all.
LEMMA Rounds ==
  ASSUME NEW N \in Nat, NEW T, 0 \in T,
         \A n \in 1 .. N : n - 1 \in T => n \in T
  PROVE  \A n \in 0 .. N : n \in T
<1> SUFFICES ASSUME NEW n \in 0 .. N, n \notin T PROVE FALSE
  OBVIOUS
<1> DEFINE Missing == {k \in 0 .. N : k \notin T}
<1>1. Missing \subseteq Nat /\ n \in Missing
  OBVIOUS
<1>2. PICK m \in Missing : \A k \in Missing : m <= k
  <2> HIDE DEF Missing
  <2> QED
    BY <1>1, LeastNumber
<1>3. m \in 1 .. N /\ m - 1 \in 0 .. N
  BY <1>2
<1>4. m - 1 \in T
  BY <1>2, <1>3
<1> QED
  BY <1>2, <1>3, <1>4

\* f has the states of a loop over N rounds that begins with b.
Unrolls(f, S, b, N, h) ==
  /\ f \in [0 .. N -> S]
  /\ f[0] = b
  /\ \A n \in 1 .. N : f[n] = h[n][f[n - 1]]

\* A loop over N rounds has a result after each.
LEMMA Loop ==
  ASSUME NEW S, NEW b \in S, NEW N \in Nat, NEW h \in [1 .. N -> [S -> S]]
  PROVE  \E f : Unrolls(f, S, b, N, h)
<1> DEFINE Upto(n, f) == f[0] = b /\ \A k \in 1 .. n : f[k] = h[k][f[k - 1]]
           T == {n \in 0 .. N : \E f \in [0 .. n -> S] : Upto(n, f)}
<1>1. 0 \in T
  <2> DEFINE f == [n \in 0 .. 0 |-> b]
  <2>1. f \in [0 .. 0 -> S] /\ Upto(0, f)
    OBVIOUS
  <2> HIDE DEF f, Upto
  <2> QED
    BY <2>1
<1>2. \A n \in 1 .. N : n - 1 \in T => n \in T
  <2> SUFFICES ASSUME NEW n \in 1 .. N, n - 1 \in T PROVE n \in T
    OBVIOUS
  <2>1. PICK f \in [0 .. n - 1 -> S] : Upto(n - 1, f)
    OBVIOUS
  <2> DEFINE g == [k \in 0 .. n |-> IF k = n THEN h[n][f[n - 1]] ELSE f[k]]
  <2>2. n - 1 \in 0 .. n - 1 /\ f[n - 1] \in S
    OBVIOUS
  <2>3. h[n][f[n - 1]] \in S
    <3>1. h[n] \in [S -> S]
      OBVIOUS
    <3> HIDE DEF T
    <3> QED
      BY <2>2, <3>1
  <2>4. g \in [0 .. n -> S]
    BY <2>3
  <2>5. \A k \in 0 .. n - 1 : g[k] = f[k]
    OBVIOUS
  <2>6. g[n] = h[n][g[n - 1]]
    <3>1. g[n - 1] = f[n - 1]
      BY <2>2, <2>5
    <3>2. n \in 0 .. n
      OBVIOUS
    <3> QED
      BY <3>1, <3>2
  <2> HIDE DEF g
  <2>7. Upto(n, g)
    <3>1. g[0] = b
      BY <2>1, <2>5
    <3>2. ASSUME NEW k \in 1 .. n PROVE g[k] = h[k][g[k - 1]]
      <4>1. CASE k = n
        BY <2>6, <4>1
      <4>2. CASE k # n
        <5>1. k \in 1 .. n - 1 /\ k \in 0 .. n - 1 /\ k - 1 \in 0 .. n - 1
          BY <4>2
        <5> QED
          BY <2>1, <2>5, <5>1
      <4> QED
        BY <4>1, <4>2
    <3> QED
      BY <3>1, <3>2
  <2> HIDE DEF Upto
  <2> QED
    BY <2>4, <2>7
<1>3. \A n \in 0 .. N : n \in T
  <2> HIDE DEF T
  <2> QED
    BY <1>1, <1>2, Rounds
<1>4. N \in T
  BY <1>3
<1> QED
  BY <1>4 DEF Unrolls

-----------------------------------------------------------------------------
(* The lists of dedupe-rank.py                                             *)

OrdersRows(before, positions) ==
  /\ \A i \in positions : <<i, i>> \notin before
  /\ \A i, j \in positions : i # j => <<i, j>> \in before \/ <<j, i>> \in before
  /\ \A i, j, k \in positions :
       <<i, j>> \in before /\ <<j, k>> \in before => <<i, k>> \in before

\* pi says which position each row of an arranged list comes from.
Arranging(pi, positions, before) ==
  /\ pi \in [1 .. Cardinality(positions) -> positions]
  /\ \A n, m \in 1 .. Cardinality(positions) : n < m => <<pi[n], pi[m]>> \in before
  /\ \A n, m \in 1 .. Cardinality(positions) : pi[n] = pi[m] => n = m
  /\ \A i \in positions : \E n \in 1 .. Cardinality(positions) : pi[n] = i

\* Ranking the rows by how many come before them lists each of them once, in
\* the order.
LEMMA Arranges ==
  ASSUME NEW rows, NEW positions, IsFiniteSet(positions),
         NEW before, OrdersRows(before, positions)
  PROVE  \E pi : /\ Arranging(pi, positions, before)
                 /\ Arranged(rows, positions, before)
                      = [n \in 1 .. Cardinality(positions) |-> rows[pi[n]]]
<1> DEFINE Below(i) == {j \in positions : <<j, i>> \in before}
           size == Cardinality(positions)
           rank == [i \in positions |-> Cardinality(Below(i))]
           pi == [n \in 1 .. size |-> CHOOSE i \in positions : Cardinality(Below(i)) = n - 1]
<1>1. size \in Nat
  BY FS_CardinalityType
<1>2. \A i \in positions : IsFiniteSet(Below(i)) /\ Cardinality(Below(i)) \in 0 .. size - 1
  <2> SUFFICES ASSUME NEW i \in positions
               PROVE  IsFiniteSet(Below(i)) /\ Cardinality(Below(i)) \in 0 .. size - 1
    OBVIOUS
  <2>1. Below(i) \in SUBSET positions /\ Below(i) # positions
    BY DEF OrdersRows
  <2>2. IsFiniteSet(Below(i)) /\ Cardinality(Below(i)) <= size /\ Cardinality(Below(i)) # size
    <3> HIDE DEF Below
    <3> QED
      BY <2>1, FS_Subset
  <2>3. Cardinality(Below(i)) \in Nat
    BY <2>2, FS_CardinalityType
  <2> QED
    BY <1>1, <2>2, <2>3
<1>3. \A i, j \in positions : <<i, j>> \in before => Cardinality(Below(i)) < Cardinality(Below(j))
  <2> SUFFICES ASSUME NEW i \in positions, NEW j \in positions, <<i, j>> \in before
               PROVE  Cardinality(Below(i)) < Cardinality(Below(j))
    OBVIOUS
  <2>1. Below(i) \in SUBSET Below(j) /\ i \in Below(j) /\ i \notin Below(i)
    BY DEF OrdersRows
  <2> HIDE DEF Below
  <2>2. Cardinality(Below(i)) <= Cardinality(Below(j)) /\ Cardinality(Below(i)) # Cardinality(Below(j))
    BY <1>2, <2>1, FS_Subset
  <2> QED
    BY <1>1, <1>2, <2>2
<1>4. rank \in Injection(positions, 0 .. size - 1)
  <2>1. rank \in [positions -> 0 .. size - 1]
    <3> HIDE DEF Below, size
    <3> QED
      BY <1>2
  <2>2. ASSUME NEW i \in positions, NEW j \in positions, rank[i] = rank[j] PROVE i = j
    <3>1. Cardinality(Below(i)) = Cardinality(Below(j))
      BY <2>2
    <3> HIDE DEF Below, rank
    <3>2. Cardinality(Below(i)) \in Int
      BY <1>1, <1>2
    <3>3. <<i, j>> \notin before /\ <<j, i>> \notin before
      BY <1>3, <3>1, <3>2
    <3> QED
      BY <3>3 DEF OrdersRows
  <2> HIDE DEF rank
  <2> QED
    BY <2>1, <2>2 DEF Injection, IsInjective
<1>5. IsFiniteSet(0 .. size - 1) /\ Cardinality(0 .. size - 1) = size
  <2> HIDE DEF size
  <2> QED
    BY <1>1, FS_Interval
<1>6. rank \in Surjection(positions, 0 .. size - 1)
  <2> HIDE DEF rank
  <2> QED
    BY <1>4, <1>5, FS_Injection
<1>7. \A n \in 1 .. size : \E i \in positions : Cardinality(Below(i)) = n - 1
  <2> SUFFICES ASSUME NEW n \in 1 .. size PROVE \E i \in positions : Cardinality(Below(i)) = n - 1
    OBVIOUS
  <2>1. n - 1 \in 0 .. size - 1
    BY <1>1
  <2>2. \E i \in positions : rank[i] = n - 1
    BY <1>6, <2>1 DEF Surjection
  <2> QED
    BY <2>2
<1> HIDE DEF size, rank, Below
<1>8. \A n \in 1 .. size : pi[n] \in positions /\ Cardinality(Below(pi[n])) = n - 1
  BY <1>7
<1>9. Arranging(pi, positions, before)
  <2>1. pi \in [1 .. size -> positions]
    <3>1. pi = [n \in 1 .. size |-> pi[n]]
      OBVIOUS
    <3> HIDE DEF pi
    <3> QED
      BY <1>8, <3>1
  <2> HIDE DEF pi
  <2>2. ASSUME NEW n \in 1 .. size, NEW m \in 1 .. size, n < m
        PROVE  <<pi[n], pi[m]>> \in before
    <3>1. Cardinality(Below(pi[n])) < Cardinality(Below(pi[m]))
      BY <1>1, <1>8, <2>2
    <3>2. pi[n] # pi[m] /\ ~(<<pi[m], pi[n]>> \in before)
      BY <1>1, <1>2, <1>3, <1>8, <3>1
    <3> QED
      BY <1>8, <3>2 DEF OrdersRows
  <2>3. ASSUME NEW n \in 1 .. size, NEW m \in 1 .. size, pi[n] = pi[m] PROVE n = m
    BY <1>1, <1>8, <2>3
  <2>4. ASSUME NEW i \in positions PROVE \E n \in 1 .. size : pi[n] = i
    <3>1. Cardinality(Below(i)) + 1 \in 1 .. size
      BY <1>1, <1>2
    <3> DEFINE n == Cardinality(Below(i)) + 1
    <3>2. Cardinality(Below(pi[n])) = Cardinality(Below(i))
      BY <1>1, <1>2, <1>8, <3>1
    <3>3. pi[n] \in positions /\ Cardinality(Below(i)) \in Int
      BY <1>1, <1>2, <1>8, <3>1
    <3>4. <<i, pi[n]>> \notin before /\ <<pi[n], i>> \notin before
      <4> HIDE DEF n, pi
      <4> QED
        BY <1>3, <3>2, <3>3
    <3>5. pi[n] = i
      <4> HIDE DEF n, pi
      <4> QED
        BY <3>3, <3>4 DEF OrdersRows
    <3> QED
      BY <3>1, <3>5
  <2> QED
    BY <2>1, <2>2, <2>3, <2>4 DEF Arranging, size
<1>10. Arranged(rows, positions, before) = [n \in 1 .. size |-> rows[pi[n]]]
  BY DEF Arranged, Below, size
<1> HIDE DEF pi
<1> QED
  BY <1>9, <1>10 DEF size

-----------------------------------------------------------------------------
(* The state of the pipeline and of the posting.  From the verification    *)
(* on, each file is what its script makes of the one before; from the      *)
(* building on, the payload is what the script makes of the findings.      *)

Stages == {"review", "verify", "aborted", "rank", "report"}

PipelineInv ==
  /\ outcome \in [Roles -> {"running", "answered", "silent"}]
  /\ jsonl \in [Roles -> Seq(Row)]
  /\ stage \in Stages /\ static \in BOOLEAN
  /\ stage \in {"rank", "report"} =>
       verified = [i \in DOMAIN Collected |-> VerifyCandidate(Collected[i], static)]
  /\ stage = "report" => findings = Ranked(verified)

BuiltInv ==
  /\ posting # "idle" => stage = "report"
  /\ posting = "build" => mode = "review" /\ fetched \in DOMAIN patch
  /\ Built /\ mode = "review" => fetched \in DOMAIN patch /\ payload = ReviewPayload
  /\ Built /\ mode # "review" => payload = SummaryPayload

PostInv ==
  /\ patch \in Seq(PatchTexts)
  /\ posting \in {"idle", "build", "dry", "send", "posted", "failed"}
  /\ BuiltInv
  /\ posts \in Nat /\ lost \in Nat /\ tries \in Nat
  /\ posts <= lost + (IF posting = "posted" THEN 1 ELSE 0)

PostingInv == PipelineInv /\ PostInv

LEMMA BoundedSequences ==
  ASSUME NEW S, NEW n \in Nat
  PROVE  SeqOf(S, n) \subseteq Seq(S)
BY DEF SeqOf

LEMMA AnswersAreRows == \A n \in Nat : SeqOf(Rows, n) \subseteq Seq(Row)
<1>1. Seq(Rows) \subseteq Seq(Row)
  BY PipelineAssumption
<1> QED
  BY <1>1, BoundedSequences

LEMMA PipelineStarts == PipelineInit => PipelineInv
<1> SUFFICES ASSUME PipelineInit PROVE PipelineInv
  OBVIOUS
<1>1. jsonl \in [Roles -> Seq(Row)]
  BY AnswersAreRows DEF PipelineInit
<1> QED
  BY <1>1 DEF PipelineInit, PipelineInv, Stages

LEMMA PipelineStays ==
  ASSUME PipelineInv, UNCHANGED pipeline
  PROVE  PipelineInv'
<1>1. Collected' = Collected
  BY DEF pipeline, Collected
<1> QED
  BY <1>1 DEF PipelineInv, pipeline

LEMMA PipelineSteps ==
  ASSUME PipelineInv, PipelineNext
  PROVE  PipelineInv'
<1>1. ASSUME NEW r \in Roles, ReviewerAnswers(r) PROVE PipelineInv'
  <2>1. jsonl' \in [Roles -> Seq(Row)]
    <3>1. Answers \subseteq Seq(Row)
      BY AnswersAreRows, PipelineAssumption DEF Answers
    <3> QED
      BY <1>1, <3>1 DEF ReviewerAnswers, PipelineInv
  <2> QED
    BY <1>1, <2>1 DEF ReviewerAnswers, PipelineInv, Stages
<1>2. ASSUME NEW r \in Roles, ReviewerSilent(r) PROVE PipelineInv'
  BY <1>2 DEF ReviewerSilent, PipelineInv, Stages
<1>3. CASE WriteManifest
  BY <1>3 DEF WriteManifest, PipelineInv, Stages
<1>4. CASE Verify
  <2>1. Collected' = Collected
    BY <1>4 DEF Verify, Collected
  <2> QED
    BY <1>4, <2>1 DEF Verify, PipelineInv, Stages
<1>5. CASE Rank
  <2>1. Collected' = Collected
    BY <1>5 DEF Rank, Collected
  <2> QED
    BY <1>5, <2>1 DEF Rank, PipelineInv, Stages
<1> QED
  BY <1>1, <1>2, <1>3, <1>4, <1>5 DEF PipelineNext

\* A payload is of the head it was built from, whatever is pushed later.
LEMMA PayloadsStay ==
  ASSUME patch \in Seq(PatchTexts), fetched \in DOMAIN patch,
         UNCHANGED <<findings, fetched>>,
         UNCHANGED patch \/ \E p \in PatchTexts : patch' = Append(patch, p)
  PROVE  /\ fetched' \in DOMAIN patch'
         /\ ReviewPayload' = ReviewPayload
<1>1. fetched' \in DOMAIN patch' /\ patch'[fetched'] = patch[fetched]
  OBVIOUS
<1>2. Kept' = Kept /\ Appendix' = Appendix
  BY DEF Kept, Appendix
<1> QED
  BY <1>1, <1>2 DEF ReviewPayload

LEMMA SummaryStays ==
  ASSUME UNCHANGED findings
  PROVE  SummaryPayload' = SummaryPayload
<1>1. Kept' = Kept /\ Appendix' = Appendix
  BY DEF Kept, Appendix
<1> QED
  BY <1>1 DEF SummaryPayload

LEMMA PostingStarts == PostingInit => PostingInv
<1> SUFFICES ASSUME PostingInit PROVE PostingInv
  OBVIOUS
<1>1. PipelineInv
  BY PipelineStarts DEF PostingInit
<1> QED
  BY <1>1 DEF PostingInit, PostingInv, PostInv, BuiltInv, Built

LEMMA PostingStays ==
  ASSUME PostingInv, UNCHANGED <<patch, mode, posting, fetched, payload, tries, posts, lost, findings>>,
         posting # "idle" => stage' = stage
  PROVE  PostInv'
<1>1. BuiltInv'
  <2>1. Built /\ mode = "review" => ReviewPayload' = ReviewPayload
    BY PayloadsStay DEF PostingInv, PostInv, BuiltInv, Built
  <2> QED
    BY <2>1, SummaryStays DEF PostingInv, PostInv, BuiltInv, Built
<1> QED
  BY <1>1 DEF PostingInv, PostInv

LEMMA PostingSteps == PostingInv /\ [PostingNext]_postingVars => PostingInv'
<1> SUFFICES ASSUME PostingInv, [PostingNext]_postingVars PROVE PostingInv'
  OBVIOUS
<1> USE DEF PostingInv
<1>1. CASE PipelineNext /\ UNCHANGED post
  <2>1. PipelineInv'
    BY <1>1, PipelineSteps
  <2>2. posting # "idle" => FALSE
    BY <1>1 DEF PostInv, BuiltInv, PipelineNext, ReviewerAnswers, ReviewerSilent, WriteManifest,
                Verify, Rank
  <2>3. PostInv'
    BY <1>1, <2>2 DEF post, PostInv, BuiltInv, Built
  <2> QED
    BY <2>1, <2>3
<1>2. CASE Push
  <2>1. PipelineInv'
    BY <1>2, PipelineStays DEF Push
  <2>2. patch' \in Seq(PatchTexts) /\ DOMAIN patch \subseteq DOMAIN patch'
    BY <1>2 DEF Push, PostInv
  <2>3. BuiltInv'
    <3>1. Built /\ mode = "review" => ReviewPayload' = ReviewPayload
      BY <1>2, PayloadsStay DEF PostInv, BuiltInv, Built, Push, pipeline
    <3>2. SummaryPayload' = SummaryPayload
      BY <1>2, SummaryStays DEF Push, pipeline
    <3> QED
      BY <1>2, <2>2, <3>1, <3>2 DEF PostInv, BuiltInv, Built, Push, pipeline
  <2> QED
    BY <1>2, <2>1, <2>2, <2>3 DEF Push, PostInv
<1>3. CASE FetchFiles
  <2>1. PipelineInv'
    BY <1>3, PipelineStays DEF FetchFiles
  <2> QED
    BY <1>3, <2>1 DEF FetchFiles, PostInv, BuiltInv, Built, pipeline
<1>4. CASE BuildReview
  <2>1. PipelineInv'
    BY <1>4, PipelineStays DEF BuildReview
  <2>2. ReviewPayload' = ReviewPayload
    BY <1>4, PayloadsStay DEF PostInv, BuiltInv, BuildReview, pipeline
  <2> QED
    BY <1>4, <2>1, <2>2 DEF BuildReview, PostInv, BuiltInv, Built, pipeline
<1>5. CASE StartSummary
  <2>1. PipelineInv'
    BY <1>5, PipelineStays DEF StartSummary
  <2>2. SummaryPayload' = SummaryPayload
    BY <1>5, SummaryStays DEF StartSummary, pipeline
  <2> QED
    BY <1>5, <2>1, <2>2 DEF StartSummary, PostInv, BuiltInv, Built, pipeline
<1>6. CASE Send
  <2>1. PipelineInv'
    BY <1>6, PipelineStays DEF Send
  <2>2. Built
    BY <1>6 DEF Send, Built
  <2>3. mode = "review" => ReviewPayload' = ReviewPayload
    BY <1>6, <2>2, PayloadsStay DEF PostInv, BuiltInv, Send, pipeline
  <2>4. SummaryPayload' = SummaryPayload
    BY <1>6, SummaryStays DEF Send, pipeline
  <2>5. BuiltInv'
    BY <1>6, <2>2, <2>3, <2>4 DEF Send, PostInv, BuiltInv, Built, pipeline
  <2> QED
    BY <1>6, <2>1, <2>5 DEF Send, PostInv
<1>7. CASE EditLast
  <2>1. PipelineInv'
    BY <1>7, PipelineStays DEF EditLast
  <2>2. Built /\ mode # "review"
    BY <1>7 DEF EditLast, Built
  <2>3. SummaryPayload' = SummaryPayload
    BY <1>7, SummaryStays DEF EditLast, pipeline
  <2>4. BuiltInv'
    BY <1>7, <2>2, <2>3 DEF EditLast, PostInv, BuiltInv, Built, pipeline
  <2> QED
    BY <1>7, <2>1, <2>4 DEF EditLast, PostInv
<1>8. CASE UNCHANGED postingVars
  <2>1. PipelineInv'
    BY <1>8, PipelineStays DEF postingVars
  <2>2. PostInv'
    BY <1>8, PostingStays DEF postingVars, pipeline, post
  <2> QED
    BY <2>1, <2>2
<1> QED
  BY <1>1, <1>2, <1>3, <1>4, <1>5, <1>6, <1>7, <1>8 DEF PostingNext

\* In every state each file is what its script makes of the file before it,
\* and a payload what the posting script makes of the report and of the patch
\* of the head whose files it fetched.
THEOREM PostingInvariance == PostingSpec => []PostingInv
BY PostingStarts, PostingSteps, PTL DEF PostingSpec

\* A second review or comment takes an answer of GitHub that got lost.
THEOREM PostedAtMostOnce == PostingSpec => []PostedOnce
<1>1. PostingInv => PostedOnce
  BY DEF PostingInv, PostInv, PostedOnce
<1> QED
  BY <1>1, PostingInvariance, PTL

-----------------------------------------------------------------------------
(* The commentable lines.  Within a hunk of which no line is cut, the      *)
(* counter of the parser may only fall behind the right side of the diff,  *)
(* where it takes an added line for a file header, and then it gives again *)
(* a number that some line of the hunk has.  Where a line is cut, what is  *)
(* known of the counter is that the hunk starts before it.                 *)

CountState == [open : BOOLEAN, right : Nat, lines : SUBSET Nat]
NotCounting == [open |-> FALSE, right |-> 0, lines |-> {}]

Counting(raw, counted) ==
  counted = [n \in 0 .. Len(raw) |->
               IF n = 0 THEN NotCounting ELSE CountLine(counted[n - 1], raw[n])]

\* The line is counted.
Counts(acc, line) == line.kind \in {"added", "context"} /\ acc.open

LEMMA CountLineCases ==
  ASSUME NEW acc \in CountState, NEW line \in RawLine
  PROVE  /\ CountLine(acc, line) \in CountState
         /\ line.kind = "hunk" =>
              CountLine(acc, line) = [open |-> TRUE, right |-> line.at, lines |-> acc.lines]
         /\ line.kind = "bare_header" =>
              ~CountLine(acc, line).open /\ CountLine(acc, line).lines = acc.lines
         /\ Counts(acc, line) =>
              /\ CountLine(acc, line).open /\ CountLine(acc, line).right = acc.right + 1
              /\ CountLine(acc, line).lines = acc.lines \cup {acc.right}
         /\ line.kind \notin {"hunk", "bare_header"} /\ ~Counts(acc, line) => CountLine(acc, line) = acc
<1> DEFINE new == CountLine(acc, line)
<1>1. CASE line.kind = "hunk"
  <2>1. new = [open |-> TRUE, right |-> line.at, lines |-> acc.lines]
    BY <1>1 DEF CountLine
  <2> QED
    BY <1>1, <2>1 DEF CountState, RawLine, Counts
<1>2. CASE line.kind = "bare_header"
  <2>1. new = [acc EXCEPT !.open = FALSE]
    BY <1>2 DEF CountLine
  <2> QED
    BY <1>2, <2>1 DEF CountState, Counts
<1>3. CASE Counts(acc, line)
  <2>1. new = [acc EXCEPT !.lines = @ \cup {acc.right}, !.right = @ + 1]
    BY <1>3 DEF CountLine, Counts
  <2>2. acc.right + 1 \in Nat /\ acc.lines \cup {acc.right} \in SUBSET Nat
    BY DEF CountState
  <2>3. acc.open /\ line.kind \notin {"hunk", "bare_header"}
    BY <1>3 DEF Counts
  <2> QED
    BY <1>3, <2>1, <2>2, <2>3 DEF CountState
<1>4. CASE line.kind \notin {"hunk", "bare_header"} /\ ~Counts(acc, line)
  <2>1. new = acc
    BY <1>4 DEF CountLine, Counts
  <2> QED
    BY <1>4, <2>1
<1> QED
  BY <1>1, <1>2, <1>3, <1>4

LEMMA CountingLoop ==
  ASSUME NEW raw \in Seq(RawLine)
  PROVE  \E counted \in [0 .. Len(raw) -> CountState] :
           /\ counted[0] = NotCounting
           /\ \A n \in 1 .. Len(raw) : counted[n] = CountLine(counted[n - 1], raw[n])
           /\ CommentableLines(raw) = counted[Len(raw)].lines
<1> DEFINE N == Len(raw)
           h == [n \in 1 .. N |-> [acc \in CountState |-> CountLine(acc, raw[n])]]
<1>1. N \in Nat /\ NotCounting \in CountState /\ h \in [1 .. N -> [CountState -> CountState]]
  BY CountLineCases DEF NotCounting, CountState
<1>2. PICK f : Unrolls(f, CountState, NotCounting, N, h)
  <2> HIDE DEF h, N
  <2> QED
    BY <1>1, Loop
<1>3. /\ f \in [0 .. N -> CountState] /\ f[0] = NotCounting
      /\ \A n \in 1 .. N : f[n] = h[n][f[n - 1]]
  BY <1>2 DEF Unrolls
<1>4. Counting(raw, f)
  <2>1. \A n \in 1 .. N : f[n] = CountLine(f[n - 1], raw[n])
    <3> TAKE n \in 1 .. N
    <3>1. f[n - 1] \in CountState
      BY <1>3
    <3> QED
      BY <1>3, <3>1
  <2> HIDE DEF h
  <2> QED
    BY <1>3, <2>1 DEF Counting
<1> DEFINE c == CHOOSE counted : Counting(raw, counted)
<1>5. Counting(raw, c)
  BY <1>4
<1>6. CommentableLines(raw) = c[N].lines
  BY DEF CommentableLines, Counting, NotCounting
<1> HIDE DEF c
<1>7. c[0] = NotCounting /\ \A n \in 1 .. N : c[n] = CountLine(c[n - 1], raw[n])
  BY <1>5 DEF Counting
<1>8. \A n \in 0 .. N : c[n] \in CountState
  <2> DEFINE T == {n \in 0 .. N : c[n] \in CountState}
  <2>1. 0 \in T
    BY <1>1, <1>7
  <2>2. ASSUME NEW n \in 1 .. N, n - 1 \in T PROVE n \in T
    BY <1>7, <2>2, CountLineCases
  <2> HIDE DEF T
  <2>3. \A n \in 0 .. N : n \in T
    BY <1>1, <2>1, <2>2, Rounds
  <2> QED
    BY <2>3 DEF T
<1>9. c \in [0 .. N -> CountState]
  BY <1>5, <1>8 DEF Counting
<1> QED
  BY <1>6, <1>7, <1>9

LEMMA LatestTyped ==
  ASSUME NEW N \in Nat, NEW S, S \subseteq 1 .. N
  PROVE  /\ LatestIn(S, 0) = 0
         /\ \A k \in 1 .. N : LatestIn(S, k) = IF k \in S THEN k ELSE LatestIn(S, k - 1)
         /\ \A k \in 0 .. N : LatestIn(S, k) \in 0 .. k /\ LatestIn(S, k) \in {0} \cup S
<1> DEFINE I(k) == {0} \cup {i \in S : i <= k}
<1>1. \A k : LatestIn(S, k) = CHOOSE x \in I(k) : \A y \in I(k) : x >= y
  BY DEF LatestIn, Max
<1>2. LatestIn(S, 0) = 0
  <2>1. I(0) = {0}
    <3>1. \A i \in S : ~(i <= 0)
      OBVIOUS
    <3> QED
      BY <3>1
  <2>2. \A x \in {0} : (\A y \in {0} : x >= y) <=> x = 0
    OBVIOUS
  <2> HIDE DEF I
  <2> QED
    BY <1>1, <2>1, <2>2
<1>3. ASSUME NEW k \in 1 .. N, k \in S PROVE LatestIn(S, k) = k
  <2>1. k \in I(k) /\ \A y \in I(k) : k >= y
    BY <1>3
  <2>2. \A x \in I(k) : (\A y \in I(k) : x >= y) => x = k
    BY <2>1
  <2> HIDE DEF I
  <2> QED
    BY <1>1, <2>1, <2>2
<1>4. ASSUME NEW k \in 1 .. N, k \notin S PROVE LatestIn(S, k) = LatestIn(S, k - 1)
  <2>1. I(k) = I(k - 1)
    <3>1. \A i \in 1 .. N : i # k => (i <= k <=> i <= k - 1)
      OBVIOUS
    <3>2. \A i \in S : i <= k <=> i <= k - 1
      BY <1>4, <3>1
    <3> QED
      BY <3>2
  <2> HIDE DEF I
  <2> QED
    BY <1>1, <2>1
<1> HIDE DEF I
<1> DEFINE T == {k \in 0 .. N : LatestIn(S, k) \in 0 .. k /\ LatestIn(S, k) \in {0} \cup S}
<1>5. 0 \in T
  BY <1>2
<1>6. \A k \in 1 .. N : k - 1 \in T => k \in T
  <2> SUFFICES ASSUME NEW k \in 1 .. N, k - 1 \in T PROVE k \in T
    OBVIOUS
  <2>1. LatestIn(S, k) \in 0 .. k /\ LatestIn(S, k) \in {0} \cup S
    BY <1>3, <1>4
  <2> QED
    BY <2>1
<1>7. \A k \in 0 .. N : k \in T
  <2> HIDE DEF T
  <2> QED
    BY <1>5, <1>6, Rounds
<1> QED
  BY <1>2, <1>3, <1>4, <1>7

\* What the parser takes for headers, and the one it takes a line to stand
\* under; the lines of the right side from one position to before another, and
\* their numbers up to a position.
Headers(raw) == {j \in DOMAIN raw : raw[j].kind = "hunk"}
Header(raw, k) == LatestIn(Headers(raw), k)
RightFrom(raw, a, b) == {j \in OnRight(raw) : a <= j /\ j < b}
RightUpTo(raw, k) ==
  {LineNumber(raw, j) : j \in {j \in OnRight(raw) : LatestIn(DiffHeaders(raw), j) # 0 /\ j <= k}}

\* A line is cut in the parser's hunk of the k-th line, and what is given
\* behind such a cut.
Cut(raw, k) == \E j \in DOMAIN raw : j <= k /\ ~raw[j].starts /\ Header(raw, j) = Header(raw, k)
CutUpTo(raw, k) ==
  {v \in Nat : \E j \in DOMAIN raw : /\ j <= k /\ ~raw[j].starts
                                     /\ Header(raw, j) # 0 /\ v >= raw[Header(raw, j)].at}

\* Where the counter is in a hunk that is not cut.
InHunk(raw, acc, k) ==
  LET header == Header(raw, k)
      end == raw[header].at + Cardinality(RightFrom(raw, header, k + 1))
  IN /\ LatestIn(DiffHeaders(raw), k) = header
     /\ acc.right <= end
     /\ \A v \in Nat : raw[header].at <= v /\ v < end => v \in RightUpTo(raw, k)

CountInv(raw, acc, k) ==
  /\ acc \in CountState
  /\ acc.lines \subseteq (RightUpTo(raw, k) \cup CutUpTo(raw, k))
  /\ acc.open => /\ Header(raw, k) # 0 /\ raw[Header(raw, k)].at <= acc.right
                 /\ Cut(raw, k) \/ InHunk(raw, acc, k)

LEMMA HeadersOf ==
  ASSUME NEW raw \in Seq(RawLine), NEW k \in 1 .. Len(raw)
  PROVE  /\ raw[k].kind = "hunk" => Header(raw, k) = k
         /\ raw[k].kind # "hunk" =>
              /\ Header(raw, k) = Header(raw, k - 1)
              /\ LatestIn(DiffHeaders(raw), k) = LatestIn(DiffHeaders(raw), k - 1)
         /\ raw[k].kind = "hunk" /\ raw[k].starts => LatestIn(DiffHeaders(raw), k) = k
         /\ Header(raw, k) \in 0 .. k
         /\ Header(raw, k) # 0 => raw[Header(raw, k)].at \in Nat
<1>1. Len(raw) \in Nat /\ DOMAIN raw = 1 .. Len(raw)
  OBVIOUS
<1>2. Headers(raw) \subseteq 1 .. Len(raw) /\ DiffHeaders(raw) \subseteq 1 .. Len(raw)
  BY <1>1 DEF Headers, DiffHeaders
<1>3. /\ k \in Headers(raw) <=> raw[k].kind = "hunk"
      /\ k \in DiffHeaders(raw) <=> raw[k].starts /\ raw[k].kind = "hunk"
  BY <1>1 DEF Headers, DiffHeaders
<1>4. /\ Header(raw, k) = IF k \in Headers(raw) THEN k ELSE Header(raw, k - 1)
      /\ Header(raw, k) \in 0 .. k /\ Header(raw, k) \in {0} \cup Headers(raw)
  <2>1. k \in 1 .. Len(raw) /\ k \in 0 .. Len(raw)
    OBVIOUS
  <2> HIDE DEF Headers
  <2> QED
    BY <1>1, <1>2, <2>1, LatestTyped DEF Header
<1>5. LatestIn(DiffHeaders(raw), k)
        = IF k \in DiffHeaders(raw) THEN k ELSE LatestIn(DiffHeaders(raw), k - 1)
  BY <1>1, <1>2, LatestTyped
<1>6. \A j \in Headers(raw) : raw[j].at \in Nat
  <2> TAKE j \in Headers(raw)
  <2>1. raw[j] \in RawLine
    BY DEF Headers
  <2> QED
    BY <2>1 DEF RawLine
<1> QED
  BY <1>3, <1>4, <1>5, <1>6

LEMMA RightSize ==
  ASSUME NEW raw \in Seq(RawLine), NEW a \in Nat, NEW k \in 1 .. Len(raw), a <= k
  PROVE  /\ Cardinality(RightFrom(raw, a, k)) \in Nat
         /\ Cardinality(RightFrom(raw, a, k + 1))
              = Cardinality(RightFrom(raw, a, k)) + IF k \in OnRight(raw) THEN 1 ELSE 0
<1> DEFINE A == RightFrom(raw, a, k)
<1>0. \A j \in OnRight(raw) : j \in 1 .. Len(raw)
  BY DEF OnRight
<1>1. IsFiniteSet(A) /\ Cardinality(A) \in Nat
  <2>1. IsFiniteSet(1 .. Len(raw))
    BY FS_Interval
  <2>2. A \in SUBSET (1 .. Len(raw))
    BY <1>0 DEF RightFrom
  <2> HIDE DEF A
  <2>3. IsFiniteSet(A)
    BY <2>1, <2>2, FS_Subset
  <2> QED
    BY <2>3, FS_CardinalityType
<1>2. k \notin A
  BY DEF RightFrom
<1>3. CASE k \in OnRight(raw)
  <2>1. RightFrom(raw, a, k + 1) = A \cup {k}
    <3>1. \A j \in 1 .. Len(raw) : a <= j /\ j < k + 1 <=> (a <= j /\ j < k) \/ j = k
      OBVIOUS
    <3> QED
      BY <1>0, <1>3, <3>1 DEF RightFrom
  <2> HIDE DEF A
  <2>2. Cardinality(A \cup {k}) = Cardinality(A) + 1
    BY <1>1, <1>2, FS_AddElement
  <2> QED
    BY <1>1, <1>3, <2>1, <2>2 DEF A
<1>4. CASE k \notin OnRight(raw)
  <2>1. RightFrom(raw, a, k + 1) = A
    <3>1. \A j \in 1 .. Len(raw) : j # k => (j < k + 1 <=> j < k)
      OBVIOUS
    <3>2. \A j \in OnRight(raw) : j < k + 1 <=> j < k
      BY <1>0, <1>4, <3>1
    <3> QED
      BY <3>2 DEF RightFrom
  <2> HIDE DEF A
  <2> QED
    BY <1>1, <1>4, <2>1 DEF A
<1> QED
  BY <1>3, <1>4

LEMMA CountLineKeeps ==
  ASSUME NEW raw \in Seq(RawLine), NEW k \in 1 .. Len(raw), NEW acc, CountInv(raw, acc, k - 1)
  PROVE  CountInv(raw, CountLine(acc, raw[k]), k)
<1> DEFINE line == raw[k]
           new == CountLine(acc, line)
           header == Header(raw, k)
<1>1. /\ line \in RawLine /\ line.kind \in LineKinds /\ line.at \in Nat /\ line.starts \in BOOLEAN
      /\ k \in DOMAIN raw
  <2>1. line \in RawLine
    OBVIOUS
  <2> QED
    BY <2>1 DEF RawLine
<1>2. acc \in CountState /\ new \in CountState /\ acc.right \in Nat
  BY <1>1, CountLineCases DEF CountInv, CountState
<1>3. RightUpTo(raw, k - 1) \subseteq RightUpTo(raw, k) /\ CutUpTo(raw, k - 1) \subseteq CutUpTo(raw, k)
  <2>1. \A j \in DOMAIN raw : j <= k - 1 => j <= k
    OBVIOUS
  <2>2. OnRight(raw) \subseteq DOMAIN raw
    BY DEF OnRight
  <2> QED
    BY <2>1, <2>2 DEF RightUpTo, CutUpTo
<1>4. acc.lines \subseteq (RightUpTo(raw, k) \cup CutUpTo(raw, k))
  BY <1>3 DEF CountInv
<1>5. header \in 0 .. k /\ (header # 0 => raw[header].at \in Nat)
  BY HeadersOf
<1>6. CASE line.kind = "hunk"
  <2>1. header = k
    BY <1>6, HeadersOf
  <2>2. new.open /\ new.right = line.at /\ new.lines = acc.lines
    BY <1>1, <1>2, <1>6, CountLineCases
  <2>3. ~line.starts => Cut(raw, k)
    BY <1>1 DEF Cut
  <2>4. line.starts => InHunk(raw, new, k)
    <3> SUFFICES ASSUME line.starts PROVE InHunk(raw, new, k)
      OBVIOUS
    <3>1. LatestIn(DiffHeaders(raw), k) = header
      BY <1>6, <2>1, HeadersOf
    <3>2. Cardinality(RightFrom(raw, k, k + 1)) = 0
      <4>1. k \notin OnRight(raw)
        BY <1>6 DEF OnRight
      <4>2. RightFrom(raw, k, k + 1) = {}
        <5>1. \A j \in OnRight(raw) : j \in Nat
          BY DEF OnRight
        <5>2. \A j \in Nat : k <= j /\ j < k + 1 => j = k
          OBVIOUS
        <5> QED
          BY <4>1, <5>1, <5>2 DEF RightFrom
      <4> QED
        BY <4>2, FS_EmptySet
    <3> HIDE DEF new
    <3>3. \A v \in Nat : ~(line.at <= v /\ v < line.at + 0)
      BY <1>1
    <3> QED
      BY <1>1, <2>1, <2>2, <3>1, <3>2, <3>3 DEF InHunk
  <2> HIDE DEF new
  <2>5. header # 0 /\ raw[header].at <= new.right
    BY <1>1, <2>1, <2>2
  <2> QED
    BY <1>1, <1>2, <1>4, <2>2, <2>3, <2>4, <2>5 DEF CountInv, new
<1>7. CASE line.kind = "bare_header"
  <2>1. ~new.open /\ new.lines = acc.lines
    BY <1>1, <1>2, <1>7, CountLineCases
  <2> HIDE DEF new
  <2> QED
    BY <1>2, <1>4, <2>1 DEF CountInv, new
<1>8. CASE line.kind \notin {"hunk", "bare_header"} /\ ~acc.open
  <2>1. new = acc
    BY <1>1, <1>2, <1>8, CountLineCases DEF Counts
  <2> HIDE DEF new
  <2> QED
    BY <1>2, <1>4, <1>8, <2>1 DEF CountInv, new
<1>9. CASE line.kind \notin {"hunk", "bare_header"} /\ acc.open
  <2> DEFINE start == raw[header].at
  <2>1. header = Header(raw, k - 1) /\ LatestIn(DiffHeaders(raw), k) = LatestIn(DiffHeaders(raw), k - 1)
    BY <1>9, HeadersOf
  <2>2. /\ header # 0 /\ start <= acc.right
        /\ Cut(raw, k - 1) \/ InHunk(raw, acc, k - 1)
    BY <1>9, <2>1 DEF CountInv
  <2>3. start \in Nat
    BY <1>5, <2>2
  <2>4. \/ /\ new.open /\ new.right = acc.right + 1 /\ new.lines = acc.lines \cup {acc.right}
           /\ line.kind \in {"added", "context"}
        \/ new = acc /\ line.kind \notin {"added", "context"}
    BY <1>1, <1>2, <1>9, CountLineCases DEF Counts
  <2>5. new.open /\ start <= new.right
    <3> HIDE DEF new, start
    <3> QED
      BY <1>2, <1>9, <2>2, <2>3, <2>4
  <2>6. CASE Cut(raw, k)
    <3>1. acc.right \in CutUpTo(raw, k)
      <4>1. PICK j \in DOMAIN raw : j <= k /\ ~raw[j].starts /\ Header(raw, j) = header
        BY <2>6 DEF Cut
      <4>2. acc.right >= raw[Header(raw, j)].at /\ Header(raw, j) # 0
        BY <1>2, <2>2, <2>3, <4>1
      <4> QED
        BY <1>2, <4>1, <4>2 DEF CutUpTo
    <3> HIDE DEF new
    <3>2. new.lines \subseteq (RightUpTo(raw, k) \cup CutUpTo(raw, k))
      BY <1>4, <2>4, <3>1
    <3> QED
      BY <1>2, <2>2, <2>5, <2>6, <3>2 DEF CountInv, new
  <2>7. CASE ~Cut(raw, k)
    <3>1. line.starts /\ ~Cut(raw, k - 1)
      <4>1. line.starts
        BY <1>1, <2>7 DEF Cut
      <4>2. \A j \in DOMAIN raw : j <= k - 1 => j <= k
        OBVIOUS
      <4> QED
        BY <2>1, <2>7, <4>1, <4>2 DEF Cut
    <3> DEFINE old == Cardinality(RightFrom(raw, header, k))
               size == Cardinality(RightFrom(raw, header, k + 1))
    <3>2. /\ LatestIn(DiffHeaders(raw), k) = header
          /\ acc.right <= start + old
          /\ \A v \in Nat : start <= v /\ v < start + old => v \in RightUpTo(raw, k - 1)
      <4>1. InHunk(raw, acc, k - 1) /\ (k - 1) + 1 = k
        BY <2>2, <3>1
      <4> QED
        BY <2>1, <4>1 DEF InHunk
    <3>3. old \in Nat /\ size = old + IF k \in OnRight(raw) THEN 1 ELSE 0
      <4>1. header \in Nat /\ header <= k
        BY <1>5
      <4> HIDE DEF header
      <4> QED
        BY <4>1, RightSize
    <3>4. k \in OnRight(raw) => start + old \in RightUpTo(raw, k)
      <4> SUFFICES ASSUME k \in OnRight(raw) PROVE start + old \in RightUpTo(raw, k)
        OBVIOUS
      <4>1. LineNumber(raw, k) = start + old
        BY <3>2 DEF LineNumber, RightFrom
      <4>2. LatestIn(DiffHeaders(raw), k) # 0 /\ k <= k
        BY <2>2, <3>2
      <4> QED
        BY <4>1, <4>2 DEF RightUpTo
    <3>5. line.kind \in {"added", "context"} => k \in OnRight(raw)
      BY <1>1, <3>1 DEF OnRight
    <3> HIDE DEF new, start, old, size, line, header
    <3>6. \A v \in Nat : start <= v /\ v < start + size => v \in RightUpTo(raw, k)
      <4> TAKE v \in Nat
      <4>1. start <= v /\ v < start + size => v < start + old \/ (v = start + old /\ k \in OnRight(raw))
        BY <2>3, <3>3
      <4> QED
        BY <1>3, <3>2, <3>4, <4>1
    <3>7. CASE /\ new.right = acc.right + 1 /\ new.lines = acc.lines \cup {acc.right}
               /\ line.kind \in {"added", "context"}
      <4>1. size = old + 1
        BY <3>3, <3>5, <3>7
      <4>2. acc.right \in RightUpTo(raw, k) /\ new.right <= start + size
        BY <1>2, <2>2, <2>3, <3>2, <3>3, <3>6, <3>7, <4>1
      <4>3. new.lines \subseteq (RightUpTo(raw, k) \cup CutUpTo(raw, k))
        BY <1>4, <3>7, <4>2
      <4>4. InHunk(raw, new, k)
        BY <3>2, <3>6, <4>2 DEF InHunk, start, size, header
      <4> QED
        BY <1>2, <2>2, <2>5, <4>3, <4>4 DEF CountInv, new, start, header, line
    <3>8. CASE new = acc
      <4>1. new.right <= start + size
        BY <1>2, <2>3, <3>2, <3>3, <3>8
      <4>2. InHunk(raw, new, k)
        BY <3>2, <3>6, <4>1 DEF InHunk, start, size, header
      <4> QED
        BY <1>2, <1>4, <2>2, <2>5, <3>8, <4>2 DEF CountInv, new, start, header, line
    <3> QED
      BY <2>4, <3>7, <3>8
  <2> QED
    BY <2>6, <2>7
<1> QED
  BY <1>6, <1>7, <1>8, <1>9

\* The parser gives no line that is not in the diff, but behind a cut.
LEMMA CommentableOnRight ==
  ASSUME NEW raw \in Seq(RawLine)
  PROVE  CommentableLines(raw) \subseteq (RightSide(raw) \cup Overrun(raw))
<1>1. PICK c \in [0 .. Len(raw) -> CountState] :
        /\ c[0] = NotCounting
        /\ \A n \in 1 .. Len(raw) : c[n] = CountLine(c[n - 1], raw[n])
        /\ CommentableLines(raw) = c[Len(raw)].lines
  BY CountingLoop
<1> DEFINE T == {n \in 0 .. Len(raw) : CountInv(raw, c[n], n)}
<1>2. 0 \in T
  BY <1>1 DEF CountInv, NotCounting, CountState
<1>3. ASSUME NEW n \in 1 .. Len(raw), n - 1 \in T PROVE n \in T
  BY <1>1, <1>3, CountLineKeeps
<1>4. \A n \in 0 .. Len(raw) : n \in T
  <2>1. Len(raw) \in Nat
    OBVIOUS
  <2> HIDE DEF T
  <2> QED
    BY <1>2, <1>3, <2>1, Rounds
<1>5. CountInv(raw, c[Len(raw)], Len(raw))
  BY <1>4
<1>6. RightUpTo(raw, Len(raw)) \subseteq RightSide(raw)
  BY DEF RightUpTo, RightSide
<1>7. ASSUME NEW v \in CommentableLines(raw), v \in CutUpTo(raw, Len(raw)) PROVE v \in Overrun(raw)
  <2>1. PICK j \in DOMAIN raw : ~raw[j].starts /\ Header(raw, j) # 0 /\ v >= raw[Header(raw, j)].at
    BY <1>7 DEF CutUpTo
  <2> QED
    BY <1>7, <2>1 DEF Overrun, Header, Headers
<1> QED
  BY <1>1, <1>5, <1>6, <1>7 DEF CountInv

-----------------------------------------------------------------------------
(* The placing.  Each row goes to one of two lists.                        *)

LEMMA TimesAppend ==
  ASSUME NEW S, NEW s \in Seq(S), NEW x \in S, NEW y
  PROVE  /\ TimesIn(s, y) \in Nat
         /\ TimesIn(Append(s, x), y) = TimesIn(s, y) + IF x = y THEN 1 ELSE 0
<1> DEFINE A == {i \in DOMAIN s : s[i] = y}
           B == {i \in DOMAIN Append(s, x) : Append(s, x)[i] = y}
<1>1. IsFiniteSet(A) /\ Cardinality(A) \in Nat
  <2>1. IsFiniteSet(1 .. Len(s)) /\ A \in SUBSET (1 .. Len(s))
    BY FS_Interval
  <2> HIDE DEF A
  <2>2. IsFiniteSet(A)
    BY <2>1, FS_Subset
  <2> QED
    BY <2>2, FS_CardinalityType
<1>2. Len(s) + 1 \notin A
  OBVIOUS
<1>3. CASE x = y
  <2>1. B = A \cup {Len(s) + 1}
    BY <1>3
  <2> HIDE DEF A, B
  <2>2. Cardinality(A \cup {Len(s) + 1}) = Cardinality(A) + 1
    BY <1>1, <1>2, FS_AddElement
  <2> QED
    BY <1>1, <1>3, <2>1, <2>2 DEF A, B, TimesIn
<1>4. CASE x # y
  <2>1. B = A
    BY <1>4
  <2>2. TimesIn(s, y) = Cardinality(A) /\ TimesIn(Append(s, x), y) = Cardinality(B)
    BY DEF TimesIn
  <2> HIDE DEF A, B
  <2> QED
    BY <1>1, <1>4, <2>1, <2>2
<1> QED
  BY <1>3, <1>4

\* How often a row is among the first n.
TimesUpTo(rows, n, row) == Cardinality({i \in 1 .. n : rows[i] = row})

LEMMA TimesNext ==
  ASSUME NEW rows, NEW n \in Nat \ {0}, NEW row
  PROVE  /\ TimesUpTo(rows, n - 1, row) \in Nat
         /\ TimesUpTo(rows, n, row) = TimesUpTo(rows, n - 1, row) + IF rows[n] = row THEN 1 ELSE 0
<1> DEFINE A == {i \in 1 .. n - 1 : rows[i] = row}
           B == {i \in 1 .. n : rows[i] = row}
<1>1. IsFiniteSet(A) /\ Cardinality(A) \in Nat
  <2>1. IsFiniteSet(1 .. n - 1) /\ A \in SUBSET (1 .. n - 1)
    BY FS_Interval
  <2> HIDE DEF A
  <2>2. IsFiniteSet(A)
    BY <2>1, FS_Subset
  <2> QED
    BY <2>2, FS_CardinalityType
<1>2. n \notin A
  OBVIOUS
<1>3. CASE rows[n] = row
  <2>1. B = A \cup {n}
    BY <1>3
  <2> HIDE DEF A, B
  <2>2. Cardinality(A \cup {n}) = Cardinality(A) + 1
    BY <1>1, <1>2, FS_AddElement
  <2> QED
    BY <1>1, <1>3, <2>1, <2>2 DEF A, B, TimesUpTo
<1>4. CASE rows[n] # row
  <2>1. B = A
    BY <1>4
  <2> HIDE DEF A, B
  <2> QED
    BY <1>1, <1>4, <2>1 DEF A, B, TimesUpTo
<1> QED
  BY <1>3, <1>4

LEMMA TimesNever ==
  ASSUME NEW rows, NEW row
  PROVE  TimesIn(<< >>, row) = 0 /\ TimesUpTo(rows, 0, row) = 0
<1>1. {i \in DOMAIN << >> : << >>[i] = row} = {} /\ {i \in 1 .. 0 : rows[i] = row} = {}
  OBVIOUS
<1> QED
  BY <1>1, FS_EmptySet DEF TimesIn, TimesUpTo

PlaceState(S) == [comments : Seq(S), skipped : Seq(S), listed : {<< >>}, appendix : {<< >>}]

Placing(lines, rows, placed) ==
  placed = [n \in 0 .. Len(rows) |->
              IF n = 0 THEN NoPayload ELSE PlaceFinding(lines, placed[n - 1], rows[n])]

LEMMA PlaceFindingTyped ==
  ASSUME NEW S, NEW lines, NEW acc \in PlaceState(S), NEW row \in S
  PROVE  PlaceFinding(lines, acc, row) \in PlaceState(S)
<1>1. Append(acc.comments, row) \in Seq(S) /\ Append(acc.skipped, row) \in Seq(S)
  <2>1. acc.comments \in Seq(S) /\ acc.skipped \in Seq(S)
    BY DEF PlaceState
  <2> QED
    BY <2>1
<1> QED
  BY <1>1 DEF PlaceFinding, PlaceState

\* The lists after each row.
Places(S, lines, rows, placed) ==
  /\ placed \in [0 .. Len(rows) -> PlaceState(S)]
  /\ placed[0] = NoPayload
  /\ \A n \in 1 .. Len(rows) : placed[n] = PlaceFinding(lines, placed[n - 1], rows[n])
  /\ PlaceFindings(lines, rows) = placed[Len(rows)]

LEMMA PlacingLoop ==
  ASSUME NEW S, NEW lines, NEW rows \in Seq(S)
  PROVE  \E placed : Places(S, lines, rows, placed)
<1> DEFINE N == Len(rows)
           h == [n \in 1 .. N |-> [acc \in PlaceState(S) |-> PlaceFinding(lines, acc, rows[n])]]
<1>1. N \in Nat /\ NoPayload \in PlaceState(S)
  BY DEF NoPayload, PlaceState
<1>2. h \in [1 .. N -> [PlaceState(S) -> PlaceState(S)]]
  BY PlaceFindingTyped
<1>3. PICK f : Unrolls(f, PlaceState(S), NoPayload, N, h)
  <2> HIDE DEF h, N
  <2> QED
    BY <1>1, <1>2, Loop
<1>4. /\ f \in [0 .. N -> PlaceState(S)] /\ f[0] = NoPayload
      /\ \A n \in 1 .. N : f[n] = h[n][f[n - 1]]
  BY <1>3 DEF Unrolls
<1>5. Placing(lines, rows, f)
  <2>1. \A n \in 1 .. N : f[n] = PlaceFinding(lines, f[n - 1], rows[n])
    <3> TAKE n \in 1 .. N
    <3>1. f[n - 1] \in PlaceState(S)
      BY <1>4
    <3> QED
      BY <1>4, <3>1
  <2> HIDE DEF h
  <2> QED
    BY <1>4, <2>1 DEF Placing
<1> DEFINE c == CHOOSE placed : Placing(lines, rows, placed)
<1>6. Placing(lines, rows, c)
  BY <1>5
<1>7. PlaceFindings(lines, rows) = c[N]
  BY DEF PlaceFindings, Placing
<1> HIDE DEF c, h
<1>8. c[0] = NoPayload /\ \A n \in 1 .. N : c[n] = PlaceFinding(lines, c[n - 1], rows[n])
  BY <1>6 DEF Placing
<1>9. \A n \in 0 .. N : c[n] \in PlaceState(S)
  <2> DEFINE T == {n \in 0 .. N : c[n] \in PlaceState(S)}
  <2>1. 0 \in T
    BY <1>1, <1>8
  <2>2. ASSUME NEW n \in 1 .. N, n - 1 \in T PROVE n \in T
    BY <1>8, <2>2, PlaceFindingTyped
  <2> HIDE DEF T
  <2>3. \A n \in 0 .. N : n \in T
    BY <1>1, <2>1, <2>2, Rounds
  <2> QED
    BY <2>3 DEF T
<1>10. c \in [0 .. N -> PlaceState(S)]
  BY <1>6, <1>9 DEF Placing
<1> QED
  BY <1>7, <1>8, <1>10 DEF Places

\* After n rows the comments are on commentable lines, and each of the rows is
\* in the two lists as often as it was met.
PlaceInv(S, lines, rows, acc, n) ==
  /\ \A i \in DOMAIN acc.comments : acc.comments[i].place \in lines
  /\ \A row \in S : TimesIn(acc.comments, row) + TimesIn(acc.skipped, row) = TimesUpTo(rows, n, row)

LEMMA PlaceFindingKeeps ==
  ASSUME NEW S, NEW lines, NEW rows \in Seq(S), NEW n \in 1 .. Len(rows),
         NEW acc \in PlaceState(S), PlaceInv(S, lines, rows, acc, n - 1)
  PROVE  PlaceInv(S, lines, rows, PlaceFinding(lines, acc, rows[n]), n)
<1> DEFINE new == PlaceFinding(lines, acc, rows[n])
<1>1. rows[n] \in S /\ n \in Nat \ {0}
  OBVIOUS
<1>2. acc.comments \in Seq(S) /\ acc.skipped \in Seq(S)
  BY DEF PlaceState
<1>3. \A row \in S :
        /\ TimesIn(acc.comments, row) \in Nat /\ TimesIn(acc.skipped, row) \in Nat
        /\ TimesIn(Append(acc.comments, rows[n]), row)
             = TimesIn(acc.comments, row) + IF rows[n] = row THEN 1 ELSE 0
        /\ TimesIn(Append(acc.skipped, rows[n]), row)
             = TimesIn(acc.skipped, row) + IF rows[n] = row THEN 1 ELSE 0
  BY <1>1, <1>2, TimesAppend
<1>4. \A row \in S :
        /\ TimesUpTo(rows, n - 1, row) \in Nat
        /\ TimesUpTo(rows, n, row) = TimesUpTo(rows, n - 1, row) + IF rows[n] = row THEN 1 ELSE 0
  BY <1>1, TimesNext
<1>5. CASE Len(acc.comments) < MaxComments /\ rows[n].place > 0 /\ rows[n].place \in lines
  <2>1. new.comments = Append(acc.comments, rows[n]) /\ new.skipped = acc.skipped
    BY <1>5 DEF PlaceFinding, PlaceState
  <2>2. \A i \in DOMAIN new.comments : new.comments[i].place \in lines
    BY <1>2, <1>5, <2>1 DEF PlaceInv
  <2> HIDE DEF new
  <2>3. \A row \in S : TimesIn(new.comments, row) + TimesIn(new.skipped, row) = TimesUpTo(rows, n, row)
    <3> TAKE row \in S
    <3> DEFINE one == IF rows[n] = row THEN 1 ELSE 0
    <3>1. TimesIn(new.comments, row) = TimesIn(acc.comments, row) + one
      BY <1>3, <2>1
    <3>2. TimesIn(acc.comments, row) + TimesIn(acc.skipped, row) = TimesUpTo(rows, n - 1, row)
      BY DEF PlaceInv
    <3>3. TimesUpTo(rows, n, row) = TimesUpTo(rows, n - 1, row) + one /\ one \in Nat
      BY <1>4
    <3> HIDE DEF one
    <3> QED
      BY <1>3, <2>1, <3>1, <3>2, <3>3
  <2> QED
    BY <2>2, <2>3 DEF PlaceInv, new
<1>6. CASE ~(Len(acc.comments) < MaxComments /\ rows[n].place > 0 /\ rows[n].place \in lines)
  <2>1. new.comments = acc.comments /\ new.skipped = Append(acc.skipped, rows[n])
    BY <1>6 DEF PlaceFinding, PlaceState
  <2> HIDE DEF new
  <2>2. \A row \in S : TimesIn(new.comments, row) + TimesIn(new.skipped, row) = TimesUpTo(rows, n, row)
    <3> TAKE row \in S
    <3> DEFINE one == IF rows[n] = row THEN 1 ELSE 0
    <3>1. TimesIn(new.skipped, row) = TimesIn(acc.skipped, row) + one
      BY <1>3, <2>1
    <3>2. TimesIn(acc.comments, row) + TimesIn(acc.skipped, row) = TimesUpTo(rows, n - 1, row)
      BY DEF PlaceInv
    <3>3. TimesUpTo(rows, n, row) = TimesUpTo(rows, n - 1, row) + one /\ one \in Nat
      BY <1>4
    <3> HIDE DEF one
    <3> QED
      BY <1>3, <2>1, <3>1, <3>2, <3>3
  <2> QED
    BY <2>1, <2>2 DEF PlaceInv, new
<1> QED
  BY <1>5, <1>6

\* No row is lost and none is put twice.
AllPlaced(S, lines, rows, placed) ==
  /\ placed \in PlaceState(S)
  /\ \A i \in DOMAIN placed.comments : placed.comments[i].place \in lines
  /\ \A row \in S : TimesIn(placed.comments, row) + TimesIn(placed.skipped, row) = TimesIn(rows, row)

LEMMA Placed ==
  ASSUME NEW S, NEW lines, NEW rows \in Seq(S)
  PROVE  AllPlaced(S, lines, rows, PlaceFindings(lines, rows))
<1>0. PICK c : Places(S, lines, rows, c)
  BY PlacingLoop
<1>1. /\ c \in [0 .. Len(rows) -> PlaceState(S)] /\ c[0] = NoPayload
      /\ \A n \in 1 .. Len(rows) : c[n] = PlaceFinding(lines, c[n - 1], rows[n])
      /\ PlaceFindings(lines, rows) = c[Len(rows)]
  BY <1>0 DEF Places
<1> DEFINE T == {n \in 0 .. Len(rows) : PlaceInv(S, lines, rows, c[n], n)}
<1>2. 0 \in T
  <2>1. NoPayload.comments = << >> /\ NoPayload.skipped = << >>
    BY DEF NoPayload
  <2>2. \A row : TimesIn(<< >>, row) = 0 /\ TimesUpTo(rows, 0, row) = 0
    BY TimesNever
  <2>3. PlaceInv(S, lines, rows, NoPayload, 0)
    BY <2>1, <2>2 DEF PlaceInv
  <2> QED
    BY <1>1, <2>3
<1>3. ASSUME NEW n \in 1 .. Len(rows), n - 1 \in T PROVE n \in T
  <2>1. c[n - 1] \in PlaceState(S)
    BY <1>1
  <2> QED
    BY <1>1, <1>3, <2>1, PlaceFindingKeeps
<1>4. \A n \in 0 .. Len(rows) : n \in T
  <2>1. Len(rows) \in Nat
    OBVIOUS
  <2> HIDE DEF T
  <2> QED
    BY <1>2, <1>3, <2>1, Rounds
<1>5. PlaceInv(S, lines, rows, c[Len(rows)], Len(rows))
  BY <1>4
<1>6. \A row : TimesUpTo(rows, Len(rows), row) = TimesIn(rows, row)
  <2>1. DOMAIN rows = 1 .. Len(rows)
    OBVIOUS
  <2> QED
    BY <2>1 DEF TimesUpTo, TimesIn
<1> QED
  BY <1>1, <1>5, <1>6 DEF PlaceInv, AllPlaced

-----------------------------------------------------------------------------
(* The rows of the files                                                   *)

GatedRow == [id : Nat, status : Statuses, severity : Severities, place : Nat, title : Nat,
             evidence : Seq(Nat), text : Nat]

Flattening(seqs, flatten) ==
  flatten = [i \in 1 .. Len(seqs) |-> IF i = 1 THEN seqs[i] ELSE flatten[i - 1] \o seqs[i]]

LEMMA FlattenTyped ==
  ASSUME NEW S, NEW seqs \in Seq(Seq(S))
  PROVE  FlattenSeq(seqs) \in Seq(S)
<1>1. CASE Len(seqs) = 0
  <2>1. seqs = << >>
    BY <1>1
  <2>2. FlattenSeq(seqs) = seqs
    BY <1>1 DEF FlattenSeq
  <2>3. << >> \in Seq(S)
    OBVIOUS
  <2> QED
    BY <2>1, <2>2, <2>3, Zenon
<1>2. CASE Len(seqs) # 0
  <2> DEFINE N == Len(seqs)
             h == [n \in 1 .. N |-> [s \in Seq(S) |-> s \o seqs[n]]]
  <2>1. N \in Nat /\ 1 \in 1 .. N /\ N \in 1 .. N /\ << >> \in Seq(S)
    BY <1>2
  <2>2. h \in [1 .. N -> [Seq(S) -> Seq(S)]]
    OBVIOUS
  <2>3. PICK f : Unrolls(f, Seq(S), << >>, N, h)
    <3> HIDE DEF h, N
    <3> QED
      BY <2>1, <2>2, Loop
  <2>4. /\ f \in [0 .. N -> Seq(S)] /\ f[0] = << >>
        /\ \A n \in 1 .. N : f[n] = h[n][f[n - 1]]
    BY <2>3 DEF Unrolls
  <2>5. \A n \in 1 .. N : f[n] = f[n - 1] \o seqs[n]
    <3> TAKE n \in 1 .. N
    <3>1. n - 1 \in 0 .. N /\ f \in [0 .. N -> Seq(S)]
      BY <2>1, <2>4
    <3>2. f[n - 1] \in Seq(S)
      <4> HIDE DEF N
      <4> QED
        BY <3>1
    <3> QED
      BY <2>4, <3>2
  <2> DEFINE g == [i \in 1 .. N |-> f[i]]
  <2>6. \A i \in 1 .. N : g[i] = IF i = 1 THEN seqs[i] ELSE g[i - 1] \o seqs[i]
    <3> TAKE i \in 1 .. N
    <3>1. CASE i = 1
      <4>1. seqs[1] \in Seq(S)
        BY <2>1
      <4>2. f[1] = f[0] \o seqs[1]
        <5>1. 1 - 1 = 0
          OBVIOUS
        <5> HIDE DEF N, h
        <5>2. f[1] = f[1 - 1] \o seqs[1]
          BY <2>1, <2>5, Zenon
        <5> QED
          BY <5>1, <5>2, Zenon
      <4>3. f[0] = << >>
        BY <2>4
      <4>4. << >> \o seqs[1] = seqs[1]
        BY <4>1
      <4>5. g[1] = f[1]
        BY <2>1
      <4> HIDE DEF g, h, N
      <4> QED
        BY <3>1, <4>2, <4>3, <4>4, <4>5
    <3>2. CASE i # 1
      <4>1. i - 1 \in 1 .. N
        BY <3>2
      <4> HIDE DEF N
      <4> QED
        BY <2>5, <3>2, <4>1
    <3> QED
      BY <3>1, <3>2
  <2>7. Flattening(seqs, g)
    <3>1. g = [i \in 1 .. N |-> g[i]]
      OBVIOUS
    <3> HIDE DEF g, h
    <3> QED
      BY <2>6, <3>1 DEF Flattening
  <2> DEFINE c == CHOOSE flatten : Flattening(seqs, flatten)
  <2>8. Flattening(seqs, c)
    <3> HIDE DEF g
    <3> QED
      BY <2>7
  <2>9. FlattenSeq(seqs) = c[N]
    BY <1>2 DEF FlattenSeq, Flattening
  <2> HIDE DEF c, h, g
  <2>10. \A i \in 1 .. N : c[i] = IF i = 1 THEN seqs[i] ELSE c[i - 1] \o seqs[i]
    BY <2>8 DEF Flattening
  <2> DEFINE T == {n \in 0 .. N : n = 0 \/ c[n] \in Seq(S)}
  <2>11. 0 \in T
    BY <2>1
  <2>12. ASSUME NEW n \in 1 .. N, n - 1 \in T PROVE n \in T
    <3>1. seqs[n] \in Seq(S) /\ (n # 1 => c[n - 1] \in Seq(S))
      BY <2>12
    <3>2. n # 1 => c[n - 1] \o seqs[n] \in Seq(S)
      BY <3>1
    <3>3. c[n] = IF n = 1 THEN seqs[n] ELSE c[n - 1] \o seqs[n]
      BY <2>10
    <3>4. c[n] \in Seq(S)
      BY <3>1, <3>2, <3>3, Zenon
    <3> QED
      BY <3>4
  <2>13. \A n \in 0 .. N : n \in T
    <3> HIDE DEF T, N
    <3> QED
      BY <2>1, <2>11, <2>12, Rounds
  <2>14. c[N] \in Seq(S)
    BY <1>2, <2>1, <2>13
  <2> QED
    BY <2>9, <2>14
<1> QED
  BY <1>1, <1>2

LEMMA CollectedTyped ==
  ASSUME jsonl \in [Roles -> Seq(Row)]
  PROVE  Collected \in Seq(Row)
<1>1. Cardinality(Roles) \in Nat /\ Roles = 1 .. Cardinality(Roles)
  BY PipelineAssumption, FS_CardinalityType
<1>2. jsonl \in Seq(Seq(Row))
  BY <1>1
<1> QED
  BY <1>2, FlattenTyped DEF Collected

\* What a candidate has to have to be confirmed.
Earned(row, confirm) ==
  /\ row.valid /\ LineExists(row) /\ row.decided
  /\ row.verdict = "confirmed" \/
       (row.verdict = "none" /\ confirm /\ row.high /\ row.proven /\ row.introduced)

LEMMA GatedTyped ==
  ASSUME NEW row \in Row, NEW status \in Statuses, NEW severity \in Severities
  PROVE  /\ Gated(row, status, severity) \in GatedRow
         /\ Gated(row, status, severity).id = row.id
         /\ Gated(row, status, severity).status = status
BY DEF Gated, GatedRow, Row

LEMMA Verifies ==
  ASSUME NEW row \in Row, NEW confirm \in BOOLEAN
  PROVE  /\ VerifyCandidate(row, confirm) \in GatedRow
         /\ VerifyCandidate(row, confirm).id = row.id
         /\ VerifyCandidate(row, confirm).status = "confirmed" => Earned(row, confirm)
<1> DEFINE v == VerifyCandidate(row, confirm)
<1>1. /\ row.severity \in Severities /\ row.verdict \in Statuses \cup {"none"}
      /\ row.valid \in BOOLEAN /\ row.decided \in BOOLEAN /\ row.introduced \in BOOLEAN
      /\ row.high \in BOOLEAN /\ row.proven \in BOOLEAN
  BY DEF Row
<1>2. /\ "NeedsManualReview" \in Severities /\ "Pre-existing" \in Severities
      /\ "confirmed" \in Statuses /\ "false_positive" \in Statuses
      /\ "pre_existing" \in Statuses /\ "needs_manual_review" \in Statuses
  BY DEF Severities, Statuses
<1>3. \E status \in Statuses, severity \in Severities :
        /\ v = Gated(row, status, severity)
        /\ status = "confirmed" => Earned(row, confirm)
  <2>1. CASE ~row.valid \/ ~LineExists(row)
    <3>1. v = Gated(row, "false_positive", row.severity)
      BY <2>1 DEF VerifyCandidate
    <3> QED
      BY <1>1, <1>2, <3>1
  <2> DEFINE passes == row.valid /\ LineExists(row)
  <2>2. CASE passes /\ row.verdict = "confirmed"
    <3>1. v = IF row.decided THEN Gated(row, row.verdict, row.severity)
              ELSE Gated(row, "needs_manual_review", "NeedsManualReview")
      BY <2>2 DEF VerifyCandidate
    <3> QED
      BY <1>1, <1>2, <2>2, <3>1 DEF Earned
  <2>3. CASE passes /\ row.verdict = "pre_existing"
    <3>1. v = Gated(row, row.verdict, "Pre-existing")
      BY <2>3 DEF VerifyCandidate
    <3> QED
      BY <1>1, <1>2, <2>3, <3>1
  <2>4. CASE passes /\ row.verdict \in {"false_positive", "needs_manual_review"}
    <3>1. v = Gated(row, row.verdict, row.severity)
      BY <2>4 DEF VerifyCandidate
    <3> QED
      BY <1>1, <1>2, <2>4, <3>1
  <2>5. CASE passes /\ row.verdict = "none"
    <3>1. v = IF ~row.introduced \/ row.severity = "Pre-existing"
              THEN Gated(row, "pre_existing", "Pre-existing")
              ELSE IF row.high /\ row.proven /\ row.decided /\ confirm
              THEN Gated(row, "confirmed", row.severity)
              ELSE Gated(row, "needs_manual_review", row.severity)
      BY <2>5 DEF VerifyCandidate
    <3> QED
      BY <1>1, <1>2, <2>5, <3>1 DEF Earned
  <2> QED
    BY <1>1, <2>1, <2>2, <2>3, <2>4, <2>5 DEF Statuses
<1> HIDE DEF v
<1>4. v \in GatedRow /\ v.id = row.id /\ (v.status = "confirmed" => Earned(row, confirm))
  BY <1>3, GatedTyped
<1> QED
  BY <1>4 DEF v

-----------------------------------------------------------------------------
(* The merge.  After each row, every row met so far has an entry with what *)
(* it brought, and every entry is the first row of its key.                *)

KeysDiffer(rows) ==
  \A a \in DOMAIN rows : \A b \in DOMAIN rows : Key(rows[a]) = Key(rows[b]) => a = b

\* An entry has what a row brings.
Holds(entry, row) ==
  Key(entry) = Key(row) /\ ToSet(row.evidence) \subseteq ToSet(entry.evidence) /\ row.text <= entry.text

\* One round of adding evidence.
AddItem(evidence, item) == IF item \in ToSet(evidence) THEN evidence ELSE Append(evidence, item)

Adding(evidence, more, added) ==
  added = [n \in 0 .. Len(more) |->
             IF n = 0 THEN evidence ELSE AddItem(added[n - 1], more[n])]

LEMMA AddItemKeeps ==
  ASSUME NEW evidence \in Seq(Nat), NEW item \in Nat
  PROVE  /\ AddItem(evidence, item) \in Seq(Nat)
         /\ ToSet(evidence) \cup {item} \subseteq ToSet(AddItem(evidence, item))
<1>1. CASE item \in ToSet(evidence)
  BY <1>1 DEF AddItem
<1>2. CASE item \notin ToSet(evidence)
  <2> DEFINE longer == Append(evidence, item)
  <2>1. AddItem(evidence, item) = longer
    BY <1>2 DEF AddItem
  <2>2. /\ longer \in Seq(Nat) /\ DOMAIN evidence \subseteq DOMAIN longer
        /\ Len(evidence) + 1 \in DOMAIN longer /\ longer[Len(evidence) + 1] = item
        /\ \A n \in DOMAIN evidence : longer[n] = evidence[n]
    OBVIOUS
  <2> HIDE DEF longer
  <2>3. \A x \in ToSet(evidence) : x \in ToSet(longer)
    BY <2>2 DEF ToSet
  <2>4. item \in ToSet(longer)
    BY <2>2 DEF ToSet
  <2> QED
    BY <2>1, <2>2, <2>3, <2>4
<1> QED
  BY <1>1, <1>2

\* Adding evidence keeps what was there and leaves out nothing of the new.
LEMMA EvidenceAdded ==
  ASSUME NEW evidence \in Seq(Nat), NEW more \in Seq(Nat)
  PROVE  /\ AddEvidence(evidence, more) \in Seq(Nat)
         /\ ToSet(evidence) \cup ToSet(more) \subseteq ToSet(AddEvidence(evidence, more))
<1> DEFINE N == Len(more)
           h == [n \in 1 .. N |-> [e \in Seq(Nat) |-> AddItem(e, more[n])]]
<1>1. N \in Nat /\ DOMAIN more = 1 .. N /\ \A n \in 1 .. N : more[n] \in Nat
  OBVIOUS
<1>2. h \in [1 .. N -> [Seq(Nat) -> Seq(Nat)]]
  BY <1>1, AddItemKeeps
<1>3. PICK f : Unrolls(f, Seq(Nat), evidence, N, h)
  <2> HIDE DEF h, N
  <2> QED
    BY <1>1, <1>2, Loop
<1>4. /\ f \in [0 .. N -> Seq(Nat)] /\ f[0] = evidence
      /\ \A n \in 1 .. N : f[n] = h[n][f[n - 1]]
  BY <1>3 DEF Unrolls
<1>5. Adding(evidence, more, f)
  <2>1. \A n \in 1 .. N : f[n] = AddItem(f[n - 1], more[n])
    <3> TAKE n \in 1 .. N
    <3>1. n - 1 \in 0 .. N
      BY <1>1
    <3>2. f[n - 1] \in Seq(Nat)
      <4> HIDE DEF N, h
      <4> QED
        BY <1>4, <3>1
    <3> QED
      BY <1>4, <3>2
  <2> HIDE DEF h
  <2> QED
    BY <1>4, <2>1 DEF Adding
<1> DEFINE c == CHOOSE added : Adding(evidence, more, added)
<1>6. Adding(evidence, more, c)
  BY <1>5
<1>7. AddEvidence(evidence, more) = c[N]
  BY DEF AddEvidence, Adding, AddItem
<1> HIDE DEF c, h
<1>8. c[0] = evidence /\ \A n \in 1 .. N : c[n] = AddItem(c[n - 1], more[n])
  BY <1>6 DEF Adding
<1> DEFINE T == {n \in 0 .. N : /\ c[n] \in Seq(Nat)
                                /\ ToSet(evidence) \subseteq ToSet(c[n])
                                /\ \A k \in 1 .. n : more[k] \in ToSet(c[n])}
<1>9. 0 \in T
  BY <1>1, <1>8
<1>10. ASSUME NEW n \in 1 .. N, n - 1 \in T PROVE n \in T
  <2>1. c[n - 1] \in Seq(Nat) /\ more[n] \in Nat
    BY <1>1, <1>10
  <2>2. /\ c[n] \in Seq(Nat)
        /\ ToSet(c[n - 1]) \cup {more[n]} \subseteq ToSet(c[n])
    BY <1>8, <2>1, AddItemKeeps
  <2>3. \A k \in 1 .. n : k = n \/ k \in 1 .. n - 1
    OBVIOUS
  <2> QED
    BY <1>10, <2>2, <2>3
<1> HIDE DEF T, N
<1>11. \A n \in 0 .. N : n \in T
  BY <1>1, <1>9, <1>10, Rounds
<1>12. N \in T
  BY <1>1, <1>11
<1>13. \A x \in ToSet(more) : \E k \in 1 .. N : x = more[k]
  BY <1>1 DEF ToSet
<1> QED
  BY <1>7, <1>12, <1>13 DEF T

LEMMA Absorbs ==
  ASSUME NEW entry \in GatedRow, NEW row \in GatedRow, Key(entry) = Key(row)
  PROVE  /\ Absorb(entry, row) \in GatedRow
         /\ Holds(Absorb(entry, row), row)
         /\ \A other \in GatedRow : Holds(entry, other) => Holds(Absorb(entry, row), other)
         /\ Key(Absorb(entry, row)) = Key(entry)
         /\ Absorb(entry, row).id = entry.id /\ Absorb(entry, row).severity = entry.severity
<1> DEFINE new == Absorb(entry, row)
           evidence == AddEvidence(entry.evidence, row.evidence)
<1>1. /\ entry.text \in Nat /\ row.text \in Nat
      /\ entry.evidence \in Seq(Nat) /\ row.evidence \in Seq(Nat)
  BY DEF GatedRow
<1>2. /\ evidence \in Seq(Nat)
      /\ ToSet(entry.evidence) \subseteq ToSet(evidence)
      /\ ToSet(row.evidence) \subseteq ToSet(evidence)
  BY <1>1, EvidenceAdded
<1> HIDE DEF evidence
<1>3. /\ new.id = entry.id /\ new.status = entry.status /\ new.severity = entry.severity
      /\ new.place = entry.place /\ new.title = entry.title
      /\ new.evidence = evidence
      /\ new.text = IF row.text > entry.text THEN row.text ELSE entry.text
  BY DEF Absorb, GatedRow, evidence
<1>4. new \in GatedRow
  <2>1. new.evidence \in Seq(Nat) /\ new.text \in Nat
    BY <1>1, <1>2, <1>3
  <2>2. new = [entry EXCEPT !.evidence = new.evidence, !.text = new.text]
    BY <1>3 DEF Absorb, GatedRow, evidence
  <2> HIDE DEF new
  <2> QED
    BY <2>1, <2>2 DEF GatedRow
<1>5. Key(new) = Key(entry)
  BY <1>3 DEF Key
<1>6. Holds(new, row)
  <2> HIDE DEF new
  <2> QED
    BY <1>1, <1>2, <1>3, <1>5 DEF Holds
<1>7. ASSUME NEW other \in GatedRow, Holds(entry, other) PROVE Holds(new, other)
  <2>1. other.text \in Nat
    BY DEF GatedRow
  <2> HIDE DEF new
  <2> QED
    BY <1>1, <1>2, <1>3, <1>5, <1>7, <2>1 DEF Holds
<1> QED
  BY <1>3, <1>4, <1>5, <1>6, <1>7

LEMMA MergeCases ==
  ASSUME NEW rows \in Seq(GatedRow), NEW row \in GatedRow
  PROVE  \/ /\ \A a \in DOMAIN rows : Key(rows[a]) # Key(row)
            /\ Merge(rows, row) = Append(rows, row)
         \/ \E a \in DOMAIN rows :
              Key(rows[a]) = Key(row) /\ Merge(rows, row) = [rows EXCEPT ![a] = Absorb(rows[a], row)]
<1> DEFINE I == {i \in 1 .. Len(rows) : Key(rows[i]) = Key(row)}
           a == CHOOSE x \in I : \A y \in I : x <= y
<1>1. SelectInSeq(rows, LAMBDA r : Key(r) = Key(row)) = IF I # {} THEN a ELSE 0
  BY DEF SelectInSeq, Min
<1>2. CASE I = {}
  <2>1. Merge(rows, row) = Append(rows, row)
    <3> HIDE DEF I, a
    <3> QED
      BY <1>1, <1>2 DEF Merge
  <2> QED
    BY <1>2, <2>1
<1>3. CASE I # {}
  <2>1. \E x \in I : \A y \in I : x <= y
    <3>1. I \subseteq Nat
      OBVIOUS
    <3> HIDE DEF I
    <3> QED
      BY <1>3, <3>1, LeastNumber
  <2>2. a \in I
    <3> HIDE DEF I
    <3> QED
      BY <2>1
  <2> HIDE DEF a
  <2>3. a \in DOMAIN rows /\ Key(rows[a]) = Key(row) /\ a # 0
    BY <2>2
  <2>4. Merge(rows, row) = [rows EXCEPT ![a] = Absorb(rows[a], row)]
    <3> HIDE DEF I
    <3> QED
      BY <1>1, <1>3, <2>3 DEF Merge
  <2> QED
    BY <2>3, <2>4
<1> QED
  BY <1>2, <1>3

LEMMA MergeTyped ==
  ASSUME NEW rows \in Seq(GatedRow), NEW row \in GatedRow
  PROVE  Merge(rows, row) \in Seq(GatedRow)
<1>1. CASE Merge(rows, row) = Append(rows, row)
  BY <1>1
<1>2. ASSUME NEW a \in DOMAIN rows, Key(rows[a]) = Key(row),
             Merge(rows, row) = [rows EXCEPT ![a] = Absorb(rows[a], row)]
      PROVE  Merge(rows, row) \in Seq(GatedRow)
  <2>1. rows[a] \in GatedRow
    OBVIOUS
  <2>2. Absorb(rows[a], row) \in GatedRow
    BY <1>2, <2>1, Absorbs
  <2> QED
    BY <1>2, <2>2
<1> QED
  BY <1>1, <1>2, MergeCases

Merging(rows, merged) ==
  merged = [n \in 0 .. Len(rows) |-> IF n = 0 THEN << >> ELSE Merge(merged[n - 1], rows[n])]

\* The entries after each row.
Merges(rows, merged) ==
  /\ merged \in [0 .. Len(rows) -> Seq(GatedRow)]
  /\ merged[0] = << >>
  /\ \A n \in 1 .. Len(rows) : merged[n] = Merge(merged[n - 1], rows[n])
  /\ MergeRows(rows) = merged[Len(rows)]

LEMMA MergingLoop ==
  ASSUME NEW rows \in Seq(GatedRow)
  PROVE  \E merged : Merges(rows, merged)
<1> DEFINE N == Len(rows)
           h == [n \in 1 .. N |-> [s \in Seq(GatedRow) |-> Merge(s, rows[n])]]
<1>1. N \in Nat /\ << >> \in Seq(GatedRow)
  OBVIOUS
<1>2. h \in [1 .. N -> [Seq(GatedRow) -> Seq(GatedRow)]]
  <2>1. \A n \in 1 .. N : rows[n] \in GatedRow
    OBVIOUS
  <2>2. \A n \in 1 .. N : \A s \in Seq(GatedRow) : Merge(s, rows[n]) \in Seq(GatedRow)
    BY <2>1, MergeTyped
  <2> QED
    BY <2>2
<1>3. PICK f : Unrolls(f, Seq(GatedRow), << >>, N, h)
  <2> HIDE DEF h, N
  <2> QED
    BY <1>1, <1>2, Loop
<1>4. /\ f \in [0 .. N -> Seq(GatedRow)] /\ f[0] = << >>
      /\ \A n \in 1 .. N : f[n] = h[n][f[n - 1]]
  BY <1>3 DEF Unrolls
<1>5. Merging(rows, f)
  <2>1. \A n \in 1 .. N : f[n] = Merge(f[n - 1], rows[n])
    <3> TAKE n \in 1 .. N
    <3>1. n - 1 \in 0 .. N
      BY <1>1
    <3>2. f[n - 1] \in Seq(GatedRow)
      <4> HIDE DEF N, h
      <4> QED
        BY <1>4, <3>1
    <3> QED
      BY <1>4, <3>2
  <2> HIDE DEF h
  <2> QED
    BY <1>4, <2>1 DEF Merging
<1> DEFINE c == CHOOSE merged : Merging(rows, merged)
<1>6. Merging(rows, c)
  BY <1>5
<1>7. MergeRows(rows) = c[N]
  BY DEF MergeRows, Merging
<1> HIDE DEF c, h
<1>8. c[0] = << >> /\ \A n \in 1 .. N : c[n] = Merge(c[n - 1], rows[n])
  BY <1>6 DEF Merging
<1>9. \A n \in 0 .. N : c[n] \in Seq(GatedRow)
  <2> DEFINE T == {n \in 0 .. N : c[n] \in Seq(GatedRow)}
  <2>1. 0 \in T
    <3>1. c[0] \in Seq(GatedRow)
      BY <1>1, <1>8, Zenon
    <3> QED
      BY <1>1, <3>1
  <2>2. ASSUME NEW n \in 1 .. N, n - 1 \in T PROVE n \in T
    <3>1. c[n - 1] \in Seq(GatedRow) /\ rows[n] \in GatedRow
      BY <2>2
    <3>2. c[n] \in Seq(GatedRow)
      BY <1>8, <3>1, MergeTyped
    <3> QED
      BY <3>2
  <2> HIDE DEF T
  <2>3. \A n \in 0 .. N : n \in T
    BY <1>1, <2>1, <2>2, Rounds
  <2> QED
    BY <2>3 DEF T
<1>10. c \in [0 .. N -> Seq(GatedRow)]
  BY <1>6, <1>9 DEF Merging
<1> QED
  BY <1>7, <1>8, <1>10 DEF Merges

\* The i-th row is the first of its key among the first n.
FirstOfKey(rows, n, i) == \A j \in 1 .. n : Key(rows[j]) = Key(rows[i]) => i <= j

\* The entry is the i-th row, with what it took from others.
GrewFrom(entry, row) == Key(entry) = Key(row) /\ entry.id = row.id /\ entry.severity = row.severity

MergeInv(rows, merged, n) ==
  /\ KeysDiffer(merged)
  /\ \A i \in 1 .. n : \E a \in DOMAIN merged : Holds(merged[a], rows[i])
  /\ \A a \in DOMAIN merged : \E i \in 1 .. n :
       GrewFrom(merged[a], rows[i]) /\ FirstOfKey(rows, n, i)

LEMMA MergeKeeps ==
  ASSUME NEW rows \in Seq(GatedRow), NEW n \in 1 .. Len(rows), NEW s \in Seq(GatedRow),
         MergeInv(rows, s, n - 1)
  PROVE  MergeInv(rows, Merge(s, rows[n]), n)
<1> DEFINE row == rows[n]
<1>1. row \in GatedRow /\ n \in Nat /\ n \in 1 .. n /\ \A i \in 1 .. n - 1 : i \in 1 .. n /\ rows[i] \in GatedRow
  OBVIOUS
<1>2. \A i \in 1 .. n : i = n \/ i \in 1 .. n - 1
  OBVIOUS
<1>3. CASE /\ \A a \in DOMAIN s : Key(s[a]) # Key(row)
           /\ Merge(s, row) = Append(s, row)
  <2> DEFINE t == Append(s, row)
             last == Len(s) + 1
  <2>1. /\ DOMAIN t = DOMAIN s \cup {last} /\ last \notin DOMAIN s
        /\ t[last] = row /\ \A a \in DOMAIN s : t[a] = s[a]
    BY <1>1
  <2> HIDE DEF t, last, row
  <2>2. KeysDiffer(t)
    BY <1>3, <2>1 DEF KeysDiffer, MergeInv
  <2>3. Holds(row, row)
    BY <1>1 DEF Holds, GatedRow
  <2>4. \A i \in 1 .. n : \E a \in DOMAIN t : Holds(t[a], rows[i])
    BY <1>2, <2>1, <2>3 DEF MergeInv, row
  <2>5. \A i \in 1 .. n - 1 : Key(rows[i]) # Key(row)
    BY <1>3 DEF MergeInv, Holds
  <2>6. FirstOfKey(rows, n, n)
    BY <1>1, <1>2, <2>5 DEF FirstOfKey, row
  <2>7. GrewFrom(row, row)
    BY DEF GrewFrom
  <2>8. \A i \in 1 .. n - 1 : FirstOfKey(rows, n - 1, i) => FirstOfKey(rows, n, i)
    BY <1>2, <2>5 DEF FirstOfKey, row
  <2>9. ASSUME NEW a \in DOMAIN t
        PROVE  \E i \in 1 .. n : GrewFrom(t[a], rows[i]) /\ FirstOfKey(rows, n, i)
    <3>1. CASE a = last
      BY <1>1, <2>1, <2>6, <2>7, <3>1 DEF row
    <3>2. CASE a \in DOMAIN s
      <4>1. PICK i \in 1 .. n - 1 : GrewFrom(s[a], rows[i]) /\ FirstOfKey(rows, n - 1, i)
        BY <3>2 DEF MergeInv
      <4> QED
        BY <1>1, <2>1, <2>8, <3>2, <4>1
    <3> QED
      BY <2>1, <3>1, <3>2
  <2>10. MergeInv(rows, t, n)
    BY <2>2, <2>4, <2>9 DEF MergeInv
  <2> QED
    BY <1>3, <2>10 DEF t, row
<1>4. ASSUME NEW b \in DOMAIN s, Key(s[b]) = Key(row),
             Merge(s, row) = [s EXCEPT ![b] = Absorb(s[b], row)]
      PROVE  MergeInv(rows, Merge(s, row), n)
  <2> DEFINE new == Absorb(s[b], row)
             t == [s EXCEPT ![b] = Absorb(s[b], row)]
  <2>1. /\ DOMAIN t = DOMAIN s /\ t[b] = new
        /\ \A a \in DOMAIN s : a # b => t[a] = s[a]
    OBVIOUS
  <2>2. s[b] \in GatedRow
    OBVIOUS
  <2>3. /\ Holds(new, row) /\ Key(new) = Key(s[b]) /\ new.id = s[b].id /\ new.severity = s[b].severity
        /\ \A other \in GatedRow : Holds(s[b], other) => Holds(new, other)
    BY <1>1, <1>4, <2>2, Absorbs
  <2> HIDE DEF t, new, row
  <2>4. \A a \in DOMAIN s : Key(t[a]) = Key(s[a])
    BY <2>1, <2>3
  <2>5. KeysDiffer(t)
    BY <2>1, <2>4 DEF KeysDiffer, MergeInv
  <2>6. \A i \in 1 .. n : \E a \in DOMAIN t : Holds(t[a], rows[i])
    <3> TAKE i \in 1 .. n
    <3>1. CASE i = n
      BY <2>1, <2>3, <3>1 DEF row
    <3>2. CASE i \in 1 .. n - 1
      <4>1. PICK a \in DOMAIN s : Holds(s[a], rows[i])
        BY <3>2 DEF MergeInv
      <4>2. Holds(t[a], rows[i])
        BY <1>1, <2>1, <2>3, <3>2, <4>1
      <4> QED
        BY <2>1, <4>1, <4>2
    <3> QED
      BY <1>2, <3>1, <3>2
  <2>7. ASSUME NEW a \in DOMAIN t
        PROVE  \E i \in 1 .. n : GrewFrom(t[a], rows[i]) /\ FirstOfKey(rows, n, i)
    <3>1. PICK i \in 1 .. n - 1 : GrewFrom(s[a], rows[i]) /\ FirstOfKey(rows, n - 1, i)
      BY <2>1 DEF MergeInv
    <3>2. GrewFrom(t[a], rows[i])
      BY <2>1, <2>3, <3>1 DEF GrewFrom
    <3>3. FirstOfKey(rows, n, i)
      BY <1>1, <1>2, <3>1 DEF FirstOfKey
    <3> QED
      BY <1>1, <3>2, <3>3
  <2>8. MergeInv(rows, t, n)
    BY <2>5, <2>6, <2>7 DEF MergeInv
  <2> QED
    BY <1>4, <2>8 DEF t
<1> HIDE DEF row
<1> QED
  BY <1>1, <1>3, <1>4, MergeCases DEF row

\* What dedupe-rank.py makes of a list of rows before it sorts.
LEMMA Merged ==
  ASSUME NEW rows \in Seq(GatedRow)
  PROVE  /\ MergeRows(rows) \in Seq(GatedRow)
         /\ MergeInv(rows, MergeRows(rows), Len(rows))
<1>1. PICK c : Merges(rows, c)
  BY MergingLoop
<1>2. /\ c \in [0 .. Len(rows) -> Seq(GatedRow)] /\ c[0] = << >>
      /\ \A n \in 1 .. Len(rows) : c[n] = Merge(c[n - 1], rows[n])
      /\ MergeRows(rows) = c[Len(rows)]
  BY <1>1 DEF Merges
<1> DEFINE T == {n \in 0 .. Len(rows) : MergeInv(rows, c[n], n)}
<1>3. 0 \in T
  <2>1. MergeInv(rows, << >>, 0)
    BY DEF MergeInv, KeysDiffer
  <2> QED
    BY <1>2, <2>1
<1>4. ASSUME NEW n \in 1 .. Len(rows), n - 1 \in T PROVE n \in T
  <2>1. c[n - 1] \in Seq(GatedRow)
    BY <1>2
  <2> QED
    BY <1>2, <1>4, <2>1, MergeKeeps
<1>5. \A n \in 0 .. Len(rows) : n \in T
  <2>1. Len(rows) \in Nat
    OBVIOUS
  <2> HIDE DEF T
  <2> QED
    BY <1>3, <1>4, <2>1, Rounds
<1>6. Len(rows) \in 0 .. Len(rows) /\ MergeRows(rows) \in Seq(GatedRow)
  BY <1>2
<1> QED
  BY <1>2, <1>5, <1>6

-----------------------------------------------------------------------------
(* The ranking                                                             *)

LEMMA PositionsFinite ==
  ASSUME NEW S, NEW rows \in Seq(S), NEW positions \in SUBSET (DOMAIN rows)
  PROVE  IsFiniteSet(positions)
<1>1. IsFiniteSet(1 .. Len(rows)) /\ positions \in SUBSET (1 .. Len(rows))
  BY FS_Interval
<1> QED
  BY <1>1, FS_Subset

LEMMA ListOrders ==
  ASSUME NEW S, NEW rows \in Seq(S), NEW positions \in SUBSET (DOMAIN rows)
  PROVE  OrdersRows(ListOrder(rows), positions)
<1>1. \A i, j \in positions : <<i, j>> \in ListOrder(rows) <=> i < j
  BY DEF ListOrder, Pairs
<1>2. positions \subseteq Nat
  OBVIOUS
<1> QED
  BY <1>1, <1>2 DEF OrdersRows

LEMMA RankTyped ==
  ASSUME NEW row
  PROVE  SeverityRank(row) \in Nat
<1>1. SeverityRank(row) \in {0, 6, 7, 8}
  BY DEF SeverityRank
<1> QED
  BY <1>1

LEMMA SortOrders ==
  ASSUME NEW rows \in Seq(GatedRow)
  PROVE  OrdersRows(SortOrder(rows), DOMAIN rows)
<1> DEFINE D == DOMAIN rows
<1>1. \A i \in D : i \in Nat /\ rows[i].place \in Nat /\ SeverityRank(rows[i]) \in Nat
  <2> TAKE i \in D
  <2>1. rows[i] \in GatedRow
    OBVIOUS
  <2> QED
    BY <2>1, RankTyped DEF GatedRow
<1>2. \A i, j \in D : <<i, j>> \in SortOrder(rows) <=> SortsBefore(rows, i, j)
  BY DEF SortOrder, Pairs
<1> HIDE DEF D
<1>3. \A i \in D : ~SortsBefore(rows, i, i)
  BY <1>1 DEF SortsBefore
<1>4. \A i, j \in D : i # j => SortsBefore(rows, i, j) \/ SortsBefore(rows, j, i)
  BY <1>1 DEF SortsBefore
<1>5. ASSUME NEW i \in D, NEW j \in D, NEW k \in D, SortsBefore(rows, i, j), SortsBefore(rows, j, k)
      PROVE  SortsBefore(rows, i, k)
  <2>1. /\ i \in Nat /\ j \in Nat /\ k \in Nat
        /\ rows[i].place \in Nat /\ rows[j].place \in Nat /\ rows[k].place \in Nat
        /\ SeverityRank(rows[i]) \in Nat /\ SeverityRank(rows[j]) \in Nat /\ SeverityRank(rows[k]) \in Nat
    BY <1>1
  <2> QED
    BY <1>5, <2>1 DEF SortsBefore
<1>6. OrdersRows(SortOrder(rows), D)
  BY <1>2, <1>3, <1>4, <1>5 DEF OrdersRows
<1> QED
  BY <1>6 DEF D

\* A list has the rows at some positions of another, and no others.
ListsRows(list, rows, positions) ==
  /\ \A n \in DOMAIN list : \E i \in positions : list[n] = rows[i]
  /\ \A i \in positions : \E n \in DOMAIN list : list[n] = rows[i]

LEMMA ArrangedRows ==
  ASSUME NEW rows \in Seq(GatedRow), NEW positions \in SUBSET (DOMAIN rows),
         NEW before, OrdersRows(before, positions)
  PROVE  /\ Arranged(rows, positions, before) \in Seq(GatedRow)
         /\ ListsRows(Arranged(rows, positions, before), rows, positions)
         /\ KeysDiffer(rows) => KeysDiffer(Arranged(rows, positions, before))
<1>1. IsFiniteSet(positions) /\ Cardinality(positions) \in Nat
  BY PositionsFinite, FS_CardinalityType
<1>2. PICK pi : /\ Arranging(pi, positions, before)
                /\ Arranged(rows, positions, before)
                     = [n \in 1 .. Cardinality(positions) |-> rows[pi[n]]]
  BY <1>1, Arranges
<1> DEFINE size == Cardinality(positions)
           list == [n \in 1 .. size |-> rows[pi[n]]]
<1>3. /\ pi \in [1 .. size -> positions]
      /\ \A n, m \in 1 .. size : pi[n] = pi[m] => n = m
      /\ \A i \in positions : \E n \in 1 .. size : pi[n] = i
  BY <1>2 DEF Arranging
<1> HIDE DEF size
<1>4. \A n \in 1 .. size : pi[n] \in DOMAIN rows /\ rows[pi[n]] \in GatedRow
  BY <1>3
<1>5. list \in Seq(GatedRow)
  <2>1. size \in Nat
    BY <1>1 DEF size
  <2> QED
    BY <1>4, <2>1
<1>6. DOMAIN list = 1 .. size /\ \A n \in 1 .. size : list[n] = rows[pi[n]]
  OBVIOUS
<1> HIDE DEF list
<1>7. ListsRows(list, rows, positions)
  BY <1>3, <1>6 DEF ListsRows
<1>8. KeysDiffer(rows) => KeysDiffer(list)
  BY <1>3, <1>4, <1>6 DEF KeysDiffer
<1>9. Arranged(rows, positions, before) = list
  BY <1>2 DEF list, size
<1> QED
  BY <1>5, <1>7, <1>8, <1>9

LEMMA SortedRows ==
  ASSUME NEW rows \in Seq(GatedRow)
  PROVE  /\ Sorted(rows) \in Seq(GatedRow)
         /\ ListsRows(Sorted(rows), rows, DOMAIN rows)
         /\ KeysDiffer(rows) => KeysDiffer(Sorted(rows))
BY SortOrders, ArrangedRows DEF Sorted

\* The list has the rows of a severity, and no others.
ChosenRows(rows, severity, list) ==
  /\ list \in Seq(GatedRow) /\ (KeysDiffer(rows) => KeysDiffer(list))
  /\ \A n \in DOMAIN list : list[n].severity = severity /\ \E i \in DOMAIN rows : list[n] = rows[i]
  /\ \A i \in DOMAIN rows : rows[i].severity = severity => \E n \in DOMAIN list : list[n] = rows[i]

LEMMA SeverityRows ==
  ASSUME NEW rows \in Seq(GatedRow), NEW severity
  PROVE  ChosenRows(rows, severity, WithSeverity(rows, severity))
<1> DEFINE P == {i \in DOMAIN rows : rows[i].severity = severity}
<1>1. P \in SUBSET (DOMAIN rows) /\ \A i \in P : rows[i].severity = severity
  OBVIOUS
<1>2. WithSeverity(rows, severity) = Arranged(rows, P, ListOrder(rows))
  BY DEF WithSeverity
<1> HIDE DEF P
<1>3. OrdersRows(ListOrder(rows), P)
  BY <1>1, ListOrders
<1> DEFINE list == WithSeverity(rows, severity)
<1>4. list \in Seq(GatedRow) /\ ListsRows(list, rows, P) /\ (KeysDiffer(rows) => KeysDiffer(list))
  BY <1>1, <1>2, <1>3, ArrangedRows
<1>5. \A i \in DOMAIN rows : rows[i].severity = severity => i \in P
  BY DEF P
<1> HIDE DEF list
<1>6. /\ \A n \in DOMAIN list : list[n].severity = severity /\ \E i \in DOMAIN rows : list[n] = rows[i]
      /\ \A i \in DOMAIN rows : rows[i].severity = severity => \E n \in DOMAIN list : list[n] = rows[i]
  BY <1>1, <1>4, <1>5 DEF ListsRows
<1> QED
  BY <1>4, <1>6 DEF ChosenRows, list

\* The confirmed rows in the order of the list.
LEMMA ConfirmedRows ==
  ASSUME NEW rows \in Seq(GatedRow)
  PROVE  \E pi :
           LET list == WithStatus(rows, "confirmed") IN
           /\ list \in Seq(GatedRow)
           /\ \A n \in DOMAIN list : /\ pi[n] \in DOMAIN rows /\ rows[pi[n]].status = "confirmed"
                                     /\ list[n] = rows[pi[n]]
           /\ \A n, m \in DOMAIN list : n < m => pi[n] < pi[m]
           /\ \A i \in DOMAIN rows : rows[i].status = "confirmed" =>
                \E n \in DOMAIN list : pi[n] = i
<1> DEFINE P == {i \in DOMAIN rows : rows[i].status = "confirmed"}
           list == WithStatus(rows, "confirmed")
           size == Cardinality(P)
<1>1. P \in SUBSET (DOMAIN rows) /\ \A i \in P : rows[i].status = "confirmed"
  OBVIOUS
<1>2. list = Arranged(rows, P, ListOrder(rows))
  BY DEF WithStatus
<1>3. \A i \in DOMAIN rows : rows[i].status = "confirmed" => i \in P
  OBVIOUS
<1> HIDE DEF P, list
<1>4. OrdersRows(ListOrder(rows), P) /\ IsFiniteSet(P)
  BY <1>1, ListOrders, PositionsFinite
<1>5. PICK pi : Arranging(pi, P, ListOrder(rows)) /\ list = [n \in 1 .. size |-> rows[pi[n]]]
  BY <1>2, <1>4, Arranges
<1>6. size \in Nat
  BY <1>4, FS_CardinalityType
<1>7. DOMAIN list = 1 .. size /\ \A n \in 1 .. size : list[n] = rows[pi[n]]
  BY <1>5
<1>8. /\ \A n \in 1 .. size : pi[n] \in P
      /\ \A n, m \in 1 .. size : n < m => <<pi[n], pi[m]>> \in ListOrder(rows)
      /\ \A i \in P : \E n \in 1 .. size : pi[n] = i
  BY <1>5 DEF Arranging
<1>9. \A i, j \in P : <<i, j>> \in ListOrder(rows) => i < j
  BY DEF ListOrder
<1>10. list \in Seq(GatedRow)
  BY <1>1, <1>2, <1>4, ArrangedRows
<1> HIDE DEF size
<1>11. /\ \A n \in DOMAIN list : pi[n] \in DOMAIN rows /\ rows[pi[n]].status = "confirmed" /\ list[n] = rows[pi[n]]
       /\ \A n, m \in DOMAIN list : n < m => pi[n] < pi[m]
       /\ \A i \in DOMAIN rows : rows[i].status = "confirmed" => \E n \in DOMAIN list : pi[n] = i
  BY <1>1, <1>3, <1>7, <1>8, <1>9
<1> QED
  BY <1>10, <1>11 DEF list

LEMMA PrefixRows ==
  ASSUME NEW S, NEW rows \in Seq(S), NEW n \in Nat
  PROVE  /\ Prefix(rows, n) \in Seq(S)
         /\ Len(Prefix(rows, n)) = IF Len(rows) < n THEN Len(rows) ELSE n
         /\ \A i \in DOMAIN Prefix(rows, n) : i \in DOMAIN rows /\ Prefix(rows, n)[i] = rows[i]
         /\ Len(rows) <= n => Prefix(rows, n) = rows
<1> DEFINE m == IF Len(rows) < n THEN Len(rows) ELSE n
<1>1. m \in 0 .. Len(rows) /\ Len(rows) \in Nat /\ (Len(rows) <= n => m = Len(rows))
  OBVIOUS
<1>2. Prefix(rows, n) = SubSeq(rows, 1, m)
  BY DEF Prefix
<1> HIDE DEF m
<1>3. /\ SubSeq(rows, 1, m) \in Seq(S) /\ Len(SubSeq(rows, 1, m)) = m
      /\ \A i \in 1 .. m : SubSeq(rows, 1, m)[i] = rows[i]
  BY <1>1
<1>4. DOMAIN SubSeq(rows, 1, m) = 1 .. m /\ \A i \in 1 .. m : i \in DOMAIN rows
  BY <1>1
<1>5. m = Len(rows) => SubSeq(rows, 1, m) = rows
  BY <1>1
<1> QED
  BY <1>1, <1>2, <1>3, <1>4, <1>5 DEF m

Entries(rows) == MergeRows(WithStatus(rows, "confirmed"))
KeptOf(rows) == Ranked(rows).important \o Ranked(rows).nits

\* The sections of confirmed findings have the important entries and the first
\* nits, each once.
LEMMA KeptRows ==
  ASSUME NEW rows \in Seq(GatedRow)
  PROVE  /\ KeptOf(rows) \in Seq(GatedRow) /\ KeysDiffer(KeptOf(rows))
         /\ \A n \in DOMAIN KeptOf(rows) :
              /\ KeptOf(rows)[n].severity \in {"Important", "Nit"}
              /\ \E a \in DOMAIN Entries(rows) : KeptOf(rows)[n] = Entries(rows)[a]
         /\ \A a \in DOMAIN Entries(rows) : Entries(rows)[a].severity = "Important" =>
              \E n \in DOMAIN KeptOf(rows) : KeptOf(rows)[n] = Entries(rows)[a]
         /\ \A a \in DOMAIN Entries(rows) : Entries(rows)[a].severity = "Nit" =>
              \/ \E n \in DOMAIN KeptOf(rows) : KeptOf(rows)[n] = Entries(rows)[a]
              \/ Len(Ranked(rows).nits) = MaxNits
<1> DEFINE list == WithStatus(rows, "confirmed")
           M == Entries(rows)
           D == Sorted(M)
           I == WithSeverity(D, "Important")
           all == WithSeverity(D, "Nit")
           N == Prefix(all, MaxNits)
           F == I \o N
<1>1. Ranked(rows).important = I /\ Ranked(rows).nits = N
  BY DEF Ranked, Entries
<1>2. KeptOf(rows) = F
  BY <1>1 DEF KeptOf
<1>3. M \in Seq(GatedRow) /\ KeysDiffer(M)
  <2>1. list \in Seq(GatedRow)
    BY ConfirmedRows
  <2> HIDE DEF list
  <2>2. MergeRows(list) \in Seq(GatedRow) /\ KeysDiffer(MergeRows(list))
    BY <2>1, Merged DEF MergeInv
  <2> QED
    BY <2>2 DEF Entries, list
<1> HIDE DEF M, list
<1>4. /\ D \in Seq(GatedRow) /\ KeysDiffer(D)
      /\ \A i \in DOMAIN D : \E a \in DOMAIN M : D[i] = M[a]
      /\ \A a \in DOMAIN M : \E i \in DOMAIN D : D[i] = M[a]
  BY <1>3, SortedRows DEF ListsRows
<1> HIDE DEF D
<1>5. /\ I \in Seq(GatedRow) /\ KeysDiffer(I)
      /\ \A n \in DOMAIN I : I[n].severity = "Important" /\ \E i \in DOMAIN D : I[n] = D[i]
      /\ \A i \in DOMAIN D : D[i].severity = "Important" => \E n \in DOMAIN I : I[n] = D[i]
  <2>1. ChosenRows(D, "Important", I)
    BY <1>4, SeverityRows
  <2> HIDE DEF I
  <2> QED
    BY <1>4, <2>1 DEF ChosenRows
<1>6. /\ all \in Seq(GatedRow) /\ KeysDiffer(all)
      /\ \A n \in DOMAIN all : all[n].severity = "Nit" /\ \E i \in DOMAIN D : all[n] = D[i]
      /\ \A i \in DOMAIN D : D[i].severity = "Nit" => \E n \in DOMAIN all : all[n] = D[i]
  <2>1. ChosenRows(D, "Nit", all)
    BY <1>4, SeverityRows
  <2> HIDE DEF all
  <2> QED
    BY <1>4, <2>1 DEF ChosenRows
<1> HIDE DEF I, all
<1>7. MaxNits \in Nat
  BY PipelineAssumption
<1>8. /\ N \in Seq(GatedRow)
      /\ \A n \in DOMAIN N : n \in DOMAIN all /\ N[n] = all[n]
      /\ Len(N) # MaxNits => N = all
  BY <1>6, <1>7, PrefixRows
<1> HIDE DEF N
<1>9. /\ F \in Seq(GatedRow)
      /\ \A n \in DOMAIN I : n \in DOMAIN F /\ F[n] = I[n]
      /\ \A n \in DOMAIN N : Len(I) + n \in DOMAIN F /\ F[Len(I) + n] = N[n]
      /\ \A n \in DOMAIN F : n \in DOMAIN I \/ (n - Len(I) \in DOMAIN N /\ n = Len(I) + (n - Len(I)))
  <2>1. /\ I \in Seq(GatedRow) /\ N \in Seq(GatedRow)
        /\ Len(I) \in Nat /\ Len(N) \in Nat /\ DOMAIN I = 1 .. Len(I) /\ DOMAIN N = 1 .. Len(N)
    BY <1>5, <1>8
  <2>2. F \in Seq(GatedRow) /\ Len(F) = Len(I) + Len(N) /\ DOMAIN F = 1 .. Len(F)
    BY <2>1
  <2>3. \A n \in 1 .. Len(I) + Len(N) : F[n] = IF n <= Len(I) THEN I[n] ELSE N[n - Len(I)]
    BY <2>1
  <2> HIDE DEF F
  <2>4. \A n \in DOMAIN I : n \in DOMAIN F /\ F[n] = I[n]
    BY <2>1, <2>2, <2>3
  <2>5. \A n \in DOMAIN N : Len(I) + n \in DOMAIN F /\ F[Len(I) + n] = N[n]
    <3> TAKE n \in DOMAIN N
    <3>1. /\ Len(I) + n \in 1 .. Len(I) + Len(N) /\ ~(Len(I) + n <= Len(I))
          /\ (Len(I) + n) - Len(I) = n
      BY <2>1
    <3> QED
      BY <2>2, <2>3, <3>1
  <2>6. \A n \in DOMAIN F : n \in DOMAIN I \/ (n - Len(I) \in DOMAIN N /\ n = Len(I) + (n - Len(I)))
    BY <2>1, <2>2
  <2> QED
    BY <2>2, <2>4, <2>5, <2>6
<1> HIDE DEF F
<1>10. \A n \in DOMAIN F : \/ n \in DOMAIN I /\ F[n] = I[n]
                           \/ \E m \in DOMAIN N : n = Len(I) + m /\ F[n] = N[m]
  BY <1>9
<1>11. /\ \A n \in DOMAIN I : \E a \in DOMAIN M : I[n] = M[a]
       /\ \A n \in DOMAIN N : N[n].severity = "Nit" /\ \E a \in DOMAIN M : N[n] = M[a]
  BY <1>4, <1>5, <1>6, <1>8
<1>12. ASSUME NEW n \in DOMAIN F
       PROVE  F[n].severity \in {"Important", "Nit"} /\ \E a \in DOMAIN M : F[n] = M[a]
  BY <1>5, <1>10, <1>11
<1>13. ASSUME NEW a \in DOMAIN M, M[a].severity = "Important"
       PROVE  \E n \in DOMAIN F : F[n] = M[a]
  BY <1>4, <1>5, <1>9, <1>13
<1>14. ASSUME NEW a \in DOMAIN M, M[a].severity = "Nit", Len(N) # MaxNits
       PROVE  \E n \in DOMAIN F : F[n] = M[a]
  BY <1>4, <1>6, <1>8, <1>9, <1>14
<1>15. KeysDiffer(F)
  <2> SUFFICES ASSUME NEW n \in DOMAIN F, NEW m \in DOMAIN F, Key(F[n]) = Key(F[m]) PROVE n = m
    BY DEF KeysDiffer
  <2>1. F[n] = F[m]
    BY <1>3, <1>12 DEF KeysDiffer
  <2>2. CASE n \in DOMAIN I /\ F[n] = I[n]
    <3>1. m \in DOMAIN I /\ F[m] = I[m]
      <4>1. F[m].severity = "Important"
        BY <1>5, <2>1, <2>2
      <4>2. \A k \in DOMAIN N : F[m] # N[k]
        BY <1>11, <4>1
      <4> QED
        BY <1>10, <4>2
    <3> QED
      BY <1>5, <2>1, <2>2, <3>1 DEF KeysDiffer
  <2>3. ASSUME NEW k \in DOMAIN N, n = Len(I) + k, F[n] = N[k] PROVE n = m
    <3>1. PICK j \in DOMAIN N : m = Len(I) + j /\ F[m] = N[j]
      <4>1. F[m].severity = "Nit"
        BY <1>11, <2>1, <2>3
      <4>2. \A i \in DOMAIN I : F[m] # I[i]
        BY <1>5, <4>1
      <4> QED
        BY <1>10, <4>2
    <3>2. k \in DOMAIN all /\ j \in DOMAIN all /\ all[k] = N[k] /\ all[j] = N[j]
      BY <1>8
    <3>3. k = j
      BY <1>6, <2>3, <3>1, <3>2 DEF KeysDiffer
    <3> QED
      BY <2>3, <3>1, <3>3
  <2> QED
    BY <1>10, <2>2, <2>3
<1> QED
  BY <1>1, <1>2, <1>9, <1>12, <1>13, <1>14, <1>15 DEF M

\* An entry is in the sections where its key is, and nowhere else.
LEMMA KeptByKey ==
  ASSUME NEW rows \in Seq(GatedRow), NEW a \in DOMAIN Entries(rows),
         NEW n \in DOMAIN KeptOf(rows), Key(KeptOf(rows)[n]) = Key(Entries(rows)[a])
  PROVE  KeptOf(rows)[n] = Entries(rows)[a]
<1>1. KeysDiffer(Entries(rows))
  <2> DEFINE list == WithStatus(rows, "confirmed")
  <2>1. list \in Seq(GatedRow)
    BY ConfirmedRows
  <2> HIDE DEF list
  <2>2. KeysDiffer(MergeRows(list))
    BY <2>1, Merged DEF MergeInv
  <2> QED
    BY <2>2 DEF Entries, list
<1>2. PICK b \in DOMAIN Entries(rows) : KeptOf(rows)[n] = Entries(rows)[b]
  BY KeptRows
<1> QED
  BY <1>1, <1>2 DEF KeysDiffer

\* An entry has the name of a confirmed row, and the severity of the first row
\* of its key.
LEMMA EntriesFromRows ==
  ASSUME NEW rows \in Seq(GatedRow)
  PROVE  /\ \A a \in DOMAIN Entries(rows) : \E i \in DOMAIN rows :
              /\ rows[i].status = "confirmed" /\ GrewFrom(Entries(rows)[a], rows[i])
              /\ \A j \in DOMAIN rows :
                   rows[j].status = "confirmed" /\ Key(rows[j]) = Key(rows[i]) => i <= j
         /\ \A i \in DOMAIN rows : rows[i].status = "confirmed" =>
              \E a \in DOMAIN Entries(rows) : Holds(Entries(rows)[a], rows[i])
<1> DEFINE list == WithStatus(rows, "confirmed")
           M == Entries(rows)
<1>1. PICK pi :
        /\ list \in Seq(GatedRow)
        /\ \A n \in DOMAIN list : /\ pi[n] \in DOMAIN rows /\ rows[pi[n]].status = "confirmed"
                                  /\ list[n] = rows[pi[n]]
        /\ \A n, m \in DOMAIN list : n < m => pi[n] < pi[m]
        /\ \A i \in DOMAIN rows : rows[i].status = "confirmed" => \E n \in DOMAIN list : pi[n] = i
  BY ConfirmedRows
<1>2. MergeInv(list, M, Len(list))
  <2> HIDE DEF list
  <2>1. MergeInv(list, MergeRows(list), Len(list))
    BY <1>1, Merged
  <2> QED
    BY <2>1 DEF Entries, list
<1>3. DOMAIN list = 1 .. Len(list) /\ \A i \in DOMAIN rows : i \in Nat
  BY <1>1
<1> HIDE DEF list, M
<1>4. ASSUME NEW a \in DOMAIN M
      PROVE  \E i \in DOMAIN rows :
               /\ rows[i].status = "confirmed" /\ GrewFrom(M[a], rows[i])
               /\ \A j \in DOMAIN rows :
                    rows[j].status = "confirmed" /\ Key(rows[j]) = Key(rows[i]) => i <= j
  <2>1. PICK n \in DOMAIN list : GrewFrom(M[a], list[n]) /\ FirstOfKey(list, Len(list), n)
    BY <1>2, <1>3 DEF MergeInv
  <2>2. pi[n] \in DOMAIN rows /\ rows[pi[n]].status = "confirmed" /\ list[n] = rows[pi[n]]
    BY <1>1, <2>1
  <2>3. ASSUME NEW j \in DOMAIN rows, rows[j].status = "confirmed", Key(rows[j]) = Key(rows[pi[n]])
        PROVE  pi[n] <= j
    <3>1. PICK m \in DOMAIN list : pi[m] = j
      BY <1>1, <2>3
    <3>2. Key(list[m]) = Key(list[n])
      BY <1>1, <2>2, <2>3, <3>1
    <3>3. n <= m /\ n \in Nat /\ m \in Nat
      BY <1>3, <2>1, <3>2 DEF FirstOfKey
    <3>4. n = m \/ n < m
      BY <3>3
    <3> QED
      BY <1>1, <1>3, <2>2, <3>1, <3>4
  <2> QED
    BY <2>1, <2>2, <2>3
<1>5. ASSUME NEW i \in DOMAIN rows, rows[i].status = "confirmed"
      PROVE  \E a \in DOMAIN M : Holds(M[a], rows[i])
  <2>1. PICK n \in DOMAIN list : pi[n] = i /\ list[n] = rows[i]
    BY <1>1, <1>5
  <2> QED
    BY <1>2, <1>3, <2>1 DEF MergeInv
<1> QED
  BY <1>4, <1>5 DEF M

-----------------------------------------------------------------------------
(* The report and the review                                               *)

LEMMA VerifiedTyped ==
  ASSUME PipelineInv, stage \in {"rank", "report"}
  PROVE  /\ Collected \in Seq(Row) /\ static \in BOOLEAN
         /\ verified \in Seq(GatedRow) /\ DOMAIN verified = DOMAIN Collected
         /\ \A i \in DOMAIN verified : verified[i] = VerifyCandidate(Collected[i], static)
<1>1. Collected \in Seq(Row) /\ static \in BOOLEAN
  BY CollectedTyped DEF PipelineInv
<1>2. verified = [i \in DOMAIN Collected |-> VerifyCandidate(Collected[i], static)]
  BY DEF PipelineInv
<1>3. \A i \in DOMAIN Collected : VerifyCandidate(Collected[i], static) \in GatedRow
  <2>1. \A i \in DOMAIN Collected : Collected[i] \in Row
    BY <1>1
  <2> QED
    BY <1>1, <2>1, Verifies
<1>4. DOMAIN Collected = 1 .. Len(Collected) /\ Len(Collected) \in Nat
  BY <1>1
<1>5. verified \in Seq(GatedRow)
  BY <1>2, <1>3, <1>4
<1> QED
  BY <1>1, <1>2, <1>5

LEMMA KeptIs == ASSUME PipelineInv, stage = "report" PROVE Kept = KeptOf(verified)
BY DEF PipelineInv, Kept, KeptOf

LEMMA EarnedHolds == PipelineInv => ConfirmedEarned
<1> SUFFICES ASSUME PipelineInv, stage = "report", NEW f \in ToSet(Kept)
             PROVE  \E row \in ToSet(Collected) : row.id = f.id /\ Earned(row, static)
  BY DEF ConfirmedEarned, Earned
<1>1. /\ Collected \in Seq(Row) /\ static \in BOOLEAN
      /\ verified \in Seq(GatedRow) /\ DOMAIN verified = DOMAIN Collected
      /\ \A i \in DOMAIN verified : verified[i] = VerifyCandidate(Collected[i], static)
  BY VerifiedTyped
<1>2. PICK n \in DOMAIN KeptOf(verified) : f = KeptOf(verified)[n]
  BY KeptIs DEF ToSet
<1>3. PICK a \in DOMAIN Entries(verified) : f = Entries(verified)[a]
  BY <1>1, <1>2, KeptRows
<1>4. PICK i \in DOMAIN verified : verified[i].status = "confirmed" /\ GrewFrom(f, verified[i])
  BY <1>1, <1>3, EntriesFromRows
<1>5. Collected[i] \in Row /\ verified[i] = VerifyCandidate(Collected[i], static)
  BY <1>1
<1>6. verified[i].id = Collected[i].id /\ Earned(Collected[i], static)
  BY <1>1, <1>4, <1>5, Verifies
<1>7. Collected[i] \in ToSet(Collected)
  BY <1>1 DEF ToSet
<1> QED
  BY <1>4, <1>6, <1>7 DEF GrewFrom

\* The findings of the report are the kept ones, with less evidence.
LEMMA ShownAre ==
  ASSUME Kept \in Seq(GatedRow)
  PROVE  /\ DOMAIN Shown = DOMAIN Kept
         /\ \A n \in DOMAIN Kept :
              /\ Key(Shown[n]) = Key(Kept[n]) /\ Shown[n].text = Kept[n].text
              /\ \/ Shown[n].evidence = Kept[n].evidence
                 \/ Len(Shown[n].evidence) = EvidenceLimit
<1>1. DOMAIN Shown = DOMAIN Kept
  BY DEF Shown
<1>2. ASSUME NEW n \in DOMAIN Kept
      PROVE  /\ Key(Shown[n]) = Key(Kept[n]) /\ Shown[n].text = Kept[n].text
             /\ \/ Shown[n].evidence = Kept[n].evidence
                \/ Len(Shown[n].evidence) = EvidenceLimit
  <2> DEFINE row == Kept[n]
  <2>1. row \in GatedRow
    OBVIOUS
  <2>2. Shown[n] = [row EXCEPT !.evidence = Prefix(row.evidence, EvidenceLimit)]
    BY DEF Shown
  <2>3. /\ Shown[n].place = row.place /\ Shown[n].title = row.title /\ Shown[n].text = row.text
        /\ Shown[n].evidence = Prefix(row.evidence, EvidenceLimit)
    BY <2>1, <2>2 DEF GatedRow
  <2>4. row.evidence \in Seq(Nat) /\ EvidenceLimit \in Nat
    BY <2>1, PipelineAssumption DEF GatedRow
  <2>5. /\ Len(Prefix(row.evidence, EvidenceLimit))
             = IF Len(row.evidence) < EvidenceLimit THEN Len(row.evidence) ELSE EvidenceLimit
        /\ Len(row.evidence) <= EvidenceLimit => Prefix(row.evidence, EvidenceLimit) = row.evidence
    BY <2>4, PrefixRows
  <2>6. Len(row.evidence) \in Nat
    BY <2>4
  <2> HIDE DEF row
  <2> QED
    BY <2>3, <2>4, <2>5, <2>6 DEF Key, row
<1> QED
  BY <1>1, <1>2

LEMMA ShownHolds == PipelineInv => ConfirmedShown
<1> SUFFICES ASSUME PipelineInv, stage = "report", NEW row \in ToSet(verified),
                    row.status = "confirmed"
             PROVE  LET mine == {n \in DOMAIN Shown : Key(Shown[n]) = Key(row)}
                        severity == Representative(row).severity
                    IN /\ Cardinality(mine) <= 1
                       /\ \A n \in mine : Tells(Shown[n], row)
                       /\ mine = {} => \/ severity = "Nit" /\ Len(findings.nits) = MaxNits
                                       \/ severity \notin {"Important", "Nit"}
  BY DEF ConfirmedShown
<1> DEFINE same == {j \in DOMAIN verified : verified[j].status = "confirmed" /\ Key(verified[j]) = Key(row)}
           least == CHOOSE j \in same : \A k \in same : j <= k
           mine == {n \in DOMAIN Shown : Key(Shown[n]) = Key(row)}
<1>1. verified \in Seq(GatedRow) /\ Kept = KeptOf(verified) /\ findings = Ranked(verified)
  BY VerifiedTyped, KeptIs DEF PipelineInv
<1>2. PICK i \in DOMAIN verified : row = verified[i]
  BY DEF ToSet
<1>3. PICK a \in DOMAIN Entries(verified) : Holds(Entries(verified)[a], row)
  BY <1>1, <1>2, EntriesFromRows
<1> DEFINE entry == Entries(verified)[a]
<1>4. PICK k \in DOMAIN verified :
        /\ verified[k].status = "confirmed" /\ GrewFrom(entry, verified[k])
        /\ \A j \in DOMAIN verified :
             verified[j].status = "confirmed" /\ Key(verified[j]) = Key(verified[k]) => k <= j
  BY <1>1, EntriesFromRows
<1>5. Representative(row).severity = entry.severity
  <2>1. k \in same /\ \A j \in same : k <= j
    BY <1>3, <1>4 DEF Holds, GrewFrom
  <2>2. \A j \in same : j \in Nat
    BY <1>1
  <2>3. Representative(row) = verified[least]
    BY DEF Representative
  <2> HIDE DEF same
  <2>4. least = k
    <3>1. \A j \in same : (\A m \in same : j <= m) => j = k
      BY <2>1, <2>2
    <3> QED
      BY <2>1, <3>1
  <2> QED
    BY <1>4, <2>3, <2>4 DEF GrewFrom
<1>6. Kept \in Seq(GatedRow) /\ KeysDiffer(Kept)
  BY <1>1, KeptRows
<1>7. /\ DOMAIN Shown = DOMAIN Kept
      /\ \A n \in DOMAIN Kept :
           /\ Key(Shown[n]) = Key(Kept[n]) /\ Shown[n].text = Kept[n].text
           /\ Shown[n].evidence = Kept[n].evidence \/ Len(Shown[n].evidence) = EvidenceLimit
  BY <1>6, ShownAre
<1>8. \A n \in mine : n \in DOMAIN Kept /\ Kept[n] = entry
  BY <1>1, <1>3, <1>7, KeptByKey DEF Holds
<1>9. \A n \in DOMAIN Kept : Kept[n] = entry => n \in mine
  BY <1>3, <1>7 DEF Holds
<1>10. \A n, m \in mine : n = m
  BY <1>6, <1>8 DEF KeysDiffer
<1>11. ToSet(row.evidence) \subseteq ToSet(entry.evidence) /\ row.text <= entry.text
  BY <1>3 DEF Holds
<1> HIDE DEF same, least, mine, entry
<1>12. \A n \in mine : Tells(Shown[n], row)
  BY <1>7, <1>8, <1>11 DEF Tells
<1>13. Cardinality(mine) <= 1
  <2>1. CASE mine = {}
    BY <2>1, FS_EmptySet
  <2>2. CASE mine # {}
    <3>1. PICK n \in mine : mine = {n}
      BY <1>10, <2>2
    <3>2. Cardinality(mine) = 1
      BY <3>1, FS_Singleton
    <3> QED
      BY <3>2
  <2> QED
    BY <2>1, <2>2
<1>14. CASE mine = {}
  <2>1. entry.severity # "Important"
    BY <1>1, <1>9, <1>14, KeptRows DEF entry
  <2>2. entry.severity = "Nit" => Len(findings.nits) = MaxNits
    BY <1>1, <1>9, <1>14, KeptRows DEF entry
  <2> QED
    BY <1>5, <1>12, <1>13, <1>14, <2>1, <2>2 DEF mine
<1>15. CASE mine # {}
  BY <1>12, <1>13, <1>15 DEF mine
<1> QED
  BY <1>14, <1>15

\* Whatever the reviewers wrote and left, no finding is among the confirmed
\* ones of a report unless a candidate of its name, on a line that exists and
\* with the fields a reader decides by, carries the status "confirmed" or
\* passed the gates of --static-confirm.
THEOREM FindingsEarned == PostingSpec => []ConfirmedEarned
<1>1. PostingInv => ConfirmedEarned
  BY EarnedHolds DEF PostingInv
<1> QED
  BY <1>1, PostingInvariance, PTL

\* However many candidates there are and in whichever order they come, the
\* report tells each confirmed one in at most one finding, with its texts and
\* as much evidence as a report shows; it leaves one out only for what the
\* first candidate with its key is: a nit beyond the limit on nits, or of a
\* severity without a section.
THEOREM CandidatesShown == PostingSpec => []ConfirmedShown
<1>1. PostingInv => ConfirmedShown
  BY ShownHolds DEF PostingInv
<1> QED
  BY <1>1, PostingInvariance, PTL

LEMMA PatchesTyped ==
  ASSUME patch \in Seq(PatchTexts), NEW h \in DOMAIN patch
  PROVE  patch[h] \in Seq(RawLine)
<1>1. patch[h] \in PatchTexts
  OBVIOUS
<1> QED
  BY <1>1, PostAssumption

LEMMA InlineHolds == PostingInv => InlineOnDiffLine
<1> SUFFICES ASSUME PostingInv, Built, fetched = ContextHead, NEW row \in ToSet(payload.comments)
             PROVE  row.place \in RightSide(patch[ContextHead]) \cup Overrun(patch[ContextHead])
  BY DEF InlineOnDiffLine
<1>1. PICK i \in DOMAIN payload.comments : row = payload.comments[i]
  BY DEF ToSet
<1>2. CASE mode = "review"
  <2> DEFINE lines == CommentableLines(patch[fetched])
             placed == PlaceFindings(lines, Kept)
  <2>1. payload = ReviewPayload /\ fetched \in DOMAIN patch /\ patch \in Seq(PatchTexts)
    BY <1>2 DEF PostingInv, PostInv, BuiltInv
  <2>2. lines \subseteq (RightSide(patch[fetched]) \cup Overrun(patch[fetched]))
    BY <2>1, PatchesTyped, CommentableOnRight
  <2>3. Kept \in Seq(GatedRow)
    <3>1. PipelineInv /\ stage = "report"
      BY DEF PostingInv, PostInv, BuiltInv, Built
    <3>2. verified \in Seq(GatedRow) /\ Kept = KeptOf(verified)
      BY <3>1, VerifiedTyped, KeptIs
    <3> QED
      BY <3>2, KeptRows
  <2> HIDE DEF lines
  <2>4. placed \in PlaceState(GatedRow) /\ \A j \in DOMAIN placed.comments : placed.comments[j].place \in lines
    <3>1. AllPlaced(GatedRow, lines, Kept, placed)
      BY <2>3, Placed
    <3> HIDE DEF placed
    <3> QED
      BY <3>1 DEF AllPlaced
  <2> HIDE DEF placed
  <2>5. ReviewPayload.comments = placed.comments
    BY <2>4 DEF ReviewPayload, PlaceState, placed, lines
  <2> QED
    BY <1>1, <2>1, <2>2, <2>4, <2>5
<1>3. CASE mode # "review"
  <2>1. payload = SummaryPayload
    BY <1>3 DEF PostingInv, PostInv, BuiltInv
  <2>2. payload.comments = << >>
    BY <2>1 DEF SummaryPayload, NoPayload
  <2> QED
    BY <1>1, <2>2
<1> QED
  BY <1>2, <1>3

\* Whatever the patch is and wherever splitlines() cuts its lines, no inline
\* comment is off the diff of the commit that the review names while the files
\* are those of that commit, unless it is on a line from the start of a hunk
\* in which a line is cut.
THEOREM CommentsOnDiff == PostingSpec => []InlineOnDiffLine
<1>1. PostingInv => InlineOnDiffLine
  BY InlineHolds
<1> QED
  BY <1>1, PostingInvariance, PTL

LEMMA OnceEach ==
  ASSUME NEW rows \in Seq(GatedRow), KeysDiffer(rows), NEW row \in ToSet(rows)
  PROVE  row \in GatedRow /\ TimesIn(rows, row) = 1
<1>1. PICK n \in DOMAIN rows : row = rows[n]
  BY DEF ToSet
<1>2. {i \in DOMAIN rows : rows[i] = row} = {n}
  BY <1>1 DEF KeysDiffer
<1>3. row \in GatedRow
  BY <1>1
<1> QED
  BY <1>2, <1>3, FS_Singleton DEF TimesIn

LEMMA PlacedHolds == PostingInv => EveryFindingPlaced
<1> SUFFICES ASSUME PostingInv, Built, Len(payload.skipped) <= ListLimit, NEW row \in ToSet(Kept)
             PROVE  TimesIn(payload.comments, row) + TimesIn(payload.listed, row) = 1
  BY DEF EveryFindingPlaced
<1>1. Kept \in Seq(GatedRow) /\ KeysDiffer(Kept)
  <2>1. PipelineInv /\ stage = "report"
    BY DEF PostingInv, PostInv, BuiltInv, Built
  <2>2. verified \in Seq(GatedRow) /\ Kept = KeptOf(verified)
    BY <2>1, VerifiedTyped, KeptIs
  <2> QED
    BY <2>2, KeptRows
<1>2. row \in GatedRow /\ TimesIn(Kept, row) = 1
  BY <1>1, OnceEach
<1>3. CASE mode = "review"
  <2> DEFINE lines == CommentableLines(patch[fetched])
             placed == PlaceFindings(lines, Kept)
  <2>1. payload = ReviewPayload
    BY <1>3 DEF PostingInv, PostInv, BuiltInv
  <2> HIDE DEF lines
  <2>2. placed \in PlaceState(GatedRow)
        /\ TimesIn(placed.comments, row) + TimesIn(placed.skipped, row) = TimesIn(Kept, row)
    <3>1. AllPlaced(GatedRow, lines, Kept, placed)
      BY <1>1, Placed
    <3> HIDE DEF placed
    <3> QED
      BY <1>2, <3>1 DEF AllPlaced
  <2> HIDE DEF placed
  <2>3. /\ ReviewPayload.comments = placed.comments /\ ReviewPayload.skipped = placed.skipped
        /\ ReviewPayload.listed = Prefix(placed.skipped, ListLimit)
    BY <2>2 DEF ReviewPayload, PlaceState, placed, lines
  <2>4. Prefix(placed.skipped, ListLimit) = placed.skipped
    <3>1. placed.skipped \in Seq(GatedRow) /\ ListLimit \in Nat
      BY <2>2, PostAssumption DEF PlaceState
    <3>2. Len(placed.skipped) <= ListLimit
      BY <2>1, <2>3
    <3> QED
      BY <3>1, <3>2, PrefixRows
  <2> QED
    BY <1>2, <2>1, <2>2, <2>3, <2>4
<1>4. CASE mode # "review"
  <2>1. payload = SummaryPayload
    BY <1>4 DEF PostingInv, PostInv, BuiltInv
  <2>2. payload.comments = << >> /\ payload.listed = Kept
    BY <2>1 DEF SummaryPayload, NoPayload
  <2> QED
    BY <1>2, <2>2, TimesNever
<1> QED
  BY <1>3, <1>4

\* Whatever the limits on comments, no confirmed finding is posted twice and
\* none is left out while the list in the body has room.
THEOREM FindingsPlaced == PostingSpec => []EveryFindingPlaced
<1>1. PostingInv => EveryFindingPlaced
  BY PlacedHolds
<1> QED
  BY <1>1, PostingInvariance, PTL
=============================================================================
