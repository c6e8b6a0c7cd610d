---------------------------- MODULE SessionCreate ----------------------------
(***************************************************************************)
(* ArtifactStore.create, system call by system call, for several callers   *)
(* of one session root.  A caller takes the lock file, fills a staging     *)
(* directory of its own, flushes it, renames it to the session root        *)
(* without replacing anything, flushes the parent and drops the lock.      *)
(*                                                                         *)
(* The file system is kept twice: as the processes see it (lock, tree,     *)
(* final) and as far as it was flushed (keptLock, sealed, keptFinal).  A   *)
(* power loss ends every process and leaves something in between.          *)
(*                                                                         *)
(* Abstracted data: the files of a staging directory are "absent",         *)
(* "partial" or "whole".  Making it, filling it and removing it take the   *)
(* code several calls each; what can be left behind is the same.           *)
(***************************************************************************)
EXTENDS Naturals, FiniteSets

CONSTANTS
  Creator,   \* the calls of create
  Foreign,   \* any other program that makes the path of the session root
  None,
  MaxTrouble \* bound on faults, interrupts, crashes and power losses

ASSUME SessionCreateAssumption ==
  /\ None \notin Creator \cup {Foreign}
  /\ Foreign \notin Creator
  /\ MaxTrouble \in Nat

VARIABLES
  pc,         \* the next step of each call
  result,     \* "none", or how the call ends: "ok", or "error" as soon as
              \* an exception is under way
  lock,       \* whose lock file is there
  tree,       \* the files each creator has made
  final,      \* whose directory is at the session root
  keptLock, keptFinal,  \* lock and final as far as the parent was flushed
  sealed,     \* the creators whose staging directory was flushed
  anchored,   \* the parent's own entry is durable: create makes missing
              \* parents and flushes none of their entries
  messy,      \* creators that could not clean up behind themselves
  trouble

vars == <<pc, result, lock, tree, final, keptLock, keptFinal, sealed, anchored,
          messy, trouble>>
process == <<pc, result>>
visible == <<lock, tree, final>>
durable == <<keptLock, keptFinal, sealed, anchored>>

Tree == {"absent", "partial", "whole"}

\* The steps guarded by the try statement, up to the exception handler.
Guarded == {"syncLock", "recheck", "mkdir", "fill", "seal", "lastCheck",
            "rename", "syncParent"}
\* The steps at which the call holds the lock file.
Critical == Guarded \cup {"close", "cleanup", "unlock"}
Steps == Critical \cup {"check", "lock", "syncUnlock", "verify", "done", "dead"}

Init ==
  /\ pc = [c \in Creator |-> "check"]
  /\ result = [c \in Creator |-> "none"]
  /\ lock = None /\ keptLock = None
  /\ tree = [c \in Creator |-> "absent"]
  /\ final = None /\ keptFinal = None
  /\ sealed = {}
  /\ anchored \in BOOLEAN
  /\ messy = {}
  /\ trouble = 0

Goto(c, step) == pc' = [pc EXCEPT ![c] = step] /\ UNCHANGED result

\* An exception, on its way to the given step.
Raise(c, step) ==
  /\ pc' = [pc EXCEPT ![c] = step]
  /\ result' = [result EXCEPT ![c] = "error"]

\* The flush of the parent directory.
FlushParent == keptLock' = lock /\ keptFinal' = final /\ UNCHANGED <<sealed, anchored>>

-----------------------------------------------------------------------------
(* The steps of one call *)

Check(c) ==
  /\ pc[c] = "check"
  /\ IF final = None THEN Goto(c, "lock") ELSE Raise(c, "done")
  /\ UNCHANGED <<visible, durable, messy>>

\* Bug: the lock file is opened without O_EXCL.
Bug_TakeAnyLock(c) ==
  /\ pc[c] = "lock"
  /\ lock' = c /\ Goto(c, "close")
  /\ UNCHANGED <<tree, final, durable, messy>>

TakeLock(c) ==
  /\ pc[c] = "lock"
  /\ IF lock = None THEN lock' = c /\ Goto(c, "close")
                    ELSE UNCHANGED lock /\ Raise(c, "done")
  /\ UNCHANGED <<tree, final, durable, messy>>

\* The lock's descriptor is closed before the try statement is entered.
CloseLock(c) ==
  /\ pc[c] = "close"
  /\ Goto(c, "syncLock")
  /\ UNCHANGED <<visible, durable, messy>>

SyncLock(c) ==
  /\ pc[c] = "syncLock"
  /\ Goto(c, "recheck")
  /\ FlushParent
  /\ UNCHANGED <<visible, messy>>

\* Bug: the lock file is taken for the session.
Bug_RecheckRefusing(c) ==
  /\ pc[c] = "recheck"
  /\ IF lock = None THEN Goto(c, "mkdir") ELSE Raise(c, "cleanup")
  /\ UNCHANGED <<visible, durable, messy>>

Recheck(c) ==
  /\ pc[c] = "recheck"
  /\ IF final = None THEN Goto(c, "mkdir") ELSE Raise(c, "cleanup")
  /\ UNCHANGED <<visible, durable, messy>>

MakeStaging(c) ==
  /\ pc[c] = "mkdir"
  /\ tree' = [tree EXCEPT ![c] = "partial"]
  /\ Goto(c, "fill")
  /\ UNCHANGED <<lock, final, durable, messy>>

\* The artifact directory, the plan and the genesis event, each file flushed.
Fill(c) ==
  /\ pc[c] = "fill"
  /\ tree' = [tree EXCEPT ![c] = "whole"]
  /\ Goto(c, "seal")
  /\ UNCHANGED <<lock, final, durable, messy>>

\* Bug: the entries of the staging directory are not flushed.
Bug_SealNothing(c) ==
  /\ pc[c] = "seal"
  /\ Goto(c, "lastCheck")
  /\ UNCHANGED <<visible, durable, messy>>

Seal(c) ==
  /\ pc[c] = "seal"
  /\ sealed' = sealed \cup {c}
  /\ Goto(c, "lastCheck")
  /\ UNCHANGED <<visible, keptLock, keptFinal, anchored, messy>>

LastCheck(c) ==
  /\ pc[c] = "lastCheck"
  /\ IF final = None THEN Goto(c, "rename") ELSE Raise(c, "cleanup")
  /\ UNCHANGED <<visible, durable, messy>>

\* Bug: a plain rename, which replaces an empty directory at the destination.
Bug_RenameOver(c) ==
  /\ pc[c] = "rename"
  /\ final' = c /\ Goto(c, "syncParent")
  /\ UNCHANGED <<lock, tree, durable, messy>>

\* _rename_directory_exclusive.
Rename(c) ==
  /\ pc[c] = "rename"
  /\ IF final = None THEN final' = c /\ Goto(c, "syncParent")
                     ELSE UNCHANGED final /\ Raise(c, "cleanup")
  /\ UNCHANGED <<lock, tree, durable, messy>>

SyncParent(c) ==
  /\ pc[c] = "syncParent"
  /\ Goto(c, "unlock")
  /\ FlushParent
  /\ UNCHANGED <<visible, messy>>

\* Bug: the staging directory is left where it is.
Bug_CleanUpNothing(c) ==
  /\ pc[c] = "cleanup"
  /\ Goto(c, "unlock")
  /\ UNCHANGED <<visible, durable, messy>>

\* The exception handler removes a staging directory that was not renamed.
CleanUp(c) ==
  /\ pc[c] = "cleanup"
  /\ IF final # c /\ tree[c] # "absent"
     THEN /\ tree' = [tree EXCEPT ![c] = IF @ = "whole" THEN "partial" ELSE "absent"]
          /\ UNCHANGED process
     ELSE /\ Goto(c, "unlock")
          /\ UNCHANGED tree
  /\ sealed' = IF final # c THEN sealed \ {c} ELSE sealed
  /\ UNCHANGED <<lock, final, keptLock, keptFinal, anchored, messy>>

Unlock(c) ==
  /\ pc[c] = "unlock"
  /\ lock' = None
  /\ Goto(c, "syncUnlock")
  /\ UNCHANGED <<tree, final, durable, messy>>

SyncUnlock(c) ==
  /\ pc[c] = "syncUnlock"
  /\ Goto(c, IF result[c] = "error" THEN "done" ELSE "verify")
  /\ FlushParent
  /\ UNCHANGED <<visible, messy>>

Verify(c) ==
  /\ pc[c] = "verify"
  /\ pc' = [pc EXCEPT ![c] = "done"]
  /\ result' = [result EXCEPT ![c] =
                  IF final = c /\ tree[c] = "whole" THEN "ok" ELSE "error"]
  /\ UNCHANGED <<visible, durable, messy>>

Step(c) ==
  /\ \/ Check(c) \/ TakeLock(c) \/ CloseLock(c) \/ SyncLock(c) \/ Recheck(c)
     \/ MakeStaging(c) \/ Fill(c) \/ Seal(c) \/ LastCheck(c) \/ Rename(c)
     \/ SyncParent(c) \/ CleanUp(c) \/ Unlock(c) \/ SyncUnlock(c) \/ Verify(c)
  /\ UNCHANGED trouble

-----------------------------------------------------------------------------
(* What can go wrong *)

Trouble == trouble < MaxTrouble /\ trouble' = trouble + 1

\* A system call of the step fails.  Before the try statement there is no
\* handler; within it the handler cleans up; the handler's own failure, and
\* that of the finally clause, leave things behind.
Fault(c) ==
  /\ Trouble
  /\ \/ /\ pc[c] \in {"check", "lock", "close", "unlock", "syncUnlock", "verify"}
        /\ Raise(c, "done")
        /\ messy' = IF pc[c] \in {"close", "unlock", "syncUnlock"}
                    THEN messy \cup {c} ELSE messy
     \/ pc[c] \in Guarded /\ Raise(c, "cleanup") /\ UNCHANGED messy
     \/ pc[c] = "cleanup" /\ Raise(c, "unlock") /\ messy' = messy \cup {c}
  /\ UNCHANGED <<visible, durable>>

\* KeyboardInterrupt is no Exception: the handler is skipped, the finally
\* clause is not, unless it is the one interrupted.
Interrupt(c) ==
  /\ Trouble
  /\ \/ /\ pc[c] \in {"check", "lock", "close", "unlock", "syncUnlock", "verify"}
        /\ Raise(c, "done")
     \/ pc[c] \in Guarded \cup {"cleanup"} /\ Raise(c, "unlock")
  /\ messy' = messy \cup {c}
  /\ UNCHANGED <<visible, durable>>

\* The process is killed.
Crash(c) ==
  /\ Trouble
  /\ pc[c] \notin {"check", "done", "dead"}
  /\ pc' = [pc EXCEPT ![c] = "dead"]
  /\ UNCHANGED <<result, visible, durable, messy>>

\* What may be left of the files of c.
Remains(c) ==
  {t \in Tree : \/ t = tree[c]
                \/ c \notin sealed /\ (t = "absent" \/ tree[c] = "whole")}

\* Every running process ends.  What was flushed is there afterwards, what was
\* not may be; without a durable parent everything may be gone.
PowerLoss ==
  /\ Trouble
  /\ pc' = [c \in Creator |-> IF pc[c] \in {"check", "done"} THEN pc[c] ELSE "dead"]
  /\ \/ /\ lock' \in {lock, keptLock} /\ final' \in {final, keptFinal}
        /\ \E left \in [Creator -> Tree] :
             /\ \A c \in Creator : left[c] \in Remains(c)
             /\ tree' = left
        /\ keptLock' = lock' /\ keptFinal' = final'
        /\ sealed' = sealed
     \/ /\ ~anchored
        /\ lock' = None /\ final' = None /\ keptLock' = None /\ keptFinal' = None
        /\ tree' = [c \in Creator |-> "absent"]
        /\ sealed' = {}
  /\ UNCHANGED <<result, anchored, messy>>

\* Something else makes the path of the session root.
Intrude ==
  /\ final = None
  /\ final' = Foreign
  /\ UNCHANGED <<process, lock, tree, durable, messy, trouble>>

Next ==
  \/ \E c \in Creator : Step(c) \/ Fault(c) \/ Interrupt(c) \/ Crash(c)
  \/ PowerLoss
  \/ Intrude

Spec == Init /\ [][Next]_vars

\* A process that runs is scheduled again and again.
FairSpec == Spec /\ \A c \in Creator : WF_vars(Step(c))

-----------------------------------------------------------------------------
(* Properties *)

\* Every variable has its shape, and a call is on its way to an error exactly
\* where its step says so.
TypeOK ==
  /\ pc \in [Creator -> Steps]
  /\ result \in [Creator -> {"none", "ok", "error"}]
  /\ lock \in Creator \cup {None} /\ keptLock \in Creator \cup {None}
  /\ tree \in [Creator -> Tree]
  /\ final \in Creator \cup {Foreign, None}
  /\ keptFinal \in Creator \cup {Foreign, None}
  /\ sealed \subseteq Creator /\ messy \subseteq Creator
  /\ anchored \in BOOLEAN
  /\ trouble \in 0 .. MaxTrouble
  /\ \A c \in Creator :
       /\ pc[c] = "done" => result[c] # "none"
       /\ pc[c] = "cleanup" => result[c] = "error"
       /\ result[c] = "ok" => pc[c] = "done"
       /\ result[c] = "error" =>
            pc[c] \in {"cleanup", "unlock", "syncUnlock", "done", "dead"}

\* Two calls are never between taking the lock and dropping it, although a
\* call that was killed or interrupted leaves its lock behind and a power loss
\* may bring a dropped lock back.
Exclusive ==
  \A c, d \in Creator : pc[c] \in Critical /\ pc[d] \in Critical => c = d

\* Whoever sees a session root that create made sees all of it: no crash,
\* interrupt or power loss exposes a root without its plan or its ledger.
PublishedWhole == final \in Creator => tree[final] = "whole"

\* A call that returned or raised leaves neither its lock nor its staging
\* directory, save when it was interrupted or its clean-up itself failed.
NoLitter ==
  \A c \in Creator : pc[c] = "done" /\ c \notin messy =>
    /\ lock # c
    /\ tree[c] = "absent" \/ final = c

\* The session root appears once, is never replaced, and stays once its
\* creator was told, over crashes and power losses.
Root == INSTANCE SessionRoot WITH
  root <- final,
  acked <- {c \in Creator : result[c] = "ok"}
ImplementsSessionRoot == Root!Spec

\* Without trouble the race has a winner: some call returns a session, unless
\* another program took the path.
SomeoneCreates ==
  <>(\/ \E c \in Creator : result[c] = "ok"
     \/ trouble > 0
     \/ final = Foreign)
=============================================================================
