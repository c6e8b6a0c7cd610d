------------------------- MODULE ViewMaterialization -------------------------
(***************************************************************************)
(* _materialize, system call by system call, for several calls with the    *)
(* same path: the view of a session lies beside its session root, so the   *)
(* sessions of one parent directory share it.  A call opens the parent     *)
(* without following links, writes a temporary file of its own, flushes    *)
(* it, renames it over the view, flushes the directory, reads the view     *)
(* back, and checks that the path still leads to the directory it opened.  *)
(*                                                                         *)
(* A directory is what its processes see (`now`) and the set of the states *)
(* it was in since it was flushed (`disk`); a power loss mixes those.      *)
(* Only the last component of the parent path is made, moved or replaced   *)
(* by anyone.  Abstracted data: the bytes that a call writes are a Text.   *)
(***************************************************************************)
EXTENDS Naturals

CONSTANTS
  Call,       \* the calls of _materialize
  Directory,  \* the directories that the parent path may lead to
  Text,       \* what they may write
  Missing, Blocked,  \* the parent path leads nowhere, to a link or a file
  MaxTrouble  \* bound on faults, kills, power losses and outside changes

Alien == {"absent", "file", "link", "directory"}

ASSUME ViewAssumption ==
  /\ Missing \notin Directory /\ Blocked \notin Directory /\ Missing # Blocked
  /\ Call \cap Alien = {}
  /\ MaxTrouble \in Nat

VARIABLES
  text,     \* what each call is to write
  pc,       \* the next step of each call
  dir,      \* the directory whose descriptor it holds
  file,     \* how much of its temporary file, later its view, there is
  at,       \* where the parent path leads
  existing, \* the directories made so far
  loose,    \* those that a call made: it flushes no entry of theirs
  now,      \* each directory: whose view, and whose temporary files
  disk,     \* the states of each directory since its last flush
  meddled,  \* the directories that another program changed (history)
  excused,  \* the calls whose removal of the temporary file failed or was
            \* undone (history)
  trouble

process == <<pc, dir>>
vars == <<text, process, file, at, existing, loose, now, disk, meddled, excused, trouble>>

Entry == Call \cup Alien
State == [view : Entry, temps : SUBSET Call]
Empty == [view |-> "absent", temps |-> {}]

\* The steps whose exceptions find a temporary name to remove.
Staging == {"write", "syncTemp", "recheck", "replace"}
Published == {"syncDir", "readback", "confirm"}
Opened == {"identify", "stat"} \cup Staging \cup Published \cup {"untemp"}
Running == {"open", "mkdir", "reopen"} \cup Opened
Steps == Running \cup {"returned", "raised", "dead"}

Init ==
  /\ text \in [Call -> Text]
  /\ pc = [c \in Call |-> "open"]
  /\ dir = [c \in Call |-> Missing]
  /\ file = [c \in Call |-> "none"]
  /\ at \in Directory \cup {Missing, Blocked}
  /\ existing = {at} \cap Directory /\ loose = {}
  /\ \E old \in Alien :
       now = [d \in Directory |-> IF d = at THEN [view |-> old, temps |-> {}] ELSE Empty]
  /\ disk = [d \in Directory |-> {now[d]}]
  /\ meddled = {} /\ excused = {}
  /\ trouble = 0

Goto(c, step) == pc' = [pc EXCEPT ![c] = step] /\ UNCHANGED dir

\* An exception: the except clause removes a temporary file it knows of.
Raise(c) == Goto(c, IF pc[c] \in Staging THEN "untemp" ELSE "raised")

\* Directory d changes to s, in memory.
Change(d, s) ==
  /\ now' = [now EXCEPT ![d] = s]
  /\ disk' = [disk EXCEPT ![d] = @ \cup {s}]

\* Directory d with the temporary file of c, without it, and with it renamed.
With(d, c) == [now[d] EXCEPT !.temps = @ \cup {c}]
Without(d, c) == [now[d] EXCEPT !.temps = @ \ {c}]
Renamed(d, c) == [view |-> c, temps |-> now[d].temps \ {c}]

outside == <<at, existing, loose, meddled, trouble>>

-----------------------------------------------------------------------------
(* The steps of one call *)

Open(c) ==
  /\ pc[c] = "open"
  /\ \/ /\ at \in Directory
        /\ dir' = [dir EXCEPT ![c] = at]
        /\ pc' = [pc EXCEPT ![c] = "identify"]
     \/ at = Missing /\ Goto(c, "mkdir")
     \/ at = Blocked /\ Raise(c)
  /\ UNCHANGED <<file, now, disk, excused, outside>>

\* A parent that somebody else made meanwhile is an error.
MakeParent(c) ==
  /\ pc[c] = "mkdir"
  /\ \/ /\ at = Missing
        /\ at' \in Directory \ existing
        /\ existing' = existing \cup {at'} /\ loose' = loose \cup {at'}
        /\ Goto(c, "reopen")
     \/ at # Missing /\ Raise(c) /\ UNCHANGED <<at, existing, loose>>
  /\ UNCHANGED <<file, now, disk, meddled, excused, trouble>>

Reopen(c) ==
  /\ pc[c] = "reopen"
  /\ IF at \in Directory
     THEN /\ dir' = [dir EXCEPT ![c] = at]
          /\ pc' = [pc EXCEPT ![c] = "identify"]
     ELSE Raise(c)
  /\ UNCHANGED <<file, now, disk, excused, outside>>

\* _parent_path_matches_descriptor
Matches(c) == at = dir[c]

Identify(c) ==
  /\ pc[c] = "identify"
  /\ IF Matches(c) THEN Goto(c, "stat") ELSE Raise(c)
  /\ UNCHANGED <<file, now, disk, excused, outside>>

\* The destination may be absent or a regular file.
StatView(c) ==
  /\ pc[c] = "stat"
  /\ IF now[dir[c]].view \in {"link", "directory"} THEN Raise(c) ELSE Goto(c, "write")
  /\ UNCHANGED <<file, now, disk, excused, outside>>

WriteTemp(c) ==
  /\ pc[c] = "write"
  /\ Change(dir[c], With(dir[c], c))
  /\ file' = [file EXCEPT ![c] = "whole"]
  /\ Goto(c, "syncTemp")
  /\ UNCHANGED <<excused, outside>>

\* Bug: the temporary file is not flushed.
Bug_SyncTempNothing(c) ==
  /\ pc[c] = "syncTemp"
  /\ Goto(c, "recheck")
  /\ UNCHANGED <<file, now, disk, excused, outside>>

SyncTemp(c) ==
  /\ pc[c] = "syncTemp"
  /\ file' = [file EXCEPT ![c] = "flushed"]
  /\ Goto(c, "recheck")
  /\ UNCHANGED <<now, disk, excused, outside>>

\* Bug: the temporary name is forgotten before the file is renamed.
Bug_RecheckForgetting(c) ==
  /\ pc[c] = "recheck"
  /\ IF Matches(c) THEN Goto(c, "replace") ELSE Goto(c, "raised")
  /\ UNCHANGED <<file, now, disk, excused, outside>>

Recheck(c) ==
  /\ pc[c] = "recheck"
  /\ IF Matches(c) THEN Goto(c, "replace") ELSE Raise(c)
  /\ UNCHANGED <<file, now, disk, excused, outside>>

\* Bug: the rename refuses to replace a view, as that of a session root does.
Bug_ReplaceExclusive(c) ==
  /\ pc[c] = "replace"
  /\ IF now[dir[c]].view # "absent" THEN Raise(c) /\ UNCHANGED <<now, disk>>
     ELSE Change(dir[c], Renamed(dir[c], c)) /\ Goto(c, "syncDir")
  /\ UNCHANGED <<file, excused, outside>>

\* A rename replaces a file or a link, but not a directory.
Replace(c) ==
  /\ pc[c] = "replace"
  /\ IF now[dir[c]].view = "directory" THEN Raise(c) /\ UNCHANGED <<now, disk>>
     ELSE Change(dir[c], Renamed(dir[c], c)) /\ Goto(c, "syncDir")
  /\ UNCHANGED <<file, excused, outside>>

\* Bug: the directory is not flushed.
Bug_SyncDirNothing(c) ==
  /\ pc[c] = "syncDir"
  /\ Goto(c, "readback")
  /\ UNCHANGED <<file, now, disk, excused, outside>>

SyncDir(c) ==
  /\ pc[c] = "syncDir"
  /\ disk' = [disk EXCEPT ![dir[c]] = {now[dir[c]]}]
  /\ Goto(c, "readback")
  /\ UNCHANGED <<file, now, excused, outside>>

\* The view must be a whole file with the bytes of this call, whoever wrote it.
Readback(c) ==
  /\ pc[c] = "readback"
  /\ LET v == now[dir[c]].view IN
     IF v \in Call /\ text[v] = text[c] /\ file[v] # "partial"
     THEN Goto(c, "confirm") ELSE Raise(c)
  /\ UNCHANGED <<file, now, disk, excused, outside>>

Confirm(c) ==
  /\ pc[c] = "confirm"
  /\ IF Matches(c) THEN Goto(c, "returned") ELSE Raise(c)
  /\ UNCHANGED <<file, now, disk, excused, outside>>

\* The unlink of the except clause; a name that is not there is no matter.
Untemp(c) ==
  /\ pc[c] = "untemp"
  /\ Change(dir[c], Without(dir[c], c))
  /\ Goto(c, "raised")
  /\ UNCHANGED <<file, excused, outside>>

Step(c) ==
  \/ Open(c) \/ MakeParent(c) \/ Reopen(c) \/ Identify(c) \/ StatView(c)
  \/ WriteTemp(c) \/ SyncTemp(c) \/ Recheck(c) \/ Replace(c) \/ SyncDir(c)
  \/ Readback(c) \/ Confirm(c) \/ Untemp(c)

-----------------------------------------------------------------------------
(* What can go wrong *)

Trouble == trouble < MaxTrouble /\ trouble' = trouble + 1

\* A system call fails.  Part of the temporary file may be there, and the
\* failure of the unlink is ignored.
Fault(c) ==
  /\ Trouble
  /\ pc[c] \in Running
  /\ Raise(c)
  /\ \/ UNCHANGED <<file, now, disk>>
     \/ /\ pc[c] = "write"
        /\ Change(dir[c], With(dir[c], c))
        /\ file' = [file EXCEPT ![c] = "partial"]
  /\ excused' = IF pc[c] = "untemp" THEN excused \cup {c} ELSE excused
  /\ UNCHANGED <<at, existing, loose, meddled>>

\* The process is killed, or interrupted: the except clause does not catch a
\* KeyboardInterrupt.
Kill(c) ==
  /\ Trouble
  /\ pc[c] \in Running
  /\ Goto(c, "dead")
  /\ UNCHANGED <<file, at, existing, loose, now, disk, meddled, excused>>

\* Of what was not flushed any part may be there.  A rename is not split.
Survivor(d, s) ==
  /\ s.view \in {t.view : t \in disk[d]}
  /\ s.temps \subseteq UNION {t.temps : t \in disk[d]}
  /\ \A c \in Call : (\A t \in disk[d] : c \in t.temps) => c \in s.temps
  /\ s.view \notin s.temps

\* Every process ends, and a directory that a call made may be gone.
PowerLoss ==
  /\ Trouble
  /\ pc' = [c \in Call |-> IF pc[c] \in Running THEN "dead" ELSE pc[c]]
  /\ \E gone \in SUBSET loose :
       /\ now' \in [Directory -> State]
       /\ \A d \in Directory :
            IF d \in gone THEN now'[d] = Empty ELSE Survivor(d, now'[d])
       /\ existing' = existing \ gone
       /\ meddled' = meddled \ gone
       /\ at' = IF at \in gone THEN Missing ELSE at
  /\ disk' = [d \in Directory |-> {now'[d]}]
  /\ \E torn \in SUBSET {c \in Call : file[c] = "whole"} :
       file' = [c \in Call |-> IF c \in torn THEN "partial" ELSE file[c]]
  /\ excused' = excused \cup {c \in Call : pc[c] = "raised"}
  /\ UNCHANGED <<dir, loose>>

\* Another program moves the parent directory, or puts another one, a link or
\* nothing in its place.
MoveParent ==
  /\ Trouble
  /\ at' \in (Directory \cup {Missing, Blocked}) \ {at}
  /\ existing' = existing \cup ({at'} \cap Directory)
  /\ UNCHANGED <<process, file, loose, now, disk, meddled, excused>>

\* Another program changes the view.
ChangeView(d) ==
  /\ Trouble
  /\ d \in existing
  /\ \E e \in Alien : Change(d, [now[d] EXCEPT !.view = e])
  /\ meddled' = meddled \cup {d}
  /\ UNCHANGED <<process, file, at, existing, loose, excused>>

Next ==
  /\ \/ \E c \in Call : Step(c) \/ Fault(c) \/ Kill(c)
     \/ \E d \in Directory : ChangeView(d)
     \/ PowerLoss \/ MoveParent
  /\ UNCHANGED text

Spec == Init /\ [][Next]_vars

-----------------------------------------------------------------------------
(* Properties *)

\* The values of the variables; what a directory is now may be on disk; a call
\* that has opened its parent holds an existing directory.
Shape ==
  /\ text \in [Call -> Text]
  /\ pc \in [Call -> Steps]
  /\ dir \in [Call -> Directory \cup {Missing}]
  /\ file \in [Call -> {"none", "partial", "whole", "flushed"}]
  /\ at \in Directory \cup {Missing, Blocked}
  /\ existing \subseteq Directory /\ at \in existing \cup {Missing, Blocked}
  /\ now \in [Directory -> State]
  /\ disk \in [Directory -> SUBSET State]
  /\ \A d \in Directory : now[d] \in disk[d]
  /\ meddled \subseteq existing /\ loose \subseteq Directory /\ excused \subseteq Call
  /\ \A c \in Call : pc[c] \in Opened => dir[c] \in existing
  /\ trouble \in 0 .. MaxTrouble

\* A temporary file is in the directory that its call opened.
Homes ==
  \A d \in Directory : \A s \in disk[d] : \A c \in s.temps : dir[c] = d

\* Every variable has its shape, and every temporary file its place.
TypeOK == Shape /\ Homes

\* Nobody ever finds part of a view: a call's file is whole, and flushed, when
\* it appears under the view's name, and so it is after a power loss.
NeverTorn ==
  \A d \in Directory : now[d].view \in Call => file[now[d].view] \in {"whole", "flushed"}

\* Once a call has returned the path, its directory holds the view of some
\* call, its own or a later one, and no power loss brings back what was there
\* before; unless another program changed it, or a call had to make the
\* directory, whose own entry is not flushed.
ReturnedKept ==
  \A c \in Call :
    pc[c] = "returned" /\ dir[c] \notin meddled \cup loose =>
      \A s \in disk[dir[c]] : s.view \in Call

\* A call that has ended by itself leaves no temporary file, wherever the
\* parent was moved meanwhile, unless the unlink failed or was undone.
NoLitter ==
  \A d \in Directory : \A c \in now[d].temps :
    pc[c] \in Running \cup {"dead"} \/ c \in excused

\* Without trouble the calls may fail each other by replacing one another's
\* view before it was read back, or by making the parent, but never all of
\* them: when they have ended, the call whose view is there has returned.
LastWriterReturns ==
  (/\ trouble = 0 /\ \A c \in Call : pc[c] \in {"returned", "raised"}
   /\ at \in Directory /\ now[at].view \notin {"link", "directory"}) =>
    (Call # {} => now[at].view \in Call /\ pc[now[at].view] = "returned")
=============================================================================
