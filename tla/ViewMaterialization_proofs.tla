--------------------- MODULE ViewMaterialization_proofs ---------------------
(***************************************************************************)
(* What _materialize promises, proved for any number of calls, texts and   *)
(* directories and any amount of trouble.  The inductive invariant says    *)
(* where each call can stand with its temporary file and with the view,    *)
(* not only as a directory is, but in every state of it that may be on     *)
(* disk: that is what a power loss brings to light.                        *)
(***************************************************************************)
EXTENDS ViewMaterialization, TLAPS

Before == {"open", "mkdir", "reopen", "identify", "stat", "write"}
Settled == {"readback", "confirm", "returned"}
Told == Published \cup {"returned"}

\* A file that may be under the view's name was flushed.
Whole ==
  /\ \A c \in Call : pc[c] \in {"recheck", "replace"} => file[c] = "flushed"
  /\ \A d \in Directory : \A s \in disk[d] : s.view \in Call =>
       file[s.view] = "flushed" /\ pc[s.view] \notin Before \cup {"syncTemp"}

\* A published view is replaced by views only, and once the directory was
\* flushed nothing older can come back.
Lasting ==
  \A c \in Call :
    /\ pc[c] \in Told => dir[c] \in Directory
    /\ dir[c] \notin meddled \cup loose =>
         /\ pc[c] \in Told => now[dir[c]].view \in Call
         /\ pc[c] \in Settled => \A s \in disk[dir[c]] : s.view \in Call

\* Where the owner of a temporary file can be.
Tidy ==
  /\ \A d \in Directory : \A s \in disk[d] : \A c \in s.temps :
       pc[c] \notin Before \cup Settled
  /\ \A d \in Directory : \A c \in now[d].temps :
       pc[c] \in {"syncTemp", "recheck", "replace", "untemp", "dead"} \/ c \in excused
  /\ \A c \in excused : pc[c] = "raised"

\* Without trouble the parent path keeps leading to the directory that every
\* call opened; the owner of the view is on its way to return; and as long as
\* there is no view, a call that failed left somebody who will write one.
Alive == {"reopen", "identify", "stat"} \cup Staging
Inviting == at \in Directory /\ now[at].view \in {"absent", "file"}
Calm ==
  trouble = 0 =>
    /\ \A c \in Call : pc[c] \in Opened \cup {"returned"} => dir[c] = at
    /\ \A c \in Call : pc[c] \in Opened \cup {"reopen", "returned"} => at \in Directory
    /\ \A c \in Call : pc[c] \in Told => now[dir[c]].view \in Call
    /\ \A d \in Directory : now[d].view \in Call =>
         pc[now[d].view] \in Told /\ dir[now[d].view] = d
    /\ Inviting /\ (\E c \in Call : pc[c] \in {"mkdir", "untemp", "raised"}) =>
         \E c \in Call : pc[c] \in Alive

Inv == TypeOK /\ Whole /\ Lasting /\ Tidy /\ Calm

\* The invariant holds at the beginning.
LEMMA InitInv == Init => Inv
  BY ViewAssumption
  DEF Init, Inv, TypeOK, Shape, Homes, Whole, Lasting, Tidy, Calm,
      Steps, Running, Opened, Staging, Published, Before, Settled,
      Told, State, Entry, Empty, Alien

\* Every step of a call preserves the shape of the variables,
LEMMA StepShape ==
  ASSUME TypeOK, UNCHANGED text, NEW c \in Call, Step(c)
  PROVE  Shape'
<1> USE ViewAssumption
    DEF TypeOK, Shape, Homes, Goto, Raise, process, outside, Steps,
      Running, Opened, Staging, Published
<1>0. \A d \in Directory : {With(d, c), Without(d, c), Renamed(d, c)} \subseteq State
  BY DEF With, Without, Renamed, State, Entry
<1>1. CASE Open(c)
  BY <1>1 DEF Open
<1>2. CASE MakeParent(c)
  BY <1>2 DEF MakeParent
<1>3. CASE Reopen(c)
  BY <1>3 DEF Reopen
<1>4. CASE Identify(c)
  BY <1>4 DEF Identify, Matches
<1>5. CASE StatView(c)
  BY <1>5 DEF StatView
<1>6. CASE WriteTemp(c)
  BY <1>6, <1>0 DEF WriteTemp, Change
<1>7. CASE SyncTemp(c)
  BY <1>7 DEF SyncTemp
<1>8. CASE Recheck(c)
  BY <1>8 DEF Recheck, Matches
<1>9. CASE Replace(c)
  BY <1>9, <1>0 DEF Replace, Change
<1>10. CASE SyncDir(c)
  BY <1>10 DEF SyncDir
<1>11. CASE Readback(c)
  BY <1>11 DEF Readback
<1>12. CASE Confirm(c)
  BY <1>12 DEF Confirm, Matches
<1>13. CASE Untemp(c)
  BY <1>13, <1>0 DEF Untemp, Change
<1> QED
  BY <1>1, <1>2, <1>3, <1>4, <1>5, <1>6, <1>7, <1>8, <1>9, <1>10, <1>11, <1>12, <1>13 DEF Step

\* and keeps each temporary file in the directory its call holds;
LEMMA StepHomes ==
  ASSUME Inv, NEW c \in Call, Step(c)
  PROVE  Homes'
<1> USE ViewAssumption
    DEF Inv, TypeOK, Shape, Homes, Tidy, Before, Settled, State, Goto,
      Raise, process, outside, Steps, Running, Opened, Staging,
      Published
<1>1. CASE Open(c)
  BY <1>1 DEF Open
<1>2. CASE MakeParent(c)
  BY <1>2 DEF MakeParent
<1>3. CASE Reopen(c)
  BY <1>3 DEF Reopen
<1>4. CASE Identify(c)
  BY <1>4 DEF Identify, Matches
<1>5. CASE StatView(c)
  BY <1>5 DEF StatView
<1>6. CASE WriteTemp(c)
  BY <1>6 DEF WriteTemp, Change, With
<1>7. CASE SyncTemp(c)
  BY <1>7 DEF SyncTemp
<1>8. CASE Recheck(c)
  BY <1>8 DEF Recheck, Matches
<1>9. CASE Replace(c)
  BY <1>9 DEF Replace, Change, Renamed
<1>10. CASE SyncDir(c)
  BY <1>10 DEF SyncDir
<1>11. CASE Readback(c)
  BY <1>11 DEF Readback
<1>12. CASE Confirm(c)
  BY <1>12 DEF Confirm, Matches
<1>13. CASE Untemp(c)
  BY <1>13 DEF Untemp, Change, Without
<1> QED
  BY <1>1, <1>2, <1>3, <1>4, <1>5, <1>6, <1>7, <1>8, <1>9, <1>10, <1>11, <1>12, <1>13 DEF Step

\* a file is flushed before it is under the view's name;
LEMMA StepWhole ==
  ASSUME Inv, NEW c \in Call, Step(c)
  PROVE  Whole'
<1> USE ViewAssumption
    DEF Inv, TypeOK, Shape, Homes, Whole, Before, State, Goto, Raise,
      process, outside, Steps, Running, Opened, Staging, Published
<1>1. CASE Open(c)
  BY <1>1 DEF Open
<1>2. CASE MakeParent(c)
  BY <1>2 DEF MakeParent
<1>3. CASE Reopen(c)
  BY <1>3 DEF Reopen
<1>4. CASE Identify(c)
  BY <1>4 DEF Identify, Matches
<1>5. CASE StatView(c)
  BY <1>5 DEF StatView
<1>6. CASE WriteTemp(c)
  BY <1>6 DEF WriteTemp, Change, With
<1>7. CASE SyncTemp(c)
  BY <1>7 DEF SyncTemp
<1>8. CASE Recheck(c)
  BY <1>8 DEF Recheck, Matches
<1>9. CASE Replace(c)
  BY <1>9 DEF Replace, Change, Renamed
<1>10. CASE SyncDir(c)
  BY <1>10 DEF SyncDir
<1>11. CASE Readback(c)
  BY <1>11 DEF Readback
<1>12. CASE Confirm(c)
  BY <1>12 DEF Confirm, Matches
<1>13. CASE Untemp(c)
  BY <1>13 DEF Untemp, Change, Without
<1> QED
  BY <1>1, <1>2, <1>3, <1>4, <1>5, <1>6, <1>7, <1>8, <1>9, <1>10, <1>11, <1>12, <1>13 DEF Step

\* A rename puts a view in the place of a view, and a flush leaves nothing older;
LEMMA StepLasting ==
  ASSUME Inv, NEW c \in Call, Step(c)
  PROVE  Lasting'
<1> USE ViewAssumption
    DEF Inv, TypeOK, Shape, Homes, Lasting, Settled, Told, State, Goto,
      Raise, process, outside, Steps, Running, Opened, Staging,
      Published
<1>1. CASE Open(c)
  BY <1>1 DEF Open
<1>2. CASE MakeParent(c)
  BY <1>2 DEF MakeParent
<1>3. CASE Reopen(c)
  BY <1>3 DEF Reopen
<1>4. CASE Identify(c)
  BY <1>4 DEF Identify, Matches
<1>5. CASE StatView(c)
  BY <1>5 DEF StatView
<1>6. CASE WriteTemp(c)
  BY <1>6 DEF WriteTemp, Change, With
<1>7. CASE SyncTemp(c)
  BY <1>7 DEF SyncTemp
<1>8. CASE Recheck(c)
  BY <1>8 DEF Recheck, Matches
<1>9. CASE Replace(c)
  BY <1>9 DEF Replace, Change, Renamed
<1>10. CASE SyncDir(c)
  BY <1>10 DEF SyncDir
<1>11. CASE Readback(c)
  BY <1>11 DEF Readback
<1>12. CASE Confirm(c)
  BY <1>12 DEF Confirm, Matches
<1>13. CASE Untemp(c)
  BY <1>13 DEF Untemp, Change, Without
<1> QED
  BY <1>1, <1>2, <1>3, <1>4, <1>5, <1>6, <1>7, <1>8, <1>9, <1>10, <1>11, <1>12, <1>13 DEF Step

\* and whoever renames or removes its temporary file has none in the directory.
LEMMA StepTidy ==
  ASSUME Inv, NEW c \in Call, Step(c)
  PROVE  Tidy'
<1> USE ViewAssumption
    DEF Inv, TypeOK, Shape, Homes, Tidy, Before, Settled, State, Goto,
      Raise, process, outside, Steps, Running, Opened, Staging,
      Published
<1>1. CASE Open(c)
  BY <1>1 DEF Open
<1>2. CASE MakeParent(c)
  BY <1>2 DEF MakeParent
<1>3. CASE Reopen(c)
  BY <1>3 DEF Reopen
<1>4. CASE Identify(c)
  BY <1>4 DEF Identify, Matches
<1>5. CASE StatView(c)
  BY <1>5 DEF StatView
<1>6. CASE WriteTemp(c)
  BY <1>6 DEF WriteTemp, Change, With
<1>7. CASE SyncTemp(c)
  BY <1>7 DEF SyncTemp
<1>8. CASE Recheck(c)
  <2>1. pc' = [pc EXCEPT ![c] = IF Matches(c) THEN "replace" ELSE "untemp"]
    BY <1>8 DEF Recheck
  <2> QED
    BY <1>8, <2>1 DEF Recheck
<1>9. CASE Replace(c)
  <2>1. CASE now[dir[c]].view = "directory"
    BY <1>9, <2>1 DEF Replace
  <2>2. CASE now[dir[c]].view # "directory"
    <3>1. /\ dir[c] \in Directory /\ pc' = [pc EXCEPT ![c] = "syncDir"]
          /\ now' = [now EXCEPT ![dir[c]] = Renamed(dir[c], c)]
          /\ disk' = [disk EXCEPT ![dir[c]] = @ \cup {Renamed(dir[c], c)}]
          /\ UNCHANGED excused
      BY <1>9, <2>2 DEF Replace, Change
    <3>2. \A d \in Directory : \A b \in now'[d].temps : b # c /\ b \in now[d].temps
      BY <3>1 DEF Renamed
    <3>3. \A d \in Directory : \A s \in disk'[d] : \A b \in s.temps :
            \E t \in disk[d] : b \in t.temps
      BY <3>1 DEF Renamed
    <3> QED
      BY <1>9, <3>1, <3>2, <3>3 DEF Replace
  <2> QED
    BY <2>1, <2>2
<1>10. CASE SyncDir(c)
  BY <1>10 DEF SyncDir
<1>11. CASE Readback(c)
  BY <1>11 DEF Readback
<1>12. CASE Confirm(c)
  BY <1>12 DEF Confirm, Matches
<1>13. CASE Untemp(c)
  BY <1>13 DEF Untemp, Change, Without
<1> QED
  BY <1>1, <1>2, <1>3, <1>4, <1>5, <1>6, <1>7, <1>8, <1>9, <1>10, <1>11, <1>12, <1>13 DEF Step

\* Without trouble a call fails only where another one has written the view
\* or will.
LEMMA StepCalm ==
  ASSUME Inv, NEW c \in Call, Step(c)
  PROVE  Calm'
<1> USE ViewAssumption
    DEF Inv, TypeOK, Shape, Homes, Calm, Inviting, Alive, Told, Goto,
      Raise, process, outside, Steps, Running, Opened, Staging,
      Published, State, Entry, Alien
<1>1. CASE Open(c)
  BY <1>1 DEF Open
<1>2. CASE MakeParent(c)
  BY <1>2 DEF MakeParent
<1>3. CASE Reopen(c)
  <2> SUFFICES ASSUME trouble = 0 PROVE Calm'
    BY <1>3 DEF Reopen
  <2>1. /\ pc[c] = "reopen" /\ pc' = [pc EXCEPT ![c] = "identify"]
        /\ dir' = [dir EXCEPT ![c] = at] /\ at \in Directory
        /\ UNCHANGED <<now, at>>
    BY <1>3 DEF Reopen
  <2>2. \A d \in Directory : now[d].view # c
    BY <2>1
  <2> QED
    BY <2>1, <2>2
<1>4. CASE Identify(c)
  BY <1>4 DEF Identify, Matches
<1>5. CASE StatView(c)
  <2>1. CASE now[dir[c]].view \in {"link", "directory"}
    BY <1>5, <2>1 DEF StatView
  <2>2. CASE now[dir[c]].view \notin {"link", "directory"}
    BY <1>5, <2>2 DEF StatView
  <2> QED
    BY <2>1, <2>2
<1>6. CASE WriteTemp(c)
  BY <1>6 DEF WriteTemp, Change, With
<1>7. CASE SyncTemp(c)
  BY <1>7 DEF SyncTemp
<1>8. CASE Recheck(c)
  BY <1>8 DEF Recheck, Matches
<1>9. CASE Replace(c)
  <2>1. CASE now[dir[c]].view = "directory"
    BY <1>9, <2>1 DEF Replace
  <2>2. CASE now[dir[c]].view # "directory"
    <3> SUFFICES ASSUME trouble = 0 PROVE Calm'
      BY <1>9 DEF Replace
    <3>1. /\ dir[c] = at /\ at \in Directory /\ pc' = [pc EXCEPT ![c] = "syncDir"]
          /\ now' = [now EXCEPT ![at] = Renamed(at, c)]
          /\ UNCHANGED <<dir, at>>
      BY <1>9, <2>2 DEF Replace, Change
    <3>2. now'[at].view = c /\ \A d \in Directory \ {at} : now'[d] = now[d]
      BY <3>1 DEF Renamed
    <3> QED
      BY <1>9, <3>1, <3>2
  <2> QED
    BY <2>1, <2>2
<1>10. CASE SyncDir(c)
  BY <1>10 DEF SyncDir
<1>11. CASE Readback(c)
  <2>1. trouble = 0 => now[dir[c]].view # c \/ pc'[c] = "confirm"
    BY <1>11 DEF Readback, Whole
  <2>2. pc' = [pc EXCEPT ![c] = "confirm"] \/ pc' = [pc EXCEPT ![c] = "raised"]
    BY <1>11 DEF Readback
  <2>3. UNCHANGED <<dir, now, at, trouble>>
    BY <1>11 DEF Readback
  <2> SUFFICES ASSUME trouble = 0 PROVE Calm'
    BY <2>3
  <2>4. now[at].view \in Call /\ dir[c] = at /\ at \in Directory
    BY <1>11 DEF Readback
  <2> QED
    <3>1. ~Inviting'
      BY <2>3, <2>4
    <3>2. \A d \in Directory : now[d].view \in Call => pc'[now[d].view] \in Told
      <4> SUFFICES ASSUME NEW d \in Directory, now[d].view = c, pc'[c] = "raised"
                   PROVE  FALSE
        BY <2>2 
      <4>1. dir[c] = at /\ now[at].view # c
        BY <2>1, <2>4
      <4> QED
        BY <4>1
    <3> QED
      BY <2>2, <2>3, <2>4, <3>1, <3>2
<1>12. CASE Confirm(c)
  BY <1>12 DEF Confirm, Matches
<1>13. CASE Untemp(c)
  <2>1. /\ dir[c] \in Directory /\ UNCHANGED <<dir, at, trouble>>
        /\ pc[c] = "untemp" /\ pc' = [pc EXCEPT ![c] = "raised"]
    BY <1>13 DEF Untemp
  <2>2. \A d \in Directory : now'[d].view = now[d].view
    BY <1>13 DEF Untemp, Change, Without
  <2> QED
    BY <1>13, <2>1, <2>2
<1> QED
  BY <1>1, <1>2, <1>3, <1>4, <1>5, <1>6, <1>7, <1>8, <1>9, <1>10, <1>11, <1>12, <1>13 DEF Step

\* A fault leads to where the except clause would, a kill nowhere.
LEMMA TroubleInv ==
  ASSUME Inv, NEW c \in Call, Fault(c) \/ Kill(c), UNCHANGED text
  PROVE  Inv'
<1> USE ViewAssumption
    DEF Inv, TypeOK, Shape, Homes, Goto, Raise, process, Steps,
      Running, Opened, Staging, Published
<1>0. Calm'
  BY DEF Calm, Fault, Kill, Trouble
<1>1. CASE Kill(c)
  <2>1. TypeOK'
    BY <1>1 DEF Kill, Trouble
  <2>2. Whole' /\ Lasting' /\ Tidy'
    BY <1>1 DEF Kill, Whole, Lasting, Tidy, Before, Settled, Told, State
  <2> QED
    BY <1>0, <2>1, <2>2
<1>2. CASE Fault(c) /\ UNCHANGED <<file, now, disk>>
  <2>1. TypeOK'
    BY <1>2 DEF Fault, Trouble
  <2>2. Whole' /\ Lasting'
    BY <1>2 DEF Fault, Whole, Lasting, Before, Settled, Told, State
  <2>3. Tidy'
    BY <1>2 DEF Fault, Tidy, Before, Settled, State
  <2> QED
    BY <1>0, <2>1, <2>2, <2>3
<1>3. CASE Fault(c) /\ pc[c] = "write" /\ Change(dir[c], With(dir[c], c))
           /\ file' = [file EXCEPT ![c] = "partial"]
  <2>0. \A d \in Directory : With(d, c) \in State
    BY DEF With, State
  <2>1. Shape'
    BY <1>3, <2>0 DEF Fault, Trouble, Change, Shape
  <2>2. Homes'
    BY <1>3 DEF Fault, Change, With, Homes, State
  <2>3. Whole' /\ Lasting'
    BY <1>3 DEF Fault, Change, With, Whole, Lasting, Before, Settled, Told, State
  <2>4. Tidy'
    BY <1>3 DEF Fault, Change, With, Tidy, Before, Settled, State
  <2> QED
    BY <1>0, <2>1, <2>2, <2>3, <2>4 DEF Shape, Homes
<1> QED
  BY <1>1, <1>2, <1>3 DEF Fault

\* After a power loss a directory is made of states that were on disk, and every
\* call has ended.
LEMMA PowerLossInv == ASSUME Inv, PowerLoss, UNCHANGED text PROVE Inv'
<1> USE ViewAssumption DEF Inv, TypeOK, Shape, Homes
<1>0. Calm'
  BY DEF Calm, PowerLoss, Trouble
<1>1. /\ pc' \in [Call -> {"returned", "raised", "dead"}]
      /\ \A c \in Call : pc'[c] # "dead" => pc'[c] = pc[c]
      /\ \A c \in Call : pc[c] \in {"returned", "raised", "dead"} => pc'[c] = pc[c]
  BY DEF PowerLoss, Steps, Running, Opened, Staging, Published
<1>2. PICK gone \in SUBSET loose :
        /\ now' \in [Directory -> State]
        /\ \A d \in Directory : IF d \in gone THEN now'[d] = Empty ELSE Survivor(d, now'[d])
        /\ existing' = existing \ gone /\ meddled' = meddled \ gone
        /\ at' = IF at \in gone THEN Missing ELSE at
  BY DEF PowerLoss
<1>3. /\ disk' = [d \in Directory |-> {now'[d]}] /\ UNCHANGED <<dir, loose>>
      /\ excused' = excused \cup {c \in Call : pc[c] = "raised"}
  BY DEF PowerLoss
<1>4. /\ file' \in [Call -> {"none", "partial", "whole", "flushed"}]
      /\ \A c \in Call : file[c] = "flushed" => file'[c] = "flushed"
  BY DEF PowerLoss
<1>5. \A d \in Directory :
        /\ now'[d].view \in Call => \E s \in disk[d] : s.view = now'[d].view
        /\ \A c \in now'[d].temps : \E s \in disk[d] : c \in s.temps
  BY <1>2 DEF Survivor, Empty, Alien
<1>6. TypeOK'
  <2>1. Shape'
    BY <1>1, <1>2, <1>3, <1>4 DEF PowerLoss, Trouble, Shape, Steps, Running, Opened, Staging, Published
  <2>2. Homes'
    BY <1>3, <1>5 DEF Homes
  <2> QED
    BY <2>1, <2>2 DEF Shape, Homes
<1>7. Whole'
  BY <1>1, <1>3, <1>4, <1>5 DEF Whole, Before
<1>8. Lasting'
  <2> SUFFICES ASSUME NEW c \in Call, pc'[c] = "returned",
                      dir[c] \in Directory, dir[c] \notin meddled', dir[c] \notin loose
               PROVE  now'[dir[c]].view \in Call
    BY <1>1, <1>2, <1>3 DEF Lasting, Told, Settled, Published
  <2>1. pc[c] = "returned" /\ dir[c] \notin gone /\ dir[c] \notin meddled
    BY <1>1, <1>2
  <2> QED
    BY <1>2, <2>1 DEF Survivor, Lasting, Told, Settled
<1>9. Tidy'
  <2> SUFFICES ASSUME NEW d \in Directory, NEW c \in now'[d].temps
               PROVE  pc'[c] = "dead" \/ (pc'[c] = "raised" /\ c \in excused')
    BY <1>1, <1>3 DEF Tidy, Before, Settled
  <2>1. c \in Call /\ pc[c] # "returned"
    BY <1>5 DEF Tidy, Settled, State
  <2> QED
    BY <1>1, <1>3, <2>1
<1> QED
  BY <1>0, <1>6, <1>7, <1>8, <1>9

\* Other programs only change what the invariant leaves open.
LEMMA OutsideInv ==
  ASSUME Inv, MoveParent \/ (\E d \in Directory : ChangeView(d)), UNCHANGED text
  PROVE  Inv'
<1> USE ViewAssumption DEF Inv, TypeOK, Shape, Homes, process
<1>0. Calm'
  BY DEF Calm, MoveParent, ChangeView, Trouble
<1>1. CASE MoveParent
  <2>1. TypeOK'
    BY <1>1 DEF MoveParent, Trouble
  <2>2. Whole' /\ Lasting' /\ Tidy'
    BY <1>1 DEF MoveParent, Whole, Lasting, Tidy
  <2> QED
    BY <1>0, <2>1, <2>2
<1>2. ASSUME NEW d \in Directory, ChangeView(d) PROVE Inv'
  <2>1. PICK e \in Alien : Change(d, [now[d] EXCEPT !.view = e])
    BY <1>2 DEF ChangeView
  <2>2. [now[d] EXCEPT !.view = e] \in State
    BY DEF State, Entry
  <2>3. Shape'
    BY <1>2, <2>1, <2>2 DEF ChangeView, Trouble, Change, Shape
  <2>4. Homes'
    BY <1>2, <2>1 DEF ChangeView, Change, Homes, State
  <2>5. Whole' /\ Lasting'
    BY <1>2, <2>1 DEF ChangeView, Change, Whole, Lasting, State
  <2>6. Tidy'
    BY <1>2, <2>1 DEF ChangeView, Change, Tidy, State
  <2> QED
    BY <1>0, <2>3, <2>4, <2>5, <2>6 DEF Shape, Homes
<1> QED
  BY <1>1, <1>2

\* The invariant, for any number of calls and any amount of trouble.
THEOREM Invariance == Spec => []Inv
<1>1. Inv /\ [Next]_vars => Inv'
  <2> SUFFICES ASSUME Inv, [Next]_vars PROVE Inv'
    OBVIOUS
  <2>1. CASE UNCHANGED vars
    BY <2>1 DEF Inv, TypeOK, Shape, Homes, Whole, Lasting, Tidy, Calm,
      Inviting, vars, process
  <2>2. ASSUME Next, NEW c \in Call, Step(c) PROVE Inv'
    <3>1. TypeOK'
      BY <2>2, StepShape, StepHomes DEF Next, Inv, TypeOK, Shape, Homes
    <3> QED
      BY <2>2, <3>1, StepWhole, StepLasting, StepTidy, StepCalm DEF Inv
  <2> QED
    BY <2>1, <2>2, TroubleInv, PowerLossInv, OutsideInv DEF Next
<1> QED
  BY InitInv, <1>1, PTL DEF Spec

\* Variables keep their shape, a call that has opened its parent holds an
\* existing directory, and its temporary file is in no other.
THEOREM TypeCorrect == Spec => []TypeOK
<1>1. Inv => TypeOK
  BY DEF Inv
<1> QED
  BY Invariance, <1>1, PTL

\* However many calls, kills and power losses: nobody ever finds part of a view.
THEOREM ViewsAreWhole == Spec => []NeverTorn
<1>1. Inv => NeverTorn
  BY DEF Inv, TypeOK, Shape, Homes, Whole, NeverTorn
<1> QED
  BY Invariance, <1>1, PTL

\* A returned path is durable: no power loss brings back what was there before.
THEOREM ReturnedIsDurable == Spec => []ReturnedKept
<1>1. Inv => ReturnedKept
  BY DEF Inv, TypeOK, Shape, Homes, Lasting, Settled, ReturnedKept
<1> QED
  BY Invariance, <1>1, PTL

\* No call that ended by itself leaves a temporary file it could remove.
THEOREM NothingLeftBehind == Spec => []NoLitter
<1>1. Inv => NoLitter
  BY DEF Inv, TypeOK, Shape, Homes, Tidy, NoLitter, Running, Opened,
      Staging, State
<1> QED
  BY Invariance, <1>1, PTL

\* Rival calls never all fail: the one whose view is there has returned.
THEOREM SomeoneReturns == Spec => []LastWriterReturns
<1>1. Inv => LastWriterReturns
  <2> SUFFICES ASSUME Inv, trouble = 0, at \in Directory, Call # {},
                      \A c \in Call : pc[c] \in {"returned", "raised"},
                      now[at].view \notin {"link", "directory"}
               PROVE  now[at].view \in Call /\ pc[now[at].view] = "returned"
    BY DEF LastWriterReturns
  <2>1. now[at].view \in Call
    BY DEF Inv, TypeOK, Shape, Homes, Calm, Inviting, Alive, Staging,
      Told, State, Entry, Alien
  <2> QED
    BY <2>1 DEF Inv, Calm, Told, Published
<1> QED
  BY Invariance, <1>1, PTL
=============================================================================
