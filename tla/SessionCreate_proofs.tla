------------------------ MODULE SessionCreate_proofs ------------------------
(***************************************************************************)
(* What ArtifactStore.create promises, proved for any number of callers    *)
(* and any amount of trouble.  Everything rests on one inductive           *)
(* invariant: who is in the critical section owns the lock file, a root    *)
(* that is visible was flushed whole, and a caller that has seen the       *)
(* parent flushed knows that its root is durable.                          *)
(***************************************************************************)
EXTENDS SessionCreate, TLAPS

\* A call between taking and dropping the lock file owns it.
Holding == \A c \in Creator : pc[c] \in Critical => lock = c

\* Before the rename the session root is not the caller's.
Unrenamed == {"check", "lock", "close", "syncLock", "recheck", "mkdir", "fill",
              "seal", "lastCheck", "rename"}
Unpublished == \A c \in Creator : pc[c] \in Unrenamed => final # c

\* A call reaches the rename with all its files made and flushed.
Built ==
  \A c \in Creator :
    /\ pc[c] \in {"seal", "lastCheck", "rename"} => tree[c] = "whole"
    /\ pc[c] \in {"lastCheck", "rename"} => c \in sealed

Published == final \in Creator => tree[final] = "whole" /\ final \in sealed

Kept == keptFinal \in {None, final}

\* After the parent was flushed without an exception the root is durable, and
\* it stays so once the caller was told.
Told ==
  \A c \in Creator :
    /\ pc[c] = "syncParent" => final = c
    /\ pc[c] \in {"unlock", "syncUnlock", "verify"} /\ result[c] = "none"
         => final = c /\ keptFinal = c
    /\ result[c] = "ok" => ~anchored \/ (final = c /\ keptFinal = c)

\* What a call that can clean up leaves behind, step by step.
Tidy ==
  \A c \in Creator : c \notin messy =>
    /\ pc[c] \in {"check", "lock", "syncUnlock", "verify", "done"} => lock # c
    /\ pc[c] \in {"check", "lock", "verify", "done"} => keptLock # c
    /\ pc[c] \in {"check", "lock", "close", "syncLock", "recheck", "mkdir"}
         => tree[c] = "absent"
    /\ pc[c] \in {"unlock", "syncUnlock"} => tree[c] = "absent" \/ final = c
    /\ pc[c] = "done" => tree[c] = "absent" \/ (final = c /\ keptFinal = c)

Inv ==
  TypeOK /\ Holding /\ Unpublished /\ Built /\ Published /\ Kept /\ Told /\ Tidy

\* The invariant holds at the beginning.
LEMMA InitInv == Init => Inv
  BY SessionCreateAssumption
  DEF Init, Inv, TypeOK, Steps, Critical, Guarded, Tree, Holding, Unpublished,
      Unrenamed, Built, Published, Kept, Told, Tidy

\* Every step of a call preserves the invariant.
LEMMA StepInv == ASSUME Inv, NEW c \in Creator, Step(c) PROVE Inv'
<1> USE SessionCreateAssumption
    DEF Inv, TypeOK, Steps, Critical, Guarded, Tree, Holding, Unpublished,
        Unrenamed, Built, Published, Kept, Told, Tidy, visible, durable,
        process, Goto, Raise, FlushParent
<1>0. UNCHANGED trouble
  BY DEF Step
<1>1. CASE Check(c)
  BY <1>0, <1>1 DEF Check
<1>2. CASE TakeLock(c)
  BY <1>0, <1>2 DEF TakeLock
<1>3. CASE CloseLock(c)
  BY <1>0, <1>3 DEF CloseLock
<1>4. CASE SyncLock(c)
  BY <1>0, <1>4 DEF SyncLock
<1>5. CASE Recheck(c)
  BY <1>0, <1>5 DEF Recheck
<1>6. CASE MakeStaging(c)
  BY <1>0, <1>6 DEF MakeStaging
<1>7. CASE Fill(c)
  BY <1>0, <1>7 DEF Fill
<1>8. CASE Seal(c)
  BY <1>0, <1>8 DEF Seal
<1>9. CASE LastCheck(c)
  BY <1>0, <1>9 DEF LastCheck
<1>10. CASE Rename(c)
  BY <1>0, <1>10 DEF Rename
<1>11. CASE SyncParent(c)
  BY <1>0, <1>11 DEF SyncParent
<1>12. CASE CleanUp(c)
  BY <1>0, <1>12 DEF CleanUp
<1>13. CASE Unlock(c)
  BY <1>0, <1>13 DEF Unlock
<1>14. CASE SyncUnlock(c)
  BY <1>0, <1>14 DEF SyncUnlock
<1>15. CASE Verify(c)
  BY <1>0, <1>15 DEF Verify
<1> QED
  BY <1>1, <1>2, <1>3, <1>4, <1>5, <1>6, <1>7, <1>8, <1>9, <1>10, <1>11, <1>12, <1>13, <1>14, <1>15 DEF Step

\* So does a fault, an interrupt or the death of one process.
LEMMA TroubleInv ==
  ASSUME Inv, NEW c \in Creator, Fault(c) \/ Interrupt(c) \/ Crash(c)
  PROVE  Inv'
<1> USE SessionCreateAssumption
    DEF Inv, TypeOK, Steps, Critical, Guarded, Tree, Holding, Unpublished,
        Unrenamed, Built, Published, Kept, Told, Tidy, visible, durable,
        Raise, Trouble
<1>1. CASE Fault(c)
  BY <1>1 DEF Fault
<1>2. CASE Interrupt(c)
  BY <1>2 DEF Interrupt
<1>3. CASE Crash(c)
  BY <1>3 DEF Crash
<1> QED
  BY <1>1, <1>2, <1>3

\* After a power loss no call is in the critical section, and a root that is
\* still there is one that was flushed: Published and Kept say that it is whole.
LEMMA PowerLossInv == Inv /\ PowerLoss => Inv'
<1> SUFFICES ASSUME Inv, PowerLoss PROVE Inv'
  OBVIOUS
<1> USE DEF Inv, TypeOK, Steps, Tree, Kept
<1>1. /\ pc' \in [Creator -> {"check", "done", "dead"}]
      /\ \A c \in Creator : pc'[c] # "dead" => pc'[c] = pc[c]
  BY DEF PowerLoss
<1>2. TypeOK'
  BY SessionCreateAssumption DEF PowerLoss, Trouble
<1>3. Holding' /\ Built'
  BY <1>1 DEF Holding, Built, Critical, Guarded
<1>4. Unpublished' /\ Kept'
  BY <1>1, SessionCreateAssumption DEF PowerLoss, Unpublished, Unrenamed
<1>5. Published'
  BY <1>2, SessionCreateAssumption DEF PowerLoss, Published, Remains
<1>6. Told'
  BY <1>1 DEF PowerLoss, Told
<1>7. Tidy'
  BY <1>1, SessionCreateAssumption DEF PowerLoss, Tidy, Remains
<1> QED
  BY <1>2, <1>3, <1>4, <1>5, <1>6, <1>7

\* Another program takes the path only while there is no root to harm.
LEMMA IntrudeInv == Inv /\ Intrude => Inv'
  BY SessionCreateAssumption
  DEF Intrude, Inv, TypeOK, Steps, Critical, Guarded, Tree, Holding, Unpublished,
      Unrenamed, Built, Published, Kept, Told, Tidy, durable, process

LEMMA NextInv == Inv /\ [Next]_vars => Inv'
<1> SUFFICES ASSUME Inv, [Next]_vars PROVE Inv'
  OBVIOUS
<1>1. ASSUME NEW c \in Creator, Step(c) PROVE Inv'
  BY <1>1, StepInv
<1>2. ASSUME NEW c \in Creator, Fault(c) \/ Interrupt(c) \/ Crash(c) PROVE Inv'
  BY <1>2, TroubleInv
<1>3. CASE PowerLoss
  BY <1>3, PowerLossInv
<1>4. CASE Intrude
  BY <1>4, IntrudeInv
<1>5. CASE UNCHANGED vars
  BY <1>5 DEF vars, Inv, TypeOK, Holding, Unpublished, Built, Published, Kept, Told, Tidy
<1> QED
  BY <1>1, <1>2, <1>3, <1>4, <1>5 DEF Next

\* The invariant holds in every reachable state.
THEOREM Invariance == Spec => []Inv
  BY InitInv, NextInv, PTL DEF Spec

-----------------------------------------------------------------------------
(* The promises of create *)

\* Variables keep their shape over any number of callers and faults.
THEOREM TypeCorrect == Spec => []TypeOK
<1>1. Inv => TypeOK
  BY DEF Inv
<1> QED
  BY <1>1, Invariance, PTL

\* Any number of callers: at most one is between taking and dropping the lock.
THEOREM MutualExclusion == Spec => []Exclusive
<1>1. Inv => Exclusive
  BY DEF Inv, Holding, Exclusive
<1> QED
  BY <1>1, Invariance, PTL

\* However the calls, the faults and the power losses fall, a visible session
\* root has all its files.
THEOREM RootsAreWhole == Spec => []PublishedWhole
<1>1. Inv => PublishedWhole
  BY DEF Inv, Published, PublishedWhole
<1> QED
  BY <1>1, Invariance, PTL

\* A call that could clean up left neither lock nor staging directory.
THEOREM NothingLeftBehind == Spec => []NoLitter
<1>1. Inv => NoLitter
  BY DEF Inv, Tidy, NoLitter
<1> QED
  BY <1>1, Invariance, PTL
-----------------------------------------------------------------------------
(* create implements SessionRoot *)

acked == {c \in Creator : result[c] = "ok"}

\* A step of a call is the appearance of the root, the acknowledgement, or
\* nothing that SessionRoot can see.
LEMMA StepImplements ==
  ASSUME Inv, NEW c \in Creator, Step(c)
  PROVE  [Root!Next]_(Root!vars)
<1> USE DEF Inv, TypeOK, Root!Next, Root!vars, visible, durable, process,
            Goto, Raise, FlushParent
<1>1. CASE Rename(c)
  <2>1. CASE final = None
    <3>1. Root!Appear(c)
      BY <1>1, <2>1 DEF Rename, Root!Appear
    <3> QED
      BY <3>1
  <2>2. CASE final # None
    BY <1>1, <2>2 DEF Rename
  <2> QED
    BY <2>1, <2>2
<1>2. CASE Verify(c)
  <2>1. CASE final = c /\ tree[c] = "whole"
    <3>1. Root!Acknowledge(c)
      BY <1>2, <2>1 DEF Verify, Root!Acknowledge
    <3> QED
      BY <3>1
  <2>2. CASE ~(final = c /\ tree[c] = "whole")
    BY <1>2, <2>2 DEF Verify
  <2> QED
    BY <2>1, <2>2
<1>3. CASE ~Rename(c) /\ ~Verify(c)
  <2>1. UNCHANGED <<final, anchored>>
    BY <1>3 DEF Step, Check, TakeLock, CloseLock, SyncLock, Recheck, MakeStaging,
       Fill, Seal, LastCheck, SyncParent, CleanUp, Unlock, SyncUnlock
  <2>2. /\ result' \in [Creator -> {"none", "ok", "error"}]
        /\ \A d \in Creator : result'[d] = "ok" <=> result[d] = "ok"
    BY <1>3 DEF Step, Check, TakeLock, CloseLock, SyncLock, Recheck, MakeStaging,
       Fill, Seal, LastCheck, SyncParent, CleanUp, Unlock, SyncUnlock
  <2> QED
    BY <2>1, <2>2
<1> QED
  BY <1>1, <1>2, <1>3

\* A fault, an interrupt or a death is invisible: a call that raises had not
\* been told of its session.
LEMMA TroubleImplements ==
  ASSUME Inv, NEW c \in Creator, Fault(c) \/ Interrupt(c) \/ Crash(c)
  PROVE  [Root!Next]_(Root!vars)
<1>1. UNCHANGED <<final, anchored>>
  BY DEF Fault, Interrupt, Crash, visible, durable
<1>2. \A d \in Creator : result'[d] = "ok" <=> result[d] = "ok"
  BY DEF Inv, TypeOK, Fault, Interrupt, Crash, Raise, Guarded
<1> QED
  BY <1>1, <1>2 DEF Root!vars

\* A power loss takes the root away only if nobody was told of it, or if the
\* directory above it was not durable.
LEMMA PowerLossImplements == Inv /\ PowerLoss => [Root!Next]_(Root!vars)
<1> SUFFICES ASSUME Inv, PowerLoss PROVE [Root!Next]_(Root!vars)
  OBVIOUS
<1>1. UNCHANGED <<result, anchored>> /\ final' \in {None, final}
  BY DEF PowerLoss, Inv, Kept
<1>2. CASE final' = final
  BY <1>1, <1>2 DEF Root!vars
<1>3. CASE final' # final
  <2>1. final \in acked => ~anchored
    BY <1>1, <1>3, SessionCreateAssumption DEF PowerLoss, Inv, Told, acked
  <2>2. Root!Lose
    BY <1>1, <1>3, <2>1 DEF Root!Lose, acked
  <2> QED
    BY <2>2 DEF Root!Next
<1> QED
  BY <1>2, <1>3

\* Another program's path is a root of its own.
LEMMA IntrudeImplements == Intrude => [Root!Next]_(Root!vars)
<1> SUFFICES ASSUME Intrude PROVE Root!Appear(Foreign)
  BY DEF Root!Next
<1> QED
  BY DEF Intrude, Root!Appear, process, durable

\* Seen from outside, create is SessionRoot: the root appears at once and once,
\* and a root whose creator was told survives every crash and power loss that
\* the directory above it survives.
THEOREM Implementation == Spec => ImplementsSessionRoot
<1>1. Init => Root!Init
  BY DEF Init, Root!Init
<1>2. Inv /\ [Next]_vars => [Root!Next]_(Root!vars)
  <2> SUFFICES ASSUME Inv, [Next]_vars PROVE [Root!Next]_(Root!vars)
    OBVIOUS
  <2>1. CASE UNCHANGED vars
    BY <2>1 DEF vars, Root!vars
  <2> QED
    BY <2>1, StepImplements, TroubleImplements, PowerLossImplements,
       IntrudeImplements DEF Next
<1> QED
  BY <1>1, <1>2, Invariance, PTL DEF Spec, ImplementsSessionRoot, Root!Spec
=============================================================================
