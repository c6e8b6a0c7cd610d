----------------------- MODULE TargetPartition_proofs -----------------------
(***************************************************************************)
(* The partition of the atoms, for any number of paths, hunks and redacted *)
(* passages.  The inductive invariant says what the two loops have done    *)
(* halfway: `hints` holds the hints of the paths classified, `claimed` what *)
(* the hints heard so far select, and the dispositions cut it up.          *)
(***************************************************************************)
EXTENDS TargetPartition, TLAPS

HintedSoFar == {h \in Hint : h.path \in 1..(next - 1) /\ h \in HintsOf(h.path)}

Progress ==
  /\ pc \in {"resolve", "view"} =>
       next = 1 /\ hints = {} /\ claimed = {} /\ manual = {}
  /\ pc # "refused" => hints = HintedSoFar
  /\ pc \in {"classify", "claim", "sealed"} => next <= Len(records) + 1
  /\ pc \in {"claim", "sealed"} => next = Len(records) + 1
  /\ pc = "sealed" => heard = hints /\ packet = AllAtoms \ claimed

Claimed ==
  /\ claimed = UNION {Selected(h) : h \in heard}
  /\ claimed = UNION {d.atoms : d \in manual}
  /\ \A d \in manual : d.atoms # {} /\ \A a \in d.atoms : a.path = d.path
  /\ \A d, e \in manual : d # e => d.atoms \cap e.atoms = {}

IInv == TypeOK /\ Progress /\ Claimed

-----------------------------------------------------------------------------
(* What the hints of one path are.                                         *)

\* The hints of a path name that path and are well formed.
LEMMA HintsTyped ==
  ASSUME TypeOK, NEW k \in 1..Len(records), NEW h \in HintsOf(k)
  PROVE  h \in Hint /\ h.path = k
<1>1. k \in 1..MaxPaths /\ records[k] \in Change
  BY TargetAssumption DEF TypeOK
<1>2. WithheldReason(records[k]) \in Reasons \cup {"none"}
  BY DEF WithheldReason, SpecialReason, Reasons
<1>3. \A p \in records[k].passages : HunksForRange(p) \subseteq 0..MaxHunks
  BY TargetAssumption DEF HunksForRange, NoHeader
<1>4. \/ /\ WithheldReason(records[k]) # "none"
         /\ h = [path |-> k, rank |-> 0, hunk |-> NoHeader, reason |-> WithheldReason(records[k])]
      \/ \E p \in records[k].passages : \E n \in HunksForRange(p) :
           h = [path |-> k, rank |-> n, hunk |-> n, reason |-> "sensitive_content_redacted"]
      \/ h = [path |-> k, rank |-> 1, hunk |-> NoHeader, reason |-> "mode_only_change"]
  BY DEF HintsOf
<1>5. CASE /\ WithheldReason(records[k]) # "none"
           /\ h = [path |-> k, rank |-> 0, hunk |-> NoHeader, reason |-> WithheldReason(records[k])]
  BY <1>1, <1>2, <1>5, TargetAssumption DEF Hint, NoHeader
<1>6. CASE \E p \in records[k].passages : \E n \in HunksForRange(p) :
             h = [path |-> k, rank |-> n, hunk |-> n, reason |-> "sensitive_content_redacted"]
  BY <1>1, <1>3, <1>6, TargetAssumption DEF Hint, Reasons
<1>7. CASE h = [path |-> k, rank |-> 1, hunk |-> NoHeader, reason |-> "mode_only_change"]
  BY <1>1, <1>7, TargetAssumption DEF Hint, NoHeader, Reasons
<1> QED
  BY <1>4, <1>5, <1>6, <1>7

\* A hint claims atoms of its own path only.
LEMMA SelectedTyped ==
  ASSUME TypeOK, NEW h \in Hint
  PROVE  Selected(h) \subseteq AtomsOf(h.path) /\ \A a \in Selected(h) : a \in Atom /\ a.path = h.path
  BY DEF Selected, AtomsOf

\* The hints of a path claim an atom exactly when there is a cause to.
LEMMA HintedForCause ==
  ASSUME TypeOK, NEW k \in 1..Len(records), NEW a \in AtomsOf(k)
  PROVE  (\E h \in HintsOf(k) : a \in Selected(h)) <=> Causes(a)
<1> DEFINE c == records[k]
<1>1. /\ k \in 1..MaxPaths /\ c \in Changes /\ c \in Change
      /\ a \in Atom /\ a.path = k /\ a.hunk \in 0..MaxHunks /\ a.hunk <= c.hunks
      /\ \A p \in c.passages : p[1] \in 0..MaxHunks /\ p[2] \in 0..MaxHunks /\ p[2] <= c.hunks
  BY TargetAssumption DEF TypeOK, AtomsOf, Atom, Change, Passages
<1>2. CASE WithheldReason(c) # "none"
  <2> DEFINE h == [path |-> k, rank |-> 0, hunk |-> NoHeader, reason |-> WithheldReason(c)]
  <2>1. h \in HintsOf(k) /\ a \in Selected(h)
    BY <1>1, <1>2 DEF HintsOf, Selected, NoHeader
  <2> QED BY <1>1, <1>2, <2>1 DEF Causes
<1>3. CASE WithheldReason(c) = "none" /\ ModeOnly(c)
  <2> DEFINE h == [path |-> k, rank |-> 1, hunk |-> NoHeader, reason |-> "mode_only_change"]
  <2>1. h \in HintsOf(k) /\ a \in Selected(h)
    BY <1>1, <1>3 DEF HintsOf, Selected, NoHeader
  <2> QED BY <1>1, <1>3, <2>1 DEF Causes
<1>4. CASE WithheldReason(c) = "none" /\ ~ModeOnly(c)
  <2> DEFINE hint(n) == [path |-> k, rank |-> n, hunk |-> n, reason |-> "sensitive_content_redacted"]
  <2>1. HintsOf(k) = {hint(n) : n \in UNION {HunksForRange(p) : p \in c.passages}}
    BY <1>4 DEF HintsOf
  <2>2. \A n \in 0..MaxHunks :
          a \in Selected(hint(n)) <=>
            \/ n = 0
            \/ n # 0 /\ a.hunk = n
            \/ n # 0 /\ n > c.hunks /\ a.hunk = 0
    <3> SUFFICES ASSUME NEW n \in 0..MaxHunks
                 PROVE  a \in Selected(hint(n)) <=>
                          \/ n = 0
                          \/ n # 0 /\ a.hunk = n
                          \/ n # 0 /\ n > c.hunks /\ a.hunk = 0
      OBVIOUS
    <3>1. CASE n = 0
      BY <1>1, <3>1 DEF Selected, NoHeader
    <3>2. CASE n # 0 /\ n <= c.hunks
      <4>1. [path |-> k, hunk |-> n] \in {b \in AtomsOf(k) : b.hunk = n}
        BY <1>1, <3>2 DEF AtomsOf, Atom
      <4>2. Selected(hint(n)) = {b \in AtomsOf(k) : b.hunk = n}
        BY <4>1, <3>2 DEF Selected, NoHeader
      <4> QED BY <1>1, <3>2, <4>2 DEF Change
    <3>3. CASE n # 0 /\ n > c.hunks
      <4>1. {b \in AtomsOf(k) : b.hunk = n} = {}
        BY <1>1, <3>3 DEF AtomsOf, Atom, Change
      <4>2. Selected(hint(n)) = {b \in AtomsOf(k) : b.hunk = 0}
        BY <4>1, <3>3 DEF Selected, NoHeader, Metadata
      <4> QED BY <1>1, <3>3, <4>2 DEF Change
    <3> QED BY <1>1, <3>1, <3>2, <3>3 DEF Change
  <2>3. \A p \in c.passages : HunksForRange(p) \subseteq 0..c.hunks
    BY <1>1, TargetAssumption DEF HunksForRange, NoHeader, Change
  <2>4. (\E h \in HintsOf(k) : a \in Selected(h)) <=>
          \E p \in c.passages : \E n \in HunksForRange(p) : n = 0 \/ a.hunk = n
    <3>1. (\E h \in HintsOf(k) : a \in Selected(h)) <=>
            \E p \in c.passages : \E n \in HunksForRange(p) : a \in Selected(hint(n))
      BY <2>1
    <3>2. \A p \in c.passages : \A n \in HunksForRange(p) :
            a \in Selected(hint(n)) <=> n = 0 \/ a.hunk = n
      <4> SUFFICES ASSUME NEW p \in c.passages, NEW n \in HunksForRange(p)
                   PROVE  a \in Selected(hint(n)) <=> n = 0 \/ a.hunk = n
        OBVIOUS
      <4>1. n \in 0..MaxHunks /\ n <= c.hunks /\ c.hunks \in Nat
        BY <1>1, <2>3, TargetAssumption DEF Change
      <4> HIDE DEF hint
      <4> QED BY <2>2, <4>1
    <3> QED BY <3>1, <3>2
  <2>5. ASSUME NEW p \in c.passages
        PROVE  (\E n \in HunksForRange(p) : n = 0 \/ a.hunk = n) <=>
                 p[2] = 0 \/ (a.hunk # Metadata /\ TouchedBy(p, a.hunk))
    BY <1>1, TargetAssumption DEF HunksForRange, NoHeader, Metadata, TouchedBy
  <2> QED BY <1>1, <1>4, <2>4, <2>5 DEF Causes
<1> QED BY <1>2, <1>3, <1>4

-----------------------------------------------------------------------------
(* The invariant.                                                          *)

LEMMA Initially == Init => IInv
  BY TargetAssumption DEF Init, IInv, TypeOK, Progress, Claimed, HintedSoFar, Atom

\* Refusing leaves what was claimed alone.
LEMMA RefusePreserves == IInv /\ Refuse => IInv'
  BY DEF IInv, TypeOK, Progress, Claimed, Refuse, Selected, AtomsOf

LEMMA ReadViewPreserves == IInv /\ ReadView => IInv'
<1> SUFFICES ASSUME IInv, ReadView PROVE IInv'
  OBVIOUS
<1>1. CASE Refuse
  BY <1>1, RefusePreserves
<1>2. CASE \E n \in 1..MaxPaths : \E cs \in [1..n -> Changes] :
          /\ records' = cs
          /\ pc' = "classify"
          /\ UNCHANGED <<next, hints, heard, manual, claimed, packet>>
  <2>1. PICK n \in 1..MaxPaths : \E cs \in [1..n -> Changes] :
          /\ records' = cs
          /\ pc' = "classify"
          /\ UNCHANGED <<next, hints, heard, manual, claimed, packet>>
    BY <1>2
  <2>2. records' \in Seq(Changes) /\ Len(records') = n
    BY <2>1, TargetAssumption
  <2>3. next = 1 /\ hints = {} /\ heard = {} /\ claimed = {} /\ manual = {}
    BY DEF IInv, TypeOK, Progress, ReadView
  <2>4. TypeOK'
    BY <2>1, <2>2, TargetAssumption DEF IInv, TypeOK
  <2>5. HintedSoFar' = {}
    BY <2>1, <2>3 DEF HintedSoFar
  <2>6. Progress'
    BY <2>1, <2>2, <2>3, <2>5 DEF Progress
  <2>7. Claimed'
    BY <2>1, <2>3 DEF Claimed
  <2> QED BY <2>4, <2>6, <2>7 DEF IInv
<1> QED BY <1>1, <1>2 DEF ReadView

LEMMA ClassifyPreserves == IInv /\ Classify => IInv'
<1> SUFFICES ASSUME IInv, Classify PROVE IInv'
  OBVIOUS
<1>1. next \in 1..Len(records) /\ Len(records) \in Nat
  BY TargetAssumption DEF IInv, TypeOK, Classify
<1>2. \A h \in HintsOf(next) : h \in Hint /\ h.path = next
  BY <1>1, HintsTyped DEF IInv
<1>3. TypeOK'
  BY <1>1, <1>2, TargetAssumption DEF IInv, TypeOK, Classify
<1>4. HintedSoFar' = HintedSoFar \cup HintsOf(next)
  <2>1. \A k : HintsOf(k)' = HintsOf(k)
    BY DEF HintsOf, Classify
  <2>2. next' = next + 1
    BY DEF Classify
  <2> QED BY <1>1, <1>2, <2>1, <2>2 DEF HintedSoFar, Hint
<1>5. Progress'
  BY <1>1, <1>4, TargetAssumption DEF IInv, Progress, Classify
<1>6. Claimed'
  BY DEF IInv, Claimed, Classify, Selected, AtomsOf
<1> QED BY <1>3, <1>5, <1>6 DEF IInv

LEMMA ClaimPreserves == IInv /\ Claim => IInv'
<1> SUFFICES ASSUME IInv, Claim PROVE IInv'
  OBVIOUS
<1> USE DEF IInv
<1>1. PICK h \in hints \ heard :
        /\ manual' = manual \cup
             (IF Selected(h) \ claimed = {} THEN {}
              ELSE {[path |-> h.path, reason |-> h.reason, atoms |-> Selected(h) \ claimed]})
        /\ claimed' = claimed \cup (Selected(h) \ claimed)
        /\ heard' = heard \cup {h}
  BY DEF Claim
<1>2. /\ h \in Hint
      /\ UNCHANGED <<pc, records, next, hints, packet>>
      /\ pc = "claim"
  BY DEF TypeOK, Claim
<1>3. \A a \in Selected(h) : a \in Atom /\ a.path = h.path
  BY <1>2, SelectedTyped
<1>4. TypeOK'
  BY <1>1, <1>2, <1>3 DEF TypeOK, Hint
<1>5. \A g : Selected(g)' = Selected(g)
  BY <1>2 DEF Selected, AtomsOf
<1>6. HintedSoFar' = HintedSoFar
  BY <1>2 DEF HintedSoFar, HintsOf
<1>7. Progress'
  BY <1>1, <1>2, <1>6 DEF Progress
<1>8. Claimed'
  <2>1. (claimed = UNION {Selected(g) : g \in heard})'
    BY <1>1, <1>5 DEF Claimed
  <2>2. CASE Selected(h) \ claimed = {}
    <3>1. manual' = manual /\ claimed' = claimed
      BY <1>1, <2>2
    <3> QED BY <2>1, <3>1 DEF Claimed
  <2>3. CASE Selected(h) \ claimed # {}
    <3> DEFINE new == [path |-> h.path, reason |-> h.reason, atoms |-> Selected(h) \ claimed]
    <3>1. manual' = manual \cup {new}
      BY <1>1, <2>3
    <3>2. \A d \in manual : d.atoms \subseteq claimed
      BY DEF Claimed
    <3>3. new.atoms = Selected(h) \ claimed /\ new.path = h.path
      OBVIOUS
    <3> HIDE DEF new
    <3>4. (claimed = UNION {d.atoms : d \in manual})'
      BY <1>1, <3>1, <3>3 DEF Claimed
    <3>5. (\A d \in manual : d.atoms # {} /\ \A a \in d.atoms : a.path = d.path)'
      BY <1>3, <2>3, <3>1, <3>3 DEF Claimed
    <3>6. (\A d, e \in manual : d # e => d.atoms \cap e.atoms = {})'
      BY <3>1, <3>2, <3>3 DEF Claimed
    <3> QED BY <2>1, <3>4, <3>5, <3>6 DEF Claimed
  <2> QED BY <2>2, <2>3
<1> QED BY <1>4, <1>7, <1>8

LEMMA FinishPreserves == IInv /\ Finish => IInv'
<1> SUFFICES ASSUME IInv, Finish PROVE IInv'
  OBVIOUS
<1>1. CASE Refuse
  BY <1>1, RefusePreserves
<1>2. CASE /\ Reviewable \cup claimed = AllAtoms
           /\ packet' = Reviewable
           /\ pc' = "sealed"
           /\ UNCHANGED <<records, next, hints, heard, manual, claimed>>
  <2>1. AllAtoms \subseteq Atom /\ Reviewable = AllAtoms \ claimed
    BY DEF AllAtoms, AtomsOf, Reviewable, IInv, Claimed
  <2>2. TypeOK'
    BY <1>2, <2>1 DEF IInv, TypeOK
  <2>3. AllAtoms' = AllAtoms /\ HintedSoFar' = HintedSoFar
    BY <1>2 DEF AllAtoms, AtomsOf, HintedSoFar, HintsOf
  <2>4. Progress'
    BY <1>2, <2>1, <2>3 DEF IInv, Progress, Finish
  <2>5. Claimed'
    BY <1>2 DEF IInv, Claimed, Selected, AtomsOf
  <2> QED BY <2>2, <2>4, <2>5 DEF IInv
<1> QED BY <1>1, <1>2 DEF Finish

\* The invariant holds throughout.
THEOREM Inductive == Spec => []IInv
<1>1. IInv /\ [Next]_vars => IInv'
  <2> SUFFICES ASSUME IInv, [Next]_vars PROVE IInv'
    OBVIOUS
  <2>1. CASE Resolve
    <3>1. CASE Refuse
      BY <3>1, RefusePreserves
    <3>2. CASE pc' = "view" /\ UNCHANGED <<records, next, hints, heard, manual, claimed, packet>>
      BY <2>1, <3>2 DEF Resolve, IInv, TypeOK, Progress, Claimed, HintedSoFar, HintsOf, Selected, AtomsOf
    <3> QED BY <2>1, <3>1, <3>2 DEF Resolve
  <2>2. CASE UNCHANGED vars
    BY <2>2 DEF vars, IInv, TypeOK, Progress, Claimed, HintedSoFar, HintsOf, Selected, AtomsOf, AllAtoms
  <2> QED
    BY <2>1, <2>2, ReadViewPreserves, ClassifyPreserves, ClaimPreserves, FinishPreserves DEF Next
<1> QED BY <1>1, Initially, PTL DEF Spec

-----------------------------------------------------------------------------
(* What follows from it.                                                   *)

\* seal_two_dot_target keeps its state well formed.
THEOREM TypeCorrect == Spec => []TypeOK
<1>1. IInv => TypeOK
  BY DEF IInv
<1> QED BY <1>1, Inductive, PTL

\* No atom is claimed twice, lost, or both reviewed and left to a person.
THEOREM AtomsPartitioned == Spec => []Partitioned
<1>1. IInv => Partitioned
  <2> SUFFICES ASSUME IInv PROVE Partitioned
    OBVIOUS
  <2>1. ASSUME pc = "sealed"
        PROVE  /\ AllAtoms = packet \cup UNION {d.atoms : d \in manual}
               /\ \A d \in manual : packet \cap d.atoms = {}
    <3>1. packet = AllAtoms \ claimed
      BY <2>1 DEF IInv, Progress
    <3>2. claimed \subseteq AllAtoms
      <4>1. hints = HintedSoFar /\ heard = hints /\ next = Len(records) + 1 /\ Len(records) \in Nat
        BY <2>1 DEF IInv, Progress, TypeOK
      <4>2. \A h \in heard : h \in Hint /\ h.path \in DOMAIN records
        BY <4>1 DEF HintedSoFar, IInv, TypeOK
      <4>3. \A h \in heard : Selected(h) \subseteq AtomsOf(h.path)
        BY <4>2, SelectedTyped DEF IInv
      <4> QED BY <4>2, <4>3 DEF IInv, Claimed, AllAtoms
    <3> QED BY <3>1, <3>2 DEF IInv, Claimed
  <2> QED BY <2>1 DEF Partitioned, IInv, Claimed
<1> QED BY <1>1, Inductive, PTL

\* What the reviewers get is what nothing speaks against, for every diff.
THEOREM ReviewedUnlessCause == Spec => []ManualForCause
<1>1. IInv => ManualForCause
  <2> SUFFICES ASSUME IInv, pc = "sealed", NEW a \in AllAtoms
               PROVE  a \in claimed <=> Causes(a)
    BY DEF ManualForCause, IInv, Progress
  <2>1. PICK k \in DOMAIN records : a \in AtomsOf(k)
    BY DEF AllAtoms
  <2>2. k \in 1..Len(records) /\ a.path = k
    BY <2>1 DEF IInv, TypeOK, AtomsOf
  <2>3. heard = HintedSoFar /\ next = Len(records) + 1 /\ Len(records) \in Nat
    BY DEF IInv, Progress, TypeOK
  <2>4. \A h \in HintsOf(k) : h \in heard
    BY <2>2, <2>3, HintsTyped DEF HintedSoFar, IInv
  <2>5. \A h \in heard : a \in Selected(h) => h \in HintsOf(k)
    BY <2>2, <2>3, SelectedTyped DEF HintedSoFar, IInv
  <2>6. a \in claimed <=> \E h \in HintsOf(k) : a \in Selected(h)
    BY <2>4, <2>5 DEF IInv, Claimed
  <2> QED BY <2>1, <2>2, <2>6, HintedForCause DEF IInv
<1> QED BY <1>1, Inductive, PTL
=============================================================================
