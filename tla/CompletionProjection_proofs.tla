--------------------- MODULE CompletionProjection_proofs ---------------------
(***************************************************************************)
(* Two guarantees.  What the validator of completions guarantees of any    *)
(* payload: it needs nothing of how the payload came to be.  And that      *)
(* whatever derive_completion_payload yields is accepted and says what the *)
(* evidence says, for any number of candidates and any order of results.   *)
(***************************************************************************)
EXTENDS CompletionProjection, TLAPS, FiniteSetTheorems

\* The instance that the findings must have for a record.
Projected(r) ==
  [cand |-> r.cand, ordinal |-> r.ordinal, result |-> r.result, severity |-> r.severity]

LEMMA NoneCounted ==
  ASSUME NEW S, IsFiniteSet(S), NEW d, Cardinality({r \in S : r.disposition = d}) = 0
  PROVE  {r \in S : r.disposition = d} = {}
<1>1. IsFiniteSet({r \in S : r.disposition = d})  BY FS_Subset
<1> QED  BY <1>1, FS_EmptySet

\* Each confirmed record is in one finding, which is no milder than it.
LEMMA RecordsKept ==
  ASSUME NEW c, RecordsValid(c), FindingsValid(c), NEW r \in WithDisposition(c, "confirmed")
  PROVE  \E f \in c.findings : /\ \A g \in c.findings : Holds(g, r) <=> g = f
                               /\ r.severity = "Important" => f.severity = "Important"
<1>1. UNION {f.instances : f \in c.findings}
        = {Projected(s) : s \in WithDisposition(c, "confirmed")}
  BY DEF FindingsValid, ProjectsConfirmed, Projected
<1>2. PICK f \in c.findings : Projected(r) \in f.instances
  BY <1>1
<1>3. ASSUME NEW g \in c.findings  PROVE  Holds(g, r) <=> g = f
  <2>1. ASSUME g = f  PROVE  Holds(g, r)
    BY <1>2, <2>1 DEF Holds, Members, Named, Projected
  <2>2. ASSUME Holds(g, r)  PROVE  g = f
    <3>1. Named(r) \in Members(f)
      BY <1>2 DEF Members, Named, Projected
    <3> QED  BY <2>2, <3>1 DEF FindingsValid, Holds
  <2> QED  BY <2>1, <2>2
<1>4. ASSUME r.severity = "Important"  PROVE  f.severity = "Important"
  <2>1. FindingValid(f)  BY DEF FindingsValid
  <2>2. Projected(r).severity = "Important"  BY <1>4 DEF Projected
  <2> QED  BY <1>2, <2>1, <2>2 DEF FindingValid
<1> QED  BY <1>3, <1>4

\* No finding has an instance that no record confirms.
LEMMA NothingAdded ==
  ASSUME NEW c, FindingsValid(c), NEW f \in c.findings, NEW i \in f.instances
  PROVE  \E r \in WithDisposition(c, "confirmed") : Named(i) = Named(r)
<1>1. PICK r \in WithDisposition(c, "confirmed") : i = Projected(r)
  BY DEF FindingsValid, ProjectsConfirmed, Projected
<1> QED  BY <1>1 DEF Projected, Named

\* The verdict is milder only for want of anything that a person must see.
LEMMA VerdictsEarned ==
  ASSUME NEW c, Valid(c)
  PROVE  /\ c.coverage.total - c.coverage.reviewed = Cardinality(UNION c.adapterItems)
         /\ c.verdict # "manual_review_required" =>
              c.verifierItems = {} /\ c.coverage.reviewed = c.coverage.total
         /\ c.verdict = "clean" => WithDisposition(c, "confirmed") = {}
<1> DEFINE confirmed == c.counts["confirmed"]
           manual == c.counts["needs_manual_review"]
<1>1. /\ c.coverage.total \in Nat /\ c.coverage.reviewed \in Nat /\ c.coverage.manual \in Nat
      /\ confirmed \in Nat /\ manual \in Nat /\ c.adapter \in Nat /\ c.canonical \in Nat
      /\ IsFiniteSet(c.records) /\ IsFiniteSet(c.adapterItems)
  BY DEF Valid, SchemaValid, Dispositions
<1>2. /\ c.coverage.reviewed + c.coverage.manual = c.coverage.total
      /\ c.coverage.manual = Cardinality(UNION c.adapterItems)
      /\ c.adapter = Cardinality(c.adapterItems)
  BY DEF Valid, ManualValid
<1>3. /\ confirmed = Cardinality(WithDisposition(c, "confirmed"))
      /\ manual = Cardinality(WithDisposition(c, "needs_manual_review"))
  BY DEF Valid, RecordsValid, CountOf, WithDisposition, Dispositions
<1>4. c.verdict = VerdictOf(c.adapter + manual, c.canonical)
  BY DEF Valid
<1>5. c.coverage.total - c.coverage.reviewed = Cardinality(UNION c.adapterItems)
  BY <1>1, <1>2
<1>6. ASSUME c.verdict # "manual_review_required"
      PROVE  c.verifierItems = {} /\ c.coverage.reviewed = c.coverage.total
  <2>1. c.adapter = 0 /\ manual = 0
    BY <1>1, <1>4, <1>6 DEF VerdictOf
  <2>2. c.adapterItems = {}
    BY <1>1, <1>2, <2>1, FS_EmptySet
  <2>3. Cardinality(UNION c.adapterItems) = 0
    BY <2>2, FS_EmptySet
  <2>4. WithDisposition(c, "needs_manual_review") = {}
    BY <1>1, <1>3, <2>1, NoneCounted DEF WithDisposition
  <2>5. c.verifierItems = {}
    BY <2>4 DEF Valid, ManualValid
  <2> QED  BY <1>1, <1>2, <2>3, <2>5
<1>7. ASSUME c.verdict = "clean"  PROVE  WithDisposition(c, "confirmed") = {}
  <2>1. c.canonical = 0
    BY <1>1, <1>4, <1>7 DEF VerdictOf
  <2>2. confirmed = 0
    BY <2>1 DEF Valid, FindingsValid
  <2> QED  BY <1>1, <1>3, <2>2, NoneCounted DEF WithDisposition
<1> QED  BY <1>5, <1>6, <1>7

\* Every payload that passes _validate_evaluation_completion_semantics hides
\* nothing that its own records say, whatever its size.
THEOREM ValidatorSuffices ==
  ASSUME NEW c, Valid(c)
  PROVE  Honest(c)
<1>1. RecordsValid(c) /\ FindingsValid(c)  BY DEF Valid
<1>2. {Named(r) : r \in WithDisposition(c, "needs_manual_review")} = c.verifierItems
  BY DEF Valid, ManualValid
<1> QED  BY <1>1, <1>2, RecordsKept, NothingAdded, VerdictsEarned DEF Honest

\* Hence a completion that somebody changed any number of times and that still
\* passes the validator hides nothing.
THEOREM EditsHonest == Spec => []ValidatedHonest
<1>1. ValidatedHonest  BY ValidatorSuffices DEF ValidatedHonest
<1> QED  BY <1>1, PTL
-----------------------------------------------------------------------------
(* Numbers and sizes                                                       *)

LEMMA LeastNumber ==
  ASSUME NEW S, S \subseteq Nat, S # {}
  PROVE  \E m \in S : \A k \in S : m <= k
<1> DEFINE R == OpToRel(<, Nat)
<1>1. IsWellFoundedOn(R, Nat)
  BY NatLessThanWellFounded
<1>2. PICK m \in S : \A k \in S : ~(<<k, m>> \in R)
  <2> HIDE DEF R
  <2> QED
    BY <1>1, WFMin
<1>3. \A k \in S : ~(k < m)
  BY <1>2 DEF OpToRel
<1> QED
  BY <1>3

\* What holds before the first round and is kept by each holds after all.
LEMMA Rounds ==
  ASSUME NEW N \in Nat, NEW T, 0 \in T,
         \A n \in 1 .. N : n - 1 \in T => n \in T
  PROVE  \A n \in 0 .. N : n \in T
<1> SUFFICES ASSUME NEW n \in 0 .. N, n \notin T PROVE FALSE
  OBVIOUS
<1> DEFINE Missing == {k \in 0 .. N : k \notin T}
<1>1. Missing \subseteq Nat /\ n \in Missing
  OBVIOUS
<1>2. PICK m \in Missing : \A k \in Missing : m <= k
  <2> HIDE DEF Missing
  <2> QED
    BY <1>1, LeastNumber
<1>3. m \in 1 .. N /\ m - 1 \in 0 .. N
  BY <1>2
<1>4. m - 1 \in T
  BY <1>2, <1>3
<1> QED
  BY <1>2, <1>3, <1>4

\* A map that is one to one keeps the size.
LEMMA SameSize ==
  ASSUME NEW S, IsFiniteSet(S), NEW f, DOMAIN f = S,
         \A a, b \in S : f[a] = f[b] => a = b
  PROVE  LET T == {f[a] : a \in S} IN IsFiniteSet(T) /\ Cardinality(T) = Cardinality(S)
<1> DEFINE T == {f[a] : a \in S}
           g == [a \in S |-> f[a]]
<1>1. g \in Surjection(S, T) /\ g \in Injection(S, T)
  BY DEF Surjection, Injection, IsInjective
<1> HIDE DEF g, T
<1>2. IsFiniteSet(T) /\ Cardinality(T) = Cardinality(S)
  BY <1>1, FS_Surjection
<1> QED
  BY <1>2 DEF T

\* Any map gives no more than it takes.
LEMMA ImageFinite ==
  ASSUME NEW S, IsFiniteSet(S), NEW f, DOMAIN f = S
  PROVE  LET T == {f[a] : a \in S} IN IsFiniteSet(T) /\ Cardinality(T) <= Cardinality(S)
<1> DEFINE T == {f[a] : a \in S}
           g == [a \in S |-> f[a]]
<1>1. g \in Surjection(S, T)
  BY DEF Surjection
<1> HIDE DEF g, T
<1>2. IsFiniteSet(T) /\ Cardinality(T) <= Cardinality(S)
  BY <1>1, FS_Surjection
<1> QED
  BY <1>2 DEF T

-----------------------------------------------------------------------------
(* The tasks.  Counting the equal candidates before each one tells them    *)
(* apart, and numbers the equal ones from zero.                            *)

EqualBefore(cands, i) == {j \in 1 .. i - 1 : cands[j] = cands[i]}

LEMMA OrdinalsGrow ==
  ASSUME NEW cands, NEW N \in Nat
  PROVE  /\ \A i \in 1 .. N : IsFiniteSet(EqualBefore(cands, i)) /\ Cardinality(EqualBefore(cands, i)) \in Nat
         /\ \A i \in 1 .. N : \A k \in 1 .. N : i < k /\ cands[i] = cands[k] =>
              Cardinality(EqualBefore(cands, i)) < Cardinality(EqualBefore(cands, k))
<1>1. ASSUME NEW i \in 1 .. N
      PROVE  IsFiniteSet(EqualBefore(cands, i)) /\ Cardinality(EqualBefore(cands, i)) \in Nat
  <2>1. IsFiniteSet(1 .. i - 1)
    BY FS_Interval
  <2>2. EqualBefore(cands, i) \in SUBSET (1 .. i - 1)
    BY DEF EqualBefore
  <2>3. IsFiniteSet(EqualBefore(cands, i))
    BY <2>1, <2>2, FS_Subset
  <2> QED
    BY <2>3, FS_CardinalityType
<1>2. ASSUME NEW i \in 1 .. N, NEW k \in 1 .. N, i < k, cands[i] = cands[k]
      PROVE  Cardinality(EqualBefore(cands, i)) < Cardinality(EqualBefore(cands, k))
  <2>1. /\ EqualBefore(cands, i) \in SUBSET EqualBefore(cands, k)
        /\ i \in EqualBefore(cands, k) /\ i \notin EqualBefore(cands, i)
    BY <1>2 DEF EqualBefore
  <2>2. /\ Cardinality(EqualBefore(cands, i)) <= Cardinality(EqualBefore(cands, k))
        /\ Cardinality(EqualBefore(cands, i)) # Cardinality(EqualBefore(cands, k))
    BY <1>1, <2>1, FS_Subset
  <2> QED
    BY <1>1, <2>2
<1> QED
  BY <1>1, <1>2

LEMMA OrdinalsDiffer ==
  ASSUME NEW cands, NEW N \in Nat, NEW i \in 1 .. N, NEW k \in 1 .. N, cands[i] = cands[k],
         Cardinality(EqualBefore(cands, i)) = Cardinality(EqualBefore(cands, k))
  PROVE  i = k
<1>1. Cardinality(EqualBefore(cands, i)) \in Nat
  BY OrdinalsGrow
<1>2. ~(i < k) /\ ~(k < i)
  BY <1>1, OrdinalsGrow
<1> QED
  BY <1>2

OrdinalsOf(cands, N, c) ==
  {Cardinality(EqualBefore(cands, i)) : i \in {i \in 1 .. N : cands[i] = c}}

LEMMA OrdinalsCount ==
  ASSUME NEW cands, NEW N \in Nat, NEW c
  PROVE  OrdinalsOf(cands, N, c) = 0 .. Cardinality(OrdinalsOf(cands, N, c)) - 1
<1> DEFINE P == {i \in 1 .. N : cands[i] = c}
           ord == [i \in P |-> Cardinality(EqualBefore(cands, i))]
           O == {Cardinality(EqualBefore(cands, i)) : i \in P}
<1>1. IsFiniteSet(P) /\ Cardinality(P) \in Nat
  <2>1. IsFiniteSet(1 .. N) /\ P \in SUBSET (1 .. N)
    BY FS_Interval
  <2> HIDE DEF P
  <2>2. IsFiniteSet(P)
    BY <2>1, FS_Subset
  <2> QED
    BY <2>2, FS_CardinalityType
<1>2. \A i \in P : i \in 1 .. N /\ cands[i] = c
  OBVIOUS
<1>3. \A i \in P : EqualBefore(cands, i) \in SUBSET P /\ i \notin EqualBefore(cands, i)
  BY DEF EqualBefore
<1> HIDE DEF P
<1>4. \A i \in P : Cardinality(EqualBefore(cands, i)) \in 0 .. Cardinality(P) - 1
  <2> TAKE i \in P
  <2>1. Cardinality(EqualBefore(cands, i)) \in Nat
    BY <1>2, OrdinalsGrow
  <2>2. EqualBefore(cands, i) \in SUBSET P /\ EqualBefore(cands, i) # P
    BY <1>3
  <2>3. /\ Cardinality(EqualBefore(cands, i)) <= Cardinality(P)
        /\ Cardinality(EqualBefore(cands, i)) # Cardinality(P)
    BY <1>1, <2>2, FS_Subset
  <2> QED
    BY <1>1, <2>1, <2>3
<1>5. ord \in Injection(P, 0 .. Cardinality(P) - 1)
  <2>1. ord \in [P -> 0 .. Cardinality(P) - 1]
    BY <1>4
  <2>2. \A i, k \in P : ord[i] = ord[k] => i = k
    BY <1>2, OrdinalsDiffer
  <2> HIDE DEF ord
  <2> QED
    BY <2>1, <2>2 DEF Injection, IsInjective
<1>6. /\ IsFiniteSet(0 .. Cardinality(P) - 1)
      /\ Cardinality(0 .. Cardinality(P) - 1) = Cardinality(P)
  BY <1>1, FS_Interval
<1>7. ord \in Surjection(P, 0 .. Cardinality(P) - 1)
  <2> HIDE DEF ord
  <2> QED
    BY <1>5, <1>6, FS_Injection
<1>8. O = 0 .. Cardinality(P) - 1
  <2>1. \A n \in 0 .. Cardinality(P) - 1 : \E i \in P : ord[i] = n
    BY <1>7 DEF Surjection
  <2> QED
    BY <1>4, <2>1
<1>9. Cardinality(O) = Cardinality(P)
  BY <1>6, <1>8
<1> QED
  BY <1>8, <1>9 DEF OrdinalsOf, P

-----------------------------------------------------------------------------
(* The loop.  Whatever the order in which it takes the instances, what it  *)
(* has is told by the set of records it has made.                          *)

ResultOf(e, task) == CHOOSE r \in ToSet(e.results) : r.task = task

RecordOf(e, task) ==
  [cand |-> task.cand, ordinal |-> task.ordinal, result |-> ResultOf(e, task),
   disposition |-> ResultOf(e, task).disposition, severity |-> ResultOf(e, task).severity]

ConfirmedIn(S) == {r \in S : r.disposition = "confirmed"}
CausesIn(S) == {r.cand.root : r \in ConfirmedIn(S)}
OfCause(S, x) == {r \in ConfirmedIn(S) : r.cand.root = x}

\* The group of a root cause, and what it has of the records of the cause.
ProjectedFrom(R) == {Projected(r) : r \in R}
TextsFrom(R) == {r.result.text : r \in R}
GroupFrom(x, R) ==
  [root |-> x, instances |-> ProjectedFrom(R), proof |-> TextsFrom(R),
   severity |-> IF \E i \in ProjectedFrom(R) : i.severity = "Important"
                THEN "Important" ELSE "Nit"]
GroupOf(S, x) == GroupFrom(x, OfCause(S, x))

Groups(S) == {GroupOf(S, x) : x \in CausesIn(S)}
ManualIn(S) == {Named(r) : r \in {r \in S : r.disposition = "needs_manual_review"}}

Grouping(S) == [records |-> S, manual |-> ManualIn(S), groups |-> Groups(S)]

LEMMA GroupingEmpty == Grouping({}) = NoneDisposed
<1>1. ManualIn({}) = {} /\ Groups({}) = {}
  BY DEF ManualIn, Groups, CausesIn, ConfirmedIn
<1> QED
  BY <1>1 DEF Grouping, NoneDisposed

\* A confirmed record goes to the group of its cause.
LEMMA EnrolledGroups ==
  ASSUME NEW S, NEW new, new.disposition = "confirmed"
  PROVE  Enrolled(Groups(S), new.cand.root, Projected(new), new.result.text) = Groups(S \cup {new})
<1> DEFINE x == new.cand.root
           T == S \cup {new}
           mine == {g \in Groups(S) : g.root = x}
           held == (UNION {g.instances : g \in mine})
           said == (UNION {g.proof : g \in mine})
           instances == held \cup {Projected(new)}
           grown == [root |-> x, instances |-> instances, proof |-> said \cup {new.result.text},
                     severity |-> IF \E i \in instances : i.severity = "Important"
                                  THEN "Important" ELSE "Nit"]
<1>1. Enrolled(Groups(S), x, Projected(new), new.result.text) = (Groups(S) \ mine) \cup {grown}
  BY DEF Enrolled
<1>2. \A y : GroupOf(S, y).root = y
  BY DEF GroupOf, GroupFrom
<1>3. mine = IF x \in CausesIn(S) THEN {GroupOf(S, x)} ELSE {}
  BY <1>2 DEF Groups
<1>4. x \notin CausesIn(S) => OfCause(S, x) = {}
  BY DEF CausesIn, OfCause
<1>5. held = ProjectedFrom(OfCause(S, x)) /\ said = TextsFrom(OfCause(S, x))
  <2> HIDE DEF mine, x
  <2>1. CASE x \in CausesIn(S)
    <3>1. mine = {GroupOf(S, x)}
      BY <1>3, <2>1
    <3>2. /\ GroupOf(S, x).instances = ProjectedFrom(OfCause(S, x))
          /\ GroupOf(S, x).proof = TextsFrom(OfCause(S, x))
      BY DEF GroupOf, GroupFrom
    <3> QED
      BY <3>1, <3>2
  <2>2. CASE x \notin CausesIn(S)
    <3>1. mine = {} /\ OfCause(S, x) = {}
      BY <1>3, <1>4, <2>2
    <3> QED
      BY <3>1 DEF ProjectedFrom, TextsFrom
  <2> QED
    BY <2>1, <2>2
<1>6. OfCause(T, x) = OfCause(S, x) \cup {new}
  BY DEF OfCause, ConfirmedIn
<1>7. grown = GroupOf(T, x)
  <2> HIDE DEF mine, x, T, held, said
  <2>1. ProjectedFrom(OfCause(T, x)) = ProjectedFrom(OfCause(S, x)) \cup {Projected(new)}
    BY <1>6 DEF ProjectedFrom
  <2>2. TextsFrom(OfCause(T, x)) = TextsFrom(OfCause(S, x)) \cup {new.result.text}
    BY <1>6 DEF TextsFrom
  <2>3. instances = ProjectedFrom(OfCause(T, x))
    BY <1>5, <2>1
  <2>4. said \cup {new.result.text} = TextsFrom(OfCause(T, x))
    BY <1>5, <2>2
  <2> HIDE DEF instances
  <2> QED
    BY <2>3, <2>4 DEF GroupOf, GroupFrom
<1>8. \A y : y # x => OfCause(T, y) = OfCause(S, y)
  BY DEF OfCause, ConfirmedIn
<1>9. \A y : y # x => GroupOf(T, y) = GroupOf(S, y)
  <2> HIDE DEF T, x
  <2> QED
    BY <1>8 DEF GroupOf
<1>10. CausesIn(T) = CausesIn(S) \cup {x}
  BY DEF CausesIn, ConfirmedIn
<1>11. Groups(T) = (Groups(S) \ mine) \cup {GroupOf(T, x)}
  <2> HIDE DEF x, T
  <2>1. \A g \in Groups(T) : g \in (Groups(S) \ mine) \cup {GroupOf(T, x)}
    BY <1>2, <1>9, <1>10 DEF Groups
  <2>2. \A g \in Groups(S) \ mine : g \in Groups(T)
    BY <1>2, <1>9, <1>10 DEF Groups
  <2>3. GroupOf(T, x) \in Groups(T)
    BY <1>10 DEF Groups
  <2> QED
    BY <2>1, <2>2, <2>3
<1> QED
  BY <1>1, <1>7, <1>11

LEMMA DisposeGroups ==
  ASSUME NEW e, NEW S, NEW task
  PROVE  Dispose(e, Grouping(S), task) = Grouping(S \cup {RecordOf(e, task)})
<1> DEFINE new == RecordOf(e, task)
           r == ResultOf(e, task)
           T == S \cup {new}
           named == [cand |-> task.cand, ordinal |-> task.ordinal, result |-> r]
           instance == [cand |-> task.cand, ordinal |-> task.ordinal, result |-> r,
                        severity |-> r.severity]
<1>1. /\ new.cand = task.cand /\ new.ordinal = task.ordinal /\ new.result = r
      /\ new.disposition = r.disposition /\ new.severity = r.severity
  BY DEF RecordOf
<1>2. named = Named(new) /\ instance = Projected(new)
  BY <1>1 DEF Named, Projected
<1>3. Dispose(e, Grouping(S), task)
        = [records |-> S \cup {new},
           manual |-> IF r.disposition = "needs_manual_review" THEN ManualIn(S) \cup {named}
                      ELSE ManualIn(S),
           groups |-> IF r.disposition = "confirmed"
                      THEN Enrolled(Groups(S), task.cand.root, instance, r.text)
                      ELSE Groups(S)]
  BY DEF Dispose, Grouping, RecordOf, ResultOf, RootOf
<1> HIDE DEF new, r, named, instance
<1>4. ManualIn(T) = IF r.disposition = "needs_manual_review" THEN ManualIn(S) \cup {named} ELSE ManualIn(S)
  BY <1>1, <1>2 DEF ManualIn
<1>5. Groups(T) = IF r.disposition = "confirmed"
                  THEN Enrolled(Groups(S), task.cand.root, instance, r.text) ELSE Groups(S)
  <2>1. CASE r.disposition = "confirmed"
    <3>1. Enrolled(Groups(S), new.cand.root, Projected(new), new.result.text) = Groups(T)
      BY <1>1, <2>1, EnrolledGroups
    <3> QED
      BY <1>1, <1>2, <2>1, <3>1
  <2>2. CASE r.disposition # "confirmed"
    <3>1. ConfirmedIn(T) = ConfirmedIn(S)
      BY <1>1, <2>2 DEF ConfirmedIn
    <3>2. CausesIn(T) = CausesIn(S) /\ \A x : OfCause(T, x) = OfCause(S, x)
      BY <3>1 DEF CausesIn, OfCause
    <3> HIDE DEF T
    <3>3. \A x : GroupOf(T, x) = GroupOf(S, x)
      BY <3>2 DEF GroupOf
    <3> QED
      BY <2>2, <3>2, <3>3 DEF Groups
  <2> QED
    BY <2>1, <2>2
<1> QED
  BY <1>3, <1>4, <1>5 DEF Grouping, new

TasksOf(e) == IF e.reviews = <<>> THEN <<>> ELSE Instances(e.reviews[1].cands)
RecordsOf(e) == {RecordOf(e, TasksOf(e)[i]) : i \in 1 .. Len(TasksOf(e))}

Disposing(e, disposed) ==
  disposed = [n \in 0 .. Len(TasksOf(e)) |->
                IF n = 0 THEN NoneDisposed ELSE Dispose(e, disposed[n - 1], TasksOf(e)[n])]

\* What the loop yields: a group for each cause that a record confirms.
LEMMA DisposedGroups ==
  ASSUME NEW e, Len(TasksOf(e)) \in Nat
  PROVE  Disposed(e) = Grouping(RecordsOf(e))
<1> DEFINE N == Len(TasksOf(e))
           Made(n) == {RecordOf(e, TasksOf(e)[i]) : i \in 1 .. n}
           f == [n \in 0 .. N |-> Grouping(Made(n))]
<1>1. Made(0) = {}
  OBVIOUS
<1>2. \A n \in 1 .. N : Made(n) = Made(n - 1) \cup {RecordOf(e, TasksOf(e)[n])}
  <2> TAKE n \in 1 .. N
  <2>1. 1 .. n = (1 .. n - 1) \cup {n}
    OBVIOUS
  <2> QED
    BY <2>1
<1> HIDE DEF Made
<1>3. \A n \in 1 .. N : Grouping(Made(n)) = Dispose(e, Grouping(Made(n - 1)), TasksOf(e)[n])
  BY <1>2, DisposeGroups
<1>4. Grouping(Made(0)) = NoneDisposed
  BY <1>1, GroupingEmpty
<1>5. Disposing(e, f)
  <2>1. \A n \in 0 .. N : f[n] = IF n = 0 THEN NoneDisposed ELSE Dispose(e, f[n - 1], TasksOf(e)[n])
    <3> TAKE n \in 0 .. N
    <3>1. CASE n = 0
      BY <1>4, <3>1
    <3>2. CASE n # 0
      <4>1. n \in 1 .. N /\ n - 1 \in 0 .. N
        BY <3>2
      <4>2. f[n] = Grouping(Made(n)) /\ f[n - 1] = Grouping(Made(n - 1))
        BY <4>1
      <4> HIDE DEF f
      <4> QED
        BY <1>3, <3>2, <4>1, <4>2
    <3> QED
      BY <3>1, <3>2
  <2>2. f = [n \in 0 .. N |-> f[n]]
    OBVIOUS
  <2> HIDE DEF f
  <2> QED
    BY <2>1, <2>2 DEF Disposing
<1> DEFINE c == CHOOSE disposed : Disposing(e, disposed)
<1>6. Disposing(e, c)
  <2> HIDE DEF f
  <2> QED
    BY <1>5
<1>7. Disposed(e) = c[N]
  BY DEF Disposed, Disposing, TasksOf
<1> HIDE DEF c, f
<1>8. c[0] = NoneDisposed /\ \A n \in 1 .. N : c[n] = Dispose(e, c[n - 1], TasksOf(e)[n])
  BY <1>6 DEF Disposing
<1> DEFINE T == {n \in 0 .. N : c[n] = Grouping(Made(n))}
<1>9. 0 \in T
  BY <1>4, <1>8
<1>10. ASSUME NEW n \in 1 .. N, n - 1 \in T PROVE n \in T
  <2>1. c[n] = Dispose(e, Grouping(Made(n - 1)), TasksOf(e)[n])
    BY <1>8, <1>10
  <2>2. c[n] = Grouping(Made(n))
    BY <1>3, <2>1
  <2> QED
    BY <2>2
<1>11. \A n \in 0 .. N : n \in T
  <2> HIDE DEF T
  <2> QED
    BY <1>9, <1>10, Rounds
<1>12. c[N] = Grouping(Made(N))
  BY <1>11
<1> QED
  BY <1>7, <1>12 DEF RecordsOf, Made

-----------------------------------------------------------------------------
(* The evidence that fits.                                                 *)

Tasks == [cand : Candidates, ordinal : Nat]
Results ==
  {[task |-> t, exec |-> x, disposition |-> a.disposition, severity |-> a.severity,
    text |-> a.text, bound |-> a.bound] : t \in Tasks, x \in Executions, a \in Answers}

EvidenceTyped(e) ==
  /\ e.target \in Targets
  /\ e.reviews \in Seq([cands : Seq(Candidates), exec : Executions, covered : BOOLEAN])
  /\ e.results \in Seq(Results)

LEMMA ResultsAnswer ==
  ASSUME NEW r \in Results
  PROVE  r.disposition \in Dispositions /\ ((r.disposition = "confirmed") <=> (r.severity \in Severities))
BY ProjectionAssumption DEF Results

\* What Matched says of the tasks, the one of each candidate and its result.
Matching(e, cands) ==
  /\ Len(cands) \in Nat /\ Len(e.results) = Len(cands)
  /\ TasksOf(e) = Instances(cands) /\ Len(TasksOf(e)) = Len(cands)
  /\ \A i \in 1 .. Len(cands) :
       TasksOf(e)[i] = [cand |-> cands[i], ordinal |-> Cardinality(EqualBefore(cands, i))]
  /\ \A i \in 1 .. Len(cands) :
       ResultOf(e, TasksOf(e)[i]) \in ToSet(e.results) /\ ResultOf(e, TasksOf(e)[i]).task = TasksOf(e)[i]
  /\ \A i, k \in 1 .. Len(cands) : e.results[i].task = e.results[k].task => i = k

LEMMA TasksMatched ==
  ASSUME NEW e, EvidenceTyped(e), NEW n, EvidenceFits(e, n), e.target.reviewable # {}
  PROVE  Matching(e, e.reviews[1].cands) /\ Len(e.reviews) = 1
<1> DEFINE cands == e.reviews[1].cands
           tasks == Instances(cands)
<1>1. Len(e.reviews) = 1 /\ Matched(tasks, e)
  BY DEF EvidenceFits
<1>2. cands \in Seq(Candidates) /\ Len(cands) \in Nat /\ DOMAIN cands = 1 .. Len(cands)
  <2> DEFINE R == [cands : Seq(Candidates), exec : Executions, covered : BOOLEAN]
  <2>3. e.reviews \in Seq(R)
    BY DEF EvidenceTyped
  <2> HIDE DEF R
  <2>4. e.reviews[1] \in R
    BY <1>1, <2>3
  <2>1. e.reviews[1] \in [cands : Seq(Candidates), exec : Executions, covered : BOOLEAN]
    BY <2>4 DEF R
  <2>2. cands \in Seq(Candidates)
    BY <2>1
  <2> QED
    BY <2>2
<1> HIDE DEF cands
<1>3. TasksOf(e) = tasks
  BY <1>1 DEF TasksOf, cands
<1>4. \A i \in 1 .. Len(cands) :
        tasks[i] = [cand |-> cands[i], ordinal |-> Cardinality(EqualBefore(cands, i))]
  BY <1>2 DEF Instances, Instance, EqualBefore
<1>5. Len(tasks) = Len(cands) /\ DOMAIN tasks = 1 .. Len(cands)
  BY <1>2 DEF Instances
<1> HIDE DEF tasks
<1>6. /\ Len(e.results) = Len(cands)
      /\ IsInjective([i \in DOMAIN e.results |-> e.results[i].task])
      /\ \A i \in 1 .. Len(cands) : \E r \in ToSet(e.results) : r.task = tasks[i]
  BY <1>1, <1>5 DEF Matched
<1>7. DOMAIN e.results = 1 .. Len(cands)
  BY <1>6 DEF EvidenceTyped
<1>8. \A i, k \in 1 .. Len(cands) : e.results[i].task = e.results[k].task => i = k
  BY <1>6, <1>7 DEF IsInjective
<1>9. \A i \in 1 .. Len(cands) :
        ResultOf(e, tasks[i]) \in ToSet(e.results) /\ ResultOf(e, tasks[i]).task = tasks[i]
  <2> TAKE i \in 1 .. Len(cands)
  <2>1. PICK r \in ToSet(e.results) : r.task = tasks[i]
    BY <1>6
  <2> QED
    BY <2>1 DEF ResultOf
<1>10. Matching(e, cands)
  BY <1>2, <1>3, <1>4, <1>5, <1>6, <1>8, <1>9 DEF Matching, tasks
<1> QED
  BY <1>1, <1>10 DEF cands

\* Each result is that of a candidate.
LEMMA ResultsTaken ==
  ASSUME NEW e, EvidenceTyped(e), NEW cands, Matching(e, cands)
  PROVE  /\ \A i, k \in 1 .. Len(cands) :
              TasksOf(e)[i] = TasksOf(e)[k] \/ ResultOf(e, TasksOf(e)[i]) = ResultOf(e, TasksOf(e)[k])
                => i = k
         /\ ToSet(e.results) = {ResultOf(e, TasksOf(e)[i]) : i \in 1 .. Len(cands)}
         /\ IsFiniteSet(ToSet(e.results)) /\ Cardinality(ToSet(e.results)) = Len(cands)
<1> DEFINE N == Len(cands)
           tasks == TasksOf(e)
           at == [i \in 1 .. N |-> CHOOSE k \in 1 .. N : e.results[k] = ResultOf(e, tasks[i])]
<1>1. N \in Nat /\ DOMAIN e.results = 1 .. N
  BY DEF Matching, EvidenceTyped
<1>2. ToSet(e.results) = {e.results[k] : k \in 1 .. N}
  BY <1>1 DEF ToSet
<1>3. \A i \in 1 .. N : ResultOf(e, tasks[i]) \in ToSet(e.results) /\ ResultOf(e, tasks[i]).task = tasks[i]
  BY DEF Matching
<1>4. \A i, k \in 1 .. N : tasks[i] = tasks[k] => i = k
  <2> TAKE i, k \in 1 .. N
  <2> HAVE tasks[i] = tasks[k]
  <2> DEFINE count(j) == Cardinality(EqualBefore(cands, j))
  <2>1. \A j \in 1 .. N : tasks[j] = [cand |-> cands[j], ordinal |-> count(j)]
    BY DEF Matching
  <2> HIDE DEF count, tasks
  <2>2. \A j \in 1 .. N : tasks[j].cand = cands[j] /\ tasks[j].ordinal = count(j)
    <3> TAKE j \in 1 .. N
    <3>1. tasks[j] = [cand |-> cands[j], ordinal |-> count(j)]
      BY <2>1
    <3> QED
      BY <3>1
  <2>3. cands[i] = cands[k] /\ Cardinality(EqualBefore(cands, i)) = Cardinality(EqualBefore(cands, k))
    BY <2>2 DEF count
  <2> QED
    BY <1>1, <2>3, OrdinalsDiffer
<1>5. \A i, k \in 1 .. N : ResultOf(e, tasks[i]) = ResultOf(e, tasks[k]) => i = k
  BY <1>3, <1>4
<1>6. \A i \in 1 .. N : at[i] \in 1 .. N /\ e.results[at[i]] = ResultOf(e, tasks[i])
  <2> TAKE i \in 1 .. N
  <2>1. PICK k \in 1 .. N : e.results[k] = ResultOf(e, tasks[i])
    BY <1>2, <1>3
  <2> QED
    BY <2>1
<1>7. at \in Injection(1 .. N, 1 .. N)
  <2>1. at \in [1 .. N -> 1 .. N]
    BY <1>6
  <2> HIDE DEF at
  <2>2. \A i, k \in 1 .. N : at[i] = at[k] => i = k
    BY <1>5, <1>6
  <2> QED
    BY <2>1, <2>2 DEF Injection, IsInjective
<1> HIDE DEF at
<1>8. IsFiniteSet(1 .. N) /\ Cardinality(1 .. N) = N
  BY <1>1, FS_Interval
<1>9. at \in Surjection(1 .. N, 1 .. N)
  BY <1>7, <1>8, FS_Injection
<1>10. \A k \in 1 .. N : \E i \in 1 .. N : e.results[k] = ResultOf(e, tasks[i])
  <2> TAKE k \in 1 .. N
  <2>1. PICK i \in 1 .. N : at[i] = k
    BY <1>9 DEF Surjection
  <2> QED
    BY <1>6, <2>1
<1>11. ToSet(e.results) = {ResultOf(e, tasks[i]) : i \in 1 .. N}
  <2> HIDE DEF tasks
  <2>1. \A r \in ToSet(e.results) : \E i \in 1 .. N : r = ResultOf(e, tasks[i])
    BY <1>2, <1>10
  <2> QED
    BY <1>3, <2>1
<1>12. IsFiniteSet(ToSet(e.results)) /\ Cardinality(ToSet(e.results)) = N
  <2> DEFINE f == [i \in 1 .. N |-> ResultOf(e, tasks[i])]
  <2>1. DOMAIN f = 1 .. N /\ \A i, k \in 1 .. N : f[i] = f[k] => i = k
    BY <1>5
  <2>2. ToSet(e.results) = {f[i] : i \in 1 .. N}
    BY <1>11
  <2> HIDE DEF f
  <2> QED
    BY <1>8, <2>1, <2>2, SameSize
<1> QED
  BY <1>4, <1>5, <1>11, <1>12

\* The size of a derivation, and what its records are like.
Raw(e) == IF e.reviews = <<>> THEN 0 ELSE Len(e.reviews[1].cands)

RecordShaped(r) ==
  /\ r = [cand |-> r.cand, ordinal |-> r.ordinal, result |-> r.result,
          disposition |-> r.disposition, severity |-> r.severity]
  /\ r.cand = r.result.task.cand /\ r.ordinal = r.result.task.ordinal
  /\ r.disposition = r.result.disposition /\ r.severity = r.result.severity
  /\ r.disposition \in Dispositions
  /\ (r.disposition = "confirmed") <=> (r.severity \in Severities)

Numbered(S, r) ==
  LET ordinals == {s.ordinal : s \in {s \in S : s.cand = r.cand}}
  IN ordinals = 0 .. Cardinality(ordinals) - 1

RecordsSound(S, e) ==
  /\ IsFiniteSet(S) /\ Cardinality(S) = Raw(e) /\ Raw(e) \in Nat
  /\ Len(e.results) = Raw(e) /\ Cardinality(ToSet(e.results)) = Raw(e)
  /\ \A r \in S : RecordShaped(r) /\ Numbered(S, r)
  /\ \A r, s \in S : r # s => Pair(r) # Pair(s) /\ r.result # s.result
  /\ {r.result : r \in S} = ToSet(e.results)

LEMMA RecordsMatched ==
  ASSUME NEW e, EvidenceTyped(e), NEW cands, Matching(e, cands), Raw(e) = Len(cands)
  PROVE  RecordsSound(RecordsOf(e), e)
<1> DEFINE N == Len(cands)
           tasks == TasksOf(e)
           S == RecordsOf(e)
           record == [i \in 1 .. N |-> RecordOf(e, tasks[i])]
           count(i) == Cardinality(EqualBefore(cands, i))
<1>1. N \in Nat /\ Len(tasks) = N /\ IsFiniteSet(1 .. N) /\ Cardinality(1 .. N) = N
  <2>1. N \in Nat /\ Len(tasks) = N
    BY DEF Matching
  <2> HIDE DEF N
  <2> QED
    BY <2>1, FS_Interval
<1>2. DOMAIN record = 1 .. N /\ S = {record[i] : i \in 1 .. N}
  BY <1>1 DEF RecordsOf
<1>3. \A i \in 1 .. N : /\ ResultOf(e, tasks[i]) \in ToSet(e.results)
                        /\ ResultOf(e, tasks[i]).task = tasks[i]
                        /\ tasks[i] = [cand |-> cands[i], ordinal |-> count(i)]
  BY DEF Matching
<1>4. \A i \in 1 .. N : /\ tasks[i].cand = cands[i] /\ tasks[i].ordinal = count(i)
                        /\ record[i].cand = cands[i] /\ record[i].ordinal = count(i)
                        /\ record[i].result = ResultOf(e, tasks[i])
  <2> TAKE i \in 1 .. N
  <2>1. tasks[i] = [cand |-> cands[i], ordinal |-> count(i)]
    BY <1>3
  <2>2. record[i] = RecordOf(e, tasks[i])
    OBVIOUS
  <2> HIDE DEF record, tasks, count
  <2>3. tasks[i].cand = cands[i] /\ tasks[i].ordinal = count(i)
    BY <2>1
  <2> QED
    BY <2>2, <2>3 DEF RecordOf
<1>5. \A i \in 1 .. N : RecordShaped(record[i])
  <2> TAKE i \in 1 .. N
  <2> DEFINE t == tasks[i]
             res == ResultOf(e, t)
  <2>1. res \in Results
    <3>1. DOMAIN e.results = 1 .. Len(e.results) /\ \A k \in 1 .. Len(e.results) : e.results[k] \in Results
      BY DEF EvidenceTyped
    <3>2. res \in ToSet(e.results)
      BY <1>3
    <3> HIDE DEF res
    <3> QED
      BY <3>1, <3>2 DEF ToSet
  <2>2. record[i] = RecordOf(e, t) /\ res.task = t
    BY <1>3
  <2> HIDE DEF t, record
  <2>3. res.disposition \in Dispositions /\ ((res.disposition = "confirmed") <=> (res.severity \in Severities))
    BY <2>1, ResultsAnswer
  <2> QED
    BY <2>2, <2>3 DEF RecordOf, RecordShaped
<1>6. /\ \A i, k \in 1 .. N : tasks[i] = tasks[k] \/ ResultOf(e, tasks[i]) = ResultOf(e, tasks[k]) => i = k
      /\ ToSet(e.results) = {ResultOf(e, tasks[i]) : i \in 1 .. N}
      /\ Cardinality(ToSet(e.results)) = N
  BY ResultsTaken
<1> HIDE DEF S, tasks, record, count
<1>7. \A i, k \in 1 .. N : Pair(record[i]) = Pair(record[k]) \/ record[i].result = record[k].result => i = k
  <2> TAKE i, k \in 1 .. N
  <2>1. ASSUME record[i].result = record[k].result PROVE i = k
    BY <1>4, <1>6, <2>1
  <2>2. ASSUME Pair(record[i]) = Pair(record[k]) PROVE i = k
    <3>1. Pair(record[i]).cand = Pair(record[k]).cand /\ Pair(record[i]).ordinal = Pair(record[k]).ordinal
      BY <2>2
    <3>2. record[i].cand = record[k].cand /\ record[i].ordinal = record[k].ordinal
      BY <3>1 DEF Pair
    <3>3. cands[i] = cands[k] /\ count(i) = count(k)
      BY <1>4, <3>2
    <3>4. tasks[i] = tasks[k]
      BY <1>3, <3>3
    <3> QED
      BY <1>6, <3>4
  <2> QED
    BY <2>1, <2>2
<1>8. IsFiniteSet(S) /\ Cardinality(S) = N
  <2>1. \A i, k \in 1 .. N : record[i] = record[k] => i = k
    BY <1>7
  <2> QED
    BY <1>1, <1>2, <2>1, SameSize
<1>9. \A r, s \in S : r # s => Pair(r) # Pair(s) /\ r.result # s.result
  BY <1>2, <1>7
<1>10. {r.result : r \in S} = ToSet(e.results)
  BY <1>2, <1>4, <1>6
<1>11. \A r \in S : Numbered(S, r)
  <2> TAKE r \in S
  <2> DEFINE c == r.cand
             P == {i \in 1 .. N : cands[i] = c}
             O == OrdinalsOf(cands, N, c)
             ordinals == {s.ordinal : s \in {s \in S : s.cand = c}}
  <2>1. O = 0 .. Cardinality(O) - 1
    BY <1>1, OrdinalsCount
  <2>2. O = {count(i) : i \in P}
    BY DEF count, OrdinalsOf
  <2> HIDE DEF O, c
  <2>3. \A n \in O : n \in ordinals
    <3> TAKE n \in O
    <3>1. PICK i \in P : n = count(i)
      BY <2>2
    <3>2. record[i] \in S /\ record[i].cand = c /\ record[i].ordinal = n
      BY <1>2, <1>4, <3>1
    <3> QED
      BY <3>2
  <2>4. \A n \in ordinals : n \in O
    <3> TAKE n \in ordinals
    <3>1. PICK s \in S : s.cand = c /\ n = s.ordinal
      OBVIOUS
    <3>2. PICK i \in 1 .. N : s = record[i]
      BY <1>2
    <3>3. i \in P /\ n = count(i)
      BY <1>4, <3>1, <3>2
    <3> QED
      BY <2>2, <3>3
  <2>5. ordinals = O
    BY <2>3, <2>4
  <2> HIDE DEF ordinals
  <2>6. ordinals = 0 .. Cardinality(ordinals) - 1
    BY <2>1, <2>5
  <2> QED
    BY <2>6 DEF Numbered, ordinals, c
<1>12. \A r \in S : RecordShaped(r)
  BY <1>2, <1>5
<1>13. Len(e.results) = N
  BY DEF Matching
<1> QED
  BY <1>1, <1>6, <1>8, <1>9, <1>10, <1>11, <1>12, <1>13 DEF RecordsSound, S

\* Evidence of either kind: a reviewer's, or that there was nothing to review.
LEMMA FittingSound ==
  ASSUME NEW e, EvidenceTyped(e), NEW n, EvidenceFits(e, n)
  PROVE  /\ RecordsSound(RecordsOf(e), e) /\ Len(TasksOf(e)) \in Nat
         /\ IsInjective(e.results) /\ IsInjective(e.reviews)
         /\ e.target.reviewable = {} => e.reviews = << >> /\ Raw(e) = 0 /\ ToSet(e.results) = {}
         /\ e.target.reviewable # {} => \E r : e.reviews = <<r>>
<1>1. CASE e.target.reviewable = {}
  <2>1. e.reviews = << >> /\ e.results = << >>
    BY <1>1 DEF EvidenceFits
  <2>2. ToSet(e.results) = {} /\ Raw(e) = 0 /\ TasksOf(e) = << >> /\ Len(e.results) = 0
    BY <2>1 DEF ToSet, Raw, TasksOf
  <2>3. RecordsOf(e) = {}
    BY <2>2 DEF RecordsOf
  <2>4. IsFiniteSet({}) /\ Cardinality({}) = 0
    BY FS_EmptySet
  <2>5. RecordsSound(RecordsOf(e), e)
    BY <2>2, <2>3, <2>4 DEF RecordsSound
  <2>6. IsInjective(e.results) /\ IsInjective(e.reviews)
    BY <2>1 DEF IsInjective
  <2> QED
    BY <1>1, <2>1, <2>2, <2>5, <2>6
<1>2. CASE e.target.reviewable # {}
  <2> DEFINE cands == e.reviews[1].cands
  <2>1. Matching(e, cands) /\ Len(e.reviews) = 1
    BY <1>2, TasksMatched
  <2>2. e.reviews = <<e.reviews[1]>> /\ e.reviews # << >>
    BY <2>1 DEF EvidenceTyped
  <2>3. Raw(e) = Len(cands)
    BY <2>2 DEF Raw
  <2> HIDE DEF cands
  <2>4. RecordsSound(RecordsOf(e), e)
    BY <2>1, <2>3, RecordsMatched
  <2>5. DOMAIN e.results = 1 .. Len(cands)
    BY <2>1 DEF Matching, EvidenceTyped
  <2>6. IsInjective(e.results)
    BY <2>1, <2>5 DEF Matching, IsInjective
  <2>7. IsInjective(e.reviews)
    BY <2>2 DEF IsInjective
  <2>8. Len(TasksOf(e)) \in Nat
    BY <2>1 DEF Matching
  <2> QED
    BY <1>2, <2>2, <2>4, <2>6, <2>7, <2>8
<1> QED
  BY <1>1, <1>2

-----------------------------------------------------------------------------
(* The groups that the records make.                                       *)

LEMMA SubsetsCount ==
  ASSUME NEW S, IsFiniteSet(S)
  PROVE  /\ IsFiniteSet(ConfirmedIn(S)) /\ Cardinality(ConfirmedIn(S)) \in Nat
         /\ \A d : CountOf(S, d) \in Nat
         /\ CountOf(S, "confirmed") = Cardinality(ConfirmedIn(S))
         /\ \A d : CountOf(S, d) = 0 <=> \A r \in S : r.disposition # d
<1>1. \A d : LET D == {r \in S : r.disposition = d} IN
        IsFiniteSet(D) /\ Cardinality(D) \in Nat /\ (Cardinality(D) = 0 <=> D = {})
  <2> TAKE d
  <2> DEFINE D == {r \in S : r.disposition = d}
  <2>1. D \in SUBSET S
    OBVIOUS
  <2> HIDE DEF D
  <2>2. IsFiniteSet(D)
    BY <2>1, FS_Subset
  <2> QED
    BY <2>2, FS_CardinalityType, FS_EmptySet DEF D
<1> QED
  BY <1>1 DEF ConfirmedIn, CountOf

LEMMA GroupHas ==
  ASSUME NEW S, NEW x
  PROVE  /\ GroupOf(S, x).root = x
         /\ GroupOf(S, x).instances = ProjectedFrom(OfCause(S, x))
         /\ GroupOf(S, x).proof = TextsFrom(OfCause(S, x))
         /\ GroupOf(S, x).severity
              = IF \E i \in GroupOf(S, x).instances : i.severity = "Important"
                THEN "Important" ELSE "Nit"
BY DEF GroupOf, GroupFrom

\* There is a group for each cause, and no more of them than confirmed records.
LEMMA GroupsCount ==
  ASSUME NEW S, IsFiniteSet(S)
  PROVE  /\ IsFiniteSet(Groups(S)) /\ Cardinality(Groups(S)) \in Nat
         /\ Cardinality(Groups(S)) <= Cardinality(ConfirmedIn(S))
         /\ Cardinality(Groups(S)) = Cardinality(CausesIn(S))
         /\ Cardinality(Groups(S)) = 0 <=> ConfirmedIn(S) = {}
<1> DEFINE K == ConfirmedIn(S)
           X == CausesIn(S)
           root == [r \in K |-> r.cand.root]
           group == [x \in X |-> GroupOf(S, x)]
<1>1. IsFiniteSet(K) /\ Cardinality(K) \in Nat
  BY SubsetsCount
<1>2. X = {root[r] : r \in K} /\ DOMAIN root = K
  BY DEF CausesIn
<1>3. Groups(S) = {group[x] : x \in X} /\ DOMAIN group = X
  BY DEF Groups
<1>4. \A x, y \in X : group[x] = group[y] => x = y
  BY GroupHas
<1>5. K = {} <=> X = {}
  BY <1>2
<1> HIDE DEF root, group, K, X
<1>6. IsFiniteSet(X) /\ Cardinality(X) <= Cardinality(K)
  BY <1>1, <1>2, ImageFinite
<1>7. IsFiniteSet(Groups(S)) /\ Cardinality(Groups(S)) = Cardinality(X)
  BY <1>3, <1>4, <1>6, SameSize
<1>8. Cardinality(X) \in Nat /\ (Cardinality(X) = 0 <=> X = {})
  BY <1>6, FS_CardinalityType, FS_EmptySet
<1> QED
  BY <1>5, <1>6, <1>7, <1>8 DEF K, X

LEMMA NamedProjected ==
  ASSUME NEW r
  PROVE  /\ Named(Projected(r)) = Named(r) /\ Projected(r).result = r.result
         /\ Projected(r).severity = r.severity /\ Named(r).cand = r.cand
         /\ Named(r).result = r.result /\ Pair(Named(r)) = Pair(r)
BY DEF Named, Projected, Pair

\* The instances of the groups, and the records they name.
LEMMA GroupsProject ==
  ASSUME NEW S
  PROVE  /\ UNION {f.instances : f \in Groups(S)} = {Projected(r) : r \in ConfirmedIn(S)}
         /\ UNION {Members(f) : f \in Groups(S)} = {Named(r) : r \in ConfirmedIn(S)}
<1>1. \A f \in Groups(S) : \A i \in f.instances : \E r \in ConfirmedIn(S) : i = Projected(r)
  <2> TAKE f \in Groups(S)
  <2>1. PICK x \in CausesIn(S) : f = GroupOf(S, x)
    BY DEF Groups
  <2>2. f.instances = ProjectedFrom(OfCause(S, x))
    BY <2>1, GroupHas
  <2> QED
    BY <2>2 DEF ProjectedFrom, OfCause
<1>2. \A r \in ConfirmedIn(S) : \E f \in Groups(S) : Projected(r) \in f.instances
  <2> TAKE r \in ConfirmedIn(S)
  <2>1. GroupOf(S, r.cand.root) \in Groups(S)
    BY DEF Groups, CausesIn
  <2>2. r \in OfCause(S, r.cand.root)
    BY DEF OfCause
  <2>3. Projected(r) \in GroupOf(S, r.cand.root).instances
    BY <2>2, GroupHas DEF ProjectedFrom
  <2> QED
    BY <2>1, <2>3
<1>3. UNION {f.instances : f \in Groups(S)} = {Projected(r) : r \in ConfirmedIn(S)}
  BY <1>1, <1>2
<1>4. \A f \in Groups(S) : \A m \in Members(f) : \E r \in ConfirmedIn(S) : m = Named(r)
  BY <1>1, NamedProjected DEF Members
<1>5. \A r \in ConfirmedIn(S) : \E f \in Groups(S) : Named(r) \in Members(f)
  BY <1>2, NamedProjected DEF Members
<1>6. UNION {Members(f) : f \in Groups(S)} = {Named(r) : r \in ConfirmedIn(S)}
  BY <1>4, <1>5
<1> QED
  BY <1>3, <1>6

LEMMA GroupsValid ==
  ASSUME NEW S, NEW e, RecordsSound(S, e)
  PROVE  /\ \A f \in Groups(S) :
              FindingValid(f) /\ \A i \in f.instances : i.result \in ToSet(e.results)
         /\ \A f, g \in Groups(S) : f # g => f.root # g.root /\ Members(f) \cap Members(g) = {}
         /\ Cardinality(UNION {Members(f) : f \in Groups(S)}) = Cardinality(ConfirmedIn(S))
<1>1. /\ IsFiniteSet(S)
      /\ \A r, s \in S : r # s => r.result # s.result
      /\ \A r \in S : r.result \in ToSet(e.results)
  BY DEF RecordsSound
<1>2. ConfirmedIn(S) \subseteq S /\ \A x : OfCause(S, x) \subseteq S
  BY DEF ConfirmedIn, OfCause
<1>3. ASSUME NEW f \in Groups(S)
      PROVE  FindingValid(f) /\ \A i \in f.instances : i.result \in ToSet(e.results)
  <2>1. PICK x \in CausesIn(S) : f = GroupOf(S, x)
    BY DEF Groups
  <2>2. PICK r \in OfCause(S, x) : TRUE
    BY DEF CausesIn, OfCause
  <2>3. f.instances = ProjectedFrom(OfCause(S, x)) /\ f.proof = TextsFrom(OfCause(S, x))
        /\ f.severity = IF \E i \in f.instances : i.severity = "Important" THEN "Important" ELSE "Nit"
    BY <2>1, GroupHas
  <2>4. f.instances # {} /\ f.proof # {}
    BY <2>2, <2>3 DEF ProjectedFrom, TextsFrom
  <2>5. \A i \in f.instances : \E s \in S : i = Projected(s)
    BY <1>2, <2>3 DEF ProjectedFrom
  <2>6. \A i, j \in f.instances : i # j => Named(i) # Named(j)
    <3> TAKE i, j \in f.instances
    <3> HAVE i # j
    <3>1. PICK r1 \in S, r2 \in S : i = Projected(r1) /\ j = Projected(r2)
      BY <2>5
    <3>2. r1.result # r2.result
      BY <1>1, <3>1
    <3>3. Named(i) = Named(r1) /\ Named(j) = Named(r2) /\ Named(r1).result = r1.result
          /\ Named(r2).result = r2.result
      BY <3>1, NamedProjected
    <3> QED
      BY <3>2, <3>3
  <2>7. \A i \in f.instances : i.result \in ToSet(e.results)
    BY <1>1, <2>5, NamedProjected
  <2> QED
    BY <2>3, <2>4, <2>6, <2>7 DEF FindingValid
<1>4. ASSUME NEW f \in Groups(S), NEW g \in Groups(S), f # g
      PROVE  f.root # g.root /\ Members(f) \cap Members(g) = {}
  <2>1. PICK x \in CausesIn(S), y \in CausesIn(S) : f = GroupOf(S, x) /\ g = GroupOf(S, y)
    BY DEF Groups
  <2>2. x # y /\ f.root = x /\ g.root = y
    BY <1>4, <2>1, GroupHas
  <2>3. \A z : \A m \in Members(GroupOf(S, z)) : m.cand.root = z
    <3> TAKE z
    <3> TAKE m \in Members(GroupOf(S, z))
    <3>1. PICK r \in OfCause(S, z) : m = Named(Projected(r))
      BY GroupHas DEF Members, ProjectedFrom
    <3>2. m.cand = r.cand /\ r.cand.root = z
      BY <3>1, NamedProjected DEF OfCause
    <3> QED
      BY <3>2
  <2> QED
    BY <2>1, <2>2, <2>3
<1>5. Cardinality(UNION {Members(f) : f \in Groups(S)}) = Cardinality(ConfirmedIn(S))
  <2> DEFINE K == ConfirmedIn(S)
             name == [r \in K |-> Named(r)]
  <2>1. IsFiniteSet(K)
    BY <1>1, SubsetsCount
  <2>2. DOMAIN name = K /\ {Named(r) : r \in K} = {name[r] : r \in K}
    OBVIOUS
  <2>3. \A r, s \in K : name[r] = name[s] => r = s
    BY <1>1, <1>2, NamedProjected
  <2> HIDE DEF K, name
  <2>4. Cardinality({name[r] : r \in K}) = Cardinality(K)
    BY <2>1, <2>2, <2>3, SameSize
  <2> QED
    BY <2>2, <2>4, GroupsProject DEF K
<1> QED
  BY <1>3, <1>4, <1>5

-----------------------------------------------------------------------------
(* What is derived is valid.                                               *)

\* A payload that says of the target and of the records S what there is.
Concludes(c, e, S) ==
  /\ c.coverage = [total |-> Cardinality(e.target.atoms),
                   reviewed |-> Cardinality(e.target.reviewable),
                   manual |-> Cardinality(e.target.atoms) - Cardinality(e.target.reviewable)]
  /\ c.raw = Raw(e) /\ c.verified = Len(e.results)
  /\ c.counts = [k \in Dispositions |-> CountOf(S, k)]
  /\ c.canonical = Cardinality(Groups(S)) /\ c.adapter = Cardinality(e.target.manual)
  /\ c.dispatched = (e.target.reviewable # {})
  /\ c.reviewer = ToSet(e.reviews) /\ c.verifiers = ToSet(e.results)
  /\ c.accepted = ToSet(e.reviews) \cup ToSet(e.results)
  /\ c.records = S /\ c.findings = Groups(S)
  /\ c.adapterItems = e.target.manual /\ c.verifierItems = ManualIn(S)
  /\ c.verdict = VerdictOf(Cardinality(e.target.manual) + CountOf(S, "needs_manual_review"),
                           Cardinality(Groups(S)))

LEMMA DerivedConcludes ==
  ASSUME NEW e, Len(TasksOf(e)) \in Nat
  PROVE  Concludes(Derived(e), e, RecordsOf(e))
<1> DEFINE S == RecordsOf(e)
<1>1. Disposed(e) = Grouping(S)
  BY DisposedGroups
<1>2. Disposed(e).records = S /\ Disposed(e).manual = ManualIn(S) /\ Disposed(e).groups = Groups(S)
  BY <1>1 DEF Grouping
<1> HIDE DEF S
<1> QED
  BY <1>2 DEF Derived, Concludes, Raw, S

\* A partition of the atoms is finite, and its parts add up.
LEMMA TargetAdds ==
  ASSUME NEW t \in Targets, ValidTarget(t)
  PROVE  /\ Cardinality(t.atoms) \in Nat /\ Cardinality(t.atoms) > 0
         /\ IsFiniteSet(t.manual) /\ Cardinality(t.manual) \in Nat
         /\ Cardinality(t.manual) = 0 <=> t.manual = {}
         /\ Cardinality(t.reviewable) \in 0 .. Cardinality(t.atoms)
         /\ Cardinality(t.reviewable) = 0 <=> t.reviewable = {}
         /\ Cardinality(UNION t.manual) = Cardinality(t.atoms) - Cardinality(t.reviewable)
         /\ t.reviewable = {} => t.manual # {}
<1> DEFINE A == t.atoms
           R == t.reviewable
           U == UNION t.manual
<1>1. IsFiniteSet(A)
  BY ProjectionAssumption
<1>2. A # {} /\ R \in SUBSET A /\ U \in SUBSET A /\ R \cap U = {} /\ R \cup U = A
  BY DEF ValidTarget
<1>3. t.manual \in SUBSET (SUBSET A)
  BY <1>2
<1>4. t.manual = {} => U = {}
  OBVIOUS
<1> HIDE DEF A, R, U
<1>5. IsFiniteSet(SUBSET A)
  BY <1>1, FS_SUBSET
<1>6. IsFiniteSet(t.manual)
  BY <1>3, <1>5, FS_Subset
<1>7. IsFiniteSet(R) /\ IsFiniteSet(U) /\ Cardinality(R) <= Cardinality(A)
  BY <1>1, <1>2, FS_Subset
<1>8. Cardinality(A) \in Nat /\ Cardinality(R) \in Nat /\ Cardinality(U) \in Nat /\ Cardinality(t.manual) \in Nat
  BY <1>1, <1>6, <1>7, FS_CardinalityType
<1>9. /\ Cardinality(A) # 0
      /\ Cardinality(t.manual) = 0 <=> t.manual = {}
      /\ Cardinality(R) = 0 <=> R = {}
  BY <1>1, <1>2, <1>6, <1>7, FS_EmptySet
<1>10. Cardinality(A) = Cardinality(R) + Cardinality(U)
  <2>1. Cardinality(R \cup U) = Cardinality(R) + Cardinality(U) - Cardinality(R \cap U)
    BY <1>7, FS_Union
  <2>2. Cardinality(R \cap U) = 0
    BY <1>2, FS_EmptySet
  <2>3. Cardinality(R \cup U) = Cardinality(A)
    BY <1>2, Zenon
  <2> QED
    BY <1>8, <2>1, <2>2, <2>3
<1>11. R = {} => t.manual # {}
  BY <1>2, <1>4
<1> QED
  BY <1>6, <1>7, <1>8, <1>9, <1>10, <1>11 DEF A, R, U

LEMMA SchemaDerived ==
  ASSUME NEW e, EvidenceTyped(e), ValidTarget(e.target), NEW S, RecordsSound(S, e),
         NEW c, Concludes(c, e, S)
  PROVE  /\ SchemaValid(c)
         /\ c.coverage.reviewed + c.coverage.manual = c.coverage.total
         /\ c.coverage.total = Cardinality(e.target.atoms)
         /\ c.coverage.reviewed = Cardinality(e.target.reviewable)
         /\ c.coverage.manual = Cardinality(e.target.atoms) - Cardinality(e.target.reviewable)
<1> DEFINE t == e.target
           total == Cardinality(t.atoms)
           reviewed == Cardinality(t.reviewable)
<1>1. t \in Targets
  BY DEF EvidenceTyped
<1>2. /\ total \in Nat /\ total > 0 /\ IsFiniteSet(t.manual) /\ Cardinality(t.manual) \in Nat
      /\ reviewed \in 0 .. total
  BY <1>1, TargetAdds
<1>3. c.coverage = [total |-> total, reviewed |-> reviewed, manual |-> total - reviewed]
  BY DEF Concludes
<1>4. IsFiniteSet(S) /\ Raw(e) \in Nat /\ \A r \in S : r.disposition \in Dispositions
  BY DEF RecordsSound, RecordShaped
<1>5. \A d : CountOf(S, d) \in Nat
  BY <1>4, SubsetsCount
<1>6. Cardinality(Groups(S)) \in Nat
  BY <1>4, GroupsCount
<1>7. /\ c.records = S /\ c.adapterItems = t.manual /\ c.raw = Raw(e)
      /\ c.canonical = Cardinality(Groups(S)) /\ c.adapter = Cardinality(t.manual)
      /\ c.counts = [k \in Dispositions |-> CountOf(S, k)]
  BY DEF Concludes
<1> HIDE DEF t, total, reviewed
<1>8. total - reviewed \in Nat /\ reviewed \in Nat /\ reviewed + (total - reviewed) = total
  BY <1>2
<1>9. /\ c.coverage.total = total /\ c.coverage.reviewed = reviewed /\ c.coverage.manual = total - reviewed
  BY <1>3
<1>10. c.coverage \in [{"total", "reviewed", "manual"} -> Nat]
  <2> DEFINE m == total - reviewed
  <2> HIDE DEF m
  <2>1. [total |-> total, reviewed |-> reviewed, manual |-> m] \in [total : Nat, reviewed : Nat, manual : Nat]
    BY <1>2, <1>8 DEF m
  <2> QED
    BY <1>2, <1>3, <1>8 DEF m
<1>11. c.counts \in [Dispositions -> Nat]
  BY <1>5, <1>7
<1>12. SchemaValid(c)
  BY <1>2, <1>4, <1>6, <1>7, <1>9, <1>10, <1>11 DEF SchemaValid
<1> QED
  BY <1>8, <1>9, <1>12 DEF t, total, reviewed

LEMMA RecordsDerived ==
  ASSUME NEW e, NEW S, RecordsSound(S, e), NEW c, Concludes(c, e, S)
  PROVE  RecordsValid(c)
<1>1. /\ c.verified = c.raw /\ Cardinality(c.verifiers) = c.raw /\ Cardinality(c.records) = c.raw
      /\ c.records = S
      /\ {r.result : r \in c.records} = c.verifiers
  BY DEF Concludes, RecordsSound
<1>2. \A r \in S : (r.disposition = "confirmed") <=> (r.severity \in Severities)
  BY DEF RecordsSound, RecordShaped
<1>3. \A r, s \in S : r # s => Pair(r) # Pair(s) /\ r.result # s.result
  BY DEF RecordsSound
<1>4. \A r \in S :
        LET ordinals == {s.ordinal : s \in {s \in S : s.cand = r.cand}}
        IN ordinals = 0 .. Cardinality(ordinals) - 1
  BY DEF RecordsSound, Numbered
<1>5. \A d \in Dispositions : c.counts[d] = CountOf(c.records, d)
  BY DEF Concludes
<1> QED
  BY <1>1, <1>2, <1>3, <1>4, <1>5 DEF RecordsValid

LEMMA FindingsDerived ==
  ASSUME NEW e, NEW S, RecordsSound(S, e), NEW c, Concludes(c, e, S)
  PROVE  FindingsValid(c)
<1>1. IsFiniteSet(S) /\ "confirmed" \in Dispositions
  BY DEF RecordsSound, Dispositions
<1>2. /\ c.counts["confirmed"] = CountOf(S, "confirmed")
      /\ c.canonical = Cardinality(Groups(S)) /\ c.findings = Groups(S)
      /\ c.verifiers = ToSet(e.results) /\ c.records = S
  BY <1>1 DEF Concludes
<1>3. /\ CountOf(S, "confirmed") = Cardinality(ConfirmedIn(S)) /\ IsFiniteSet(ConfirmedIn(S))
      /\ Cardinality(ConfirmedIn(S)) \in Nat
  BY <1>1, SubsetsCount
<1>4. /\ Cardinality(Groups(S)) <= Cardinality(ConfirmedIn(S))
      /\ Cardinality(Groups(S)) = 0 <=> ConfirmedIn(S) = {}
  BY <1>1, GroupsCount
<1>5. Cardinality(ConfirmedIn(S)) = 0 <=> ConfirmedIn(S) = {}
  BY <1>3, FS_EmptySet
<1>6. /\ \A f \in Groups(S) :
           FindingValid(f) /\ \A i \in f.instances : i.result \in ToSet(e.results)
      /\ \A f, g \in Groups(S) : f # g => f.root # g.root /\ Members(f) \cap Members(g) = {}
      /\ Cardinality(UNION {Members(f) : f \in Groups(S)}) = Cardinality(ConfirmedIn(S))
  BY GroupsValid
<1>7. ProjectsConfirmed(c)
  <2>1. WithDisposition(c, "confirmed") = ConfirmedIn(S)
    BY <1>2 DEF WithDisposition, ConfirmedIn
  <2> QED
    BY <1>2, <2>1, GroupsProject DEF ProjectsConfirmed, Projected
<1> QED
  BY <1>2, <1>3, <1>4, <1>5, <1>6, <1>7 DEF FindingsValid

LEMMA ManualDerived ==
  ASSUME NEW e, EvidenceTyped(e), ValidTarget(e.target), NEW S, RecordsSound(S, e),
         NEW c, Concludes(c, e, S)
  PROVE  ManualValid(c)
<1>1. /\ c.adapterItems = e.target.manual /\ c.adapter = Cardinality(e.target.manual)
      /\ c.verifierItems = ManualIn(S) /\ c.records = S /\ c.findings = Groups(S)
  BY DEF Concludes
<1>2. \A d, f \in e.target.manual : d # {} /\ (d # f => d \cap f = {})
  BY DEF ValidTarget
<1>3. Cardinality(UNION e.target.manual) = c.coverage.manual
  <2>1. e.target \in Targets
    BY DEF EvidenceTyped
  <2>2. Cardinality(UNION e.target.manual)
          = Cardinality(e.target.atoms) - Cardinality(e.target.reviewable)
    BY <2>1, TargetAdds
  <2> QED
    BY <2>2, SchemaDerived
<1>4. c.verifierItems = {Named(r) : r \in WithDisposition(c, "needs_manual_review")}
  BY <1>1 DEF ManualIn, WithDisposition
<1> DEFINE confirmed == {Named(i) : i \in UNION {f.instances : f \in c.findings}}
<1>5. \A i \in confirmed, j \in c.verifierItems : Pair(i) # Pair(j) /\ i.result # j.result
  <2> TAKE i \in confirmed, j \in c.verifierItems
  <2>1. PICK r \in ConfirmedIn(S) : i = Named(Projected(r))
    BY <1>1, GroupsProject
  <2>2. PICK s \in S : s.disposition = "needs_manual_review" /\ j = Named(s)
    BY <1>1 DEF ManualIn
  <2>3. r \in S /\ r # s
    BY <2>2 DEF ConfirmedIn
  <2>4. Pair(r) # Pair(s) /\ r.result # s.result
    BY <2>3 DEF RecordsSound
  <2>5. /\ Pair(i) = Pair(r) /\ i.result = r.result
        /\ Pair(j) = Pair(s) /\ j.result = s.result
    BY <2>1, <2>2, NamedProjected
  <2> QED
    BY <2>4, <2>5
<1> QED
  BY <1>1, <1>2, <1>3, <1>4, <1>5 DEF ManualValid

LEMMA BranchDerived ==
  ASSUME NEW e, EvidenceTyped(e), NEW n, EvidenceFits(e, n), NEW c, Concludes(c, e, RecordsOf(e))
  PROVE  BranchValid(c)
<1> DEFINE t == e.target
           S == RecordsOf(e)
<1>1. RecordsSound(S, e) /\ t \in Targets /\ ValidTarget(t)
  BY FittingSound DEF EvidenceTyped, EvidenceFits
<1>2. /\ c.coverage.reviewed = Cardinality(t.reviewable)
      /\ c.coverage.total = Cardinality(t.atoms)
      /\ c.coverage.manual = Cardinality(t.atoms) - Cardinality(t.reviewable)
  BY <1>1, SchemaDerived
<1>3. /\ Cardinality(t.reviewable) \in Nat /\ Cardinality(t.atoms) \in Nat
      /\ Cardinality(t.reviewable) = 0 <=> t.reviewable = {}
      /\ Cardinality(t.manual) \in Nat /\ (Cardinality(t.manual) = 0 <=> t.manual = {})
      /\ t.reviewable = {} => t.manual # {}
  <2> HIDE DEF t
  <2>1. /\ Cardinality(t.atoms) \in Nat /\ Cardinality(t.reviewable) \in 0 .. Cardinality(t.atoms)
        /\ Cardinality(t.reviewable) = 0 <=> t.reviewable = {}
        /\ Cardinality(t.manual) \in Nat /\ (Cardinality(t.manual) = 0 <=> t.manual = {})
        /\ t.reviewable = {} => t.manual # {}
    BY <1>1, TargetAdds
  <2> QED
    BY <2>1
<1>4. /\ c.reviewer = ToSet(e.reviews) /\ c.verifiers = ToSet(e.results)
      /\ c.accepted = ToSet(e.reviews) \cup ToSet(e.results)
      /\ c.dispatched = (t.reviewable # {})
      /\ c.raw = Raw(e) /\ c.verified = Len(e.results) /\ c.counts = [k \in Dispositions |-> CountOf(S, k)]
      /\ c.canonical = Cardinality(Groups(S)) /\ c.adapter = Cardinality(t.manual)
      /\ c.findings = Groups(S)
  BY DEF Concludes
<1>5. CASE t.reviewable # {}
  <2>1. PICK r : e.reviews = <<r>>
    BY <1>5, FittingSound
  <2>2. ToSet(e.reviews) = {r} /\ Cardinality({r}) = 1
    BY <2>1, FS_Singleton DEF ToSet
  <2>3. c.coverage.reviewed > 0
    BY <1>2, <1>3, <1>5
  <2> QED
    BY <1>4, <1>5, <2>2, <2>3 DEF BranchValid
<1>6. CASE t.reviewable = {}
  <2>1. e.reviews = << >> /\ Raw(e) = 0 /\ ToSet(e.results) = {}
    BY <1>6, FittingSound
  <2>2. ToSet(e.reviews) = {}
    BY <2>1 DEF ToSet
  <2>3. IsFiniteSet(S) /\ Cardinality(S) = 0 /\ Len(e.results) = 0
    BY <1>1, <2>1 DEF RecordsSound
  <2>4. S = {}
    BY <2>3, FS_EmptySet
  <2>5. ConfirmedIn(S) = {} /\ CausesIn(S) = {} /\ Groups(S) = {}
    BY <2>4 DEF ConfirmedIn, CausesIn, Groups
  <2>6. \A d \in Dispositions : CountOf(S, d) = 0
    BY <2>3, <2>4, SubsetsCount
  <2>7. Cardinality(Groups(S)) = 0
    BY <2>5, FS_EmptySet
  <2>8. ~(c.coverage.reviewed > 0) /\ c.coverage.manual = c.coverage.total /\ c.adapter > 0
    <3> HIDE DEF S, t
    <3>1. c.coverage.reviewed = 0 /\ Cardinality(t.manual) # 0
      BY <1>2, <1>3, <1>6
    <3>2. c.coverage.manual = Cardinality(t.atoms) - 0
      BY <1>2, <1>3, <1>6
    <3>3. ~(c.coverage.reviewed > 0)
      BY <3>1
    <3>4. c.coverage.manual = c.coverage.total
      BY <1>2, <1>3, <3>2
    <3>5. c.adapter > 0
      <4>1. c.adapter = Cardinality(t.manual)
        BY <1>4
      <4>2. Cardinality(t.manual) \in Nat
        BY <1>3
      <4> QED
        BY <3>1, <4>1, <4>2
    <3> QED
      BY <3>3, <3>4, <3>5
  <2> HIDE DEF S
  <2> QED
    BY <1>4, <1>6, <2>1, <2>2, <2>3, <2>5, <2>6, <2>7, <2>8 DEF BranchValid
<1> QED
  BY <1>5, <1>6

\* Whatever is projected is what the validator and the renderer take.
LEMMA DerivedRenders ==
  ASSUME NEW e, EvidenceTyped(e), NEW n, EvidenceFits(e, n)
  PROVE  Renders(Derived(e), e.reviews, e.results)
<1> DEFINE c == Derived(e)
           S == RecordsOf(e)
<1>1. /\ RecordsSound(S, e) /\ Len(TasksOf(e)) \in Nat
      /\ IsInjective(e.reviews) /\ IsInjective(e.results)
  BY FittingSound
<1>2. Concludes(c, e, S) /\ ValidTarget(e.target)
  BY <1>1, DerivedConcludes DEF EvidenceFits
<1> HIDE DEF c
<1>3. BranchValid(c)
  BY <1>2, BranchDerived
<1> HIDE DEF S
<1>4. SchemaValid(c) /\ c.coverage.reviewed + c.coverage.manual = c.coverage.total
  BY <1>1, <1>2, SchemaDerived
<1>5. RecordsValid(c) /\ FindingsValid(c) /\ ManualValid(c)
  BY <1>1, <1>2, RecordsDerived, FindingsDerived, ManualDerived
<1>6. c.verdict = VerdictOf(c.adapter + c.counts["needs_manual_review"], c.canonical)
  BY <1>2 DEF Concludes, Dispositions
<1>7. Valid(c)
  BY <1>3, <1>4, <1>5, <1>6 DEF Valid
<1>8. /\ ToSet(e.reviews) \cup ToSet(e.results) = c.accepted
      /\ ToSet(e.reviews) = c.reviewer /\ ToSet(e.results) = c.verifiers
  BY <1>2 DEF Concludes
<1>9. Renders(c, e.reviews, e.results)
  BY <1>1, <1>7, <1>8 DEF Renders
<1> QED
  BY <1>9 DEF c

-----------------------------------------------------------------------------
(* What is derived is what the evidence says.                              *)

Exact(c, e) ==
  /\ {f.root : f \in c.findings} = RootsConfirmed(e)
  /\ Cardinality(c.findings) = Cardinality(RootsConfirmed(e))
  /\ \A f \in c.findings :
       LET rs == OfRoot(e, f.root) IN
       /\ {i.result : i \in f.instances} = rs
       /\ f.proof = {r.text : r \in rs}
       /\ f.severity = "Nit" <=> \A r \in rs : r.severity = "Nit"
  /\ c.verdict = "clean" <=> ~ManualNeeded(e) /\ Confirmed(e) = {}
  /\ c.verdict = "findings" <=> ~ManualNeeded(e) /\ Confirmed(e) # {}

LEMMA DerivedExact ==
  ASSUME NEW e, EvidenceTyped(e), NEW n, EvidenceFits(e, n)
  PROVE  Exact(Derived(e), e)
<1> DEFINE c == Derived(e)
           S == RecordsOf(e)
           t == e.target
<1>1. RecordsSound(S, e) /\ Len(TasksOf(e)) \in Nat
  BY FittingSound
<1>2. Concludes(c, e, S)
  BY <1>1, DerivedConcludes
<1>3. t \in Targets /\ ValidTarget(t)
  BY DEF EvidenceTyped, EvidenceFits
<1> HIDE DEF c, S
<1>4. c.findings = Groups(S)
      /\ c.verdict = VerdictOf(Cardinality(t.manual) + CountOf(S, "needs_manual_review"), Cardinality(Groups(S)))
  BY <1>2 DEF Concludes
<1>5. /\ IsFiniteSet(S) /\ {r.result : r \in S} = ToSet(e.results)
      /\ \A r \in S : RecordShaped(r)
  BY <1>1 DEF RecordsSound
<1>6. Confirmed(e) = {r.result : r \in ConfirmedIn(S)}
  <2>1. \A r \in ConfirmedIn(S) : r.result \in Confirmed(e)
    BY <1>5 DEF ConfirmedIn, Confirmed, RecordShaped
  <2>2. \A x \in Confirmed(e) : \E r \in ConfirmedIn(S) : x = r.result
    BY <1>5 DEF ConfirmedIn, Confirmed, RecordShaped
  <2> QED
    BY <2>1, <2>2
<1>7. \A x : OfRoot(e, x) = {r.result : r \in OfCause(S, x)}
  <2> TAKE x
  <2>1. \A r \in ConfirmedIn(S) : r.cand.root = r.result.task.cand.root
    BY <1>5 DEF ConfirmedIn, RecordShaped
  <2>2. \A r \in OfCause(S, x) : r.result \in OfRoot(e, x)
    BY <1>6, <2>1 DEF OfRoot, OfCause
  <2>3. \A a \in OfRoot(e, x) : \E r \in OfCause(S, x) : a = r.result
    BY <1>6, <2>1 DEF OfRoot, OfCause
  <2> QED
    BY <2>2, <2>3
<1>8. RootsConfirmed(e) = CausesIn(S)
  <2>1. \A r \in ConfirmedIn(S) : r.cand.root = r.result.task.cand.root
    BY <1>5 DEF ConfirmedIn, RecordShaped
  <2> QED
    BY <1>6, <2>1 DEF RootsConfirmed, CausesIn
<1>9. {f.root : f \in Groups(S)} = CausesIn(S)
  BY GroupHas DEF Groups
<1>10. Cardinality(Groups(S)) = Cardinality(CausesIn(S))
  BY <1>5, GroupsCount
<1>11. ASSUME NEW f \in Groups(S)
       PROVE  LET rs == OfRoot(e, f.root) IN
              /\ {i.result : i \in f.instances} = rs
              /\ f.proof = {r.text : r \in rs}
              /\ f.severity = "Nit" <=> \A r \in rs : r.severity = "Nit"
  <2>1. PICK x \in CausesIn(S) : f = GroupOf(S, x)
    BY DEF Groups
  <2> DEFINE R == OfCause(S, x)
             rs == OfRoot(e, x)
  <2>2. /\ f.root = x /\ f.instances = ProjectedFrom(R) /\ f.proof = TextsFrom(R)
        /\ f.severity = IF \E i \in f.instances : i.severity = "Important" THEN "Important" ELSE "Nit"
    BY <2>1, GroupHas
  <2>3. rs = {r.result : r \in R}
    BY <1>7
  <2>4. \A r \in R : r.severity = r.result.severity /\ r.severity \in {"Important", "Nit"}
    BY <1>5 DEF OfCause, ConfirmedIn, RecordShaped, Severities
  <2> HIDE DEF R, rs
  <2>5. {i.result : i \in f.instances} = rs
    BY <2>2, <2>3, NamedProjected DEF ProjectedFrom
  <2>6. f.proof = {r.text : r \in rs}
    BY <2>2, <2>3 DEF TextsFrom
  <2>7. (\E i \in f.instances : i.severity = "Important") <=> \E r \in rs : r.severity = "Important"
    BY <2>2, <2>3, <2>4, NamedProjected DEF ProjectedFrom
  <2>8. \A r \in rs : r.severity \in {"Important", "Nit"}
    BY <2>3, <2>4
  <2>9. f.severity = "Nit" <=> \A r \in rs : r.severity = "Nit"
    BY <2>2, <2>7, <2>8
  <2> QED
    BY <2>2, <2>5, <2>6, <2>9 DEF rs
<1>12. /\ c.verdict = "clean" <=> ~ManualNeeded(e) /\ Confirmed(e) = {}
       /\ c.verdict = "findings" <=> ~ManualNeeded(e) /\ Confirmed(e) # {}
  <2> DEFINE m == Cardinality(t.manual)
             k == CountOf(S, "needs_manual_review")
             g == Cardinality(Groups(S))
  <2>1. m \in Nat /\ (m = 0 <=> t.manual = {})
    BY <1>3, TargetAdds
  <2>2. k \in Nat /\ (k = 0 <=> \A r \in S : r.disposition # "needs_manual_review")
    BY <1>5, SubsetsCount
  <2>3. (\A r \in S : r.disposition # "needs_manual_review")
          <=> ~\E r \in ToSet(e.results) : r.disposition = "needs_manual_review"
    BY <1>5 DEF RecordShaped
  <2>4. g \in Nat /\ (g = 0 <=> ConfirmedIn(S) = {})
    BY <1>5, GroupsCount
  <2>5. ConfirmedIn(S) = {} <=> Confirmed(e) = {}
    BY <1>6
  <2>6. c.verdict = VerdictOf(m + k, g)
    BY <1>4
  <2>7. ManualNeeded(e) <=> (m > 0 \/ k > 0)
    BY <2>1, <2>2, <2>3 DEF ManualNeeded
  <2> HIDE DEF m, k, g
  <2> QED
    BY <2>1, <2>2, <2>4, <2>5, <2>6, <2>7 DEF VerdictOf
<1>13. Exact(c, e)
  BY <1>4, <1>8, <1>9, <1>10, <1>11, <1>12 DEF Exact
<1> QED
  BY <1>13 DEF c

-----------------------------------------------------------------------------
(* The specification.                                                      *)

Reviews == [cands : Seq(Candidates), exec : Executions, covered : BOOLEAN]
Evidence ==
  [target : Targets, packeted : BOOLEAN, reviews : Seq(Reviews),
   packets : Seq(Tasks), results : Seq(Results)]

\* What is derived came of evidence that fits, and nothing derived is refused.
ProjectionInv ==
  /\ stage \in {"collect", "derived"} => evidence \in Evidence
  /\ stage # "invalid"
  /\ stage = "derived" => /\ EvidenceFits(evidence, ExpectedAttempts(evidence))
                          /\ completion = Derived(evidence)

LEMMA EvidenceIsTyped ==
  ASSUME NEW e \in Evidence
  PROVE  EvidenceTyped(e)
BY DEF Evidence, EvidenceTyped, Reviews

\* Whatever task a packet or a result is of, it is of a candidate.
LEMMA TasksPlausible ==
  ASSUME evidence \in Evidence
  PROVE  PlausibleTasks \subseteq Tasks
<1> SUFFICES ASSUME NEW k \in PlausibleTasks PROVE k \in Tasks
  OBVIOUS
<1>1. PICK r \in ToSet(evidence.reviews) : k \in TasksAround(r.cands)
  BY DEF PlausibleTasks
<1>2. evidence.reviews \in Seq(Reviews)
  BY DEF Evidence
<1>3. r \in Reviews
  BY <1>1, <1>2 DEF ToSet
<1> DEFINE cands == r.cands
<1>4. cands \in Seq(Candidates)
  BY <1>3 DEF Reviews
<1>5. k \in TasksAround(cands)
  BY <1>1
<1> HIDE DEF cands
<1>6. Len(cands) \in Nat /\ DOMAIN cands = 1 .. Len(cands)
      /\ \A i \in 1 .. Len(cands) : cands[i] \in Candidates
  BY <1>4
<1>7. CASE k \in ToSet(Instances(cands))
  <2>1. PICK i \in 1 .. Len(cands) : k = Instance(cands, i)
    BY <1>6, <1>7 DEF Instances, ToSet
  <2>2. k = [cand |-> cands[i], ordinal |-> Cardinality(EqualBefore(cands, i))]
    BY <2>1 DEF Instance, EqualBefore
  <2>3. Cardinality(EqualBefore(cands, i)) \in Nat
    BY <1>6, OrdinalsGrow
  <2> DEFINE o == Cardinality(EqualBefore(cands, i))
  <2> HIDE DEF o
  <2>4. k = [cand |-> cands[i], ordinal |-> o] /\ o \in Nat
    BY <2>2, <2>3 DEF o
  <2> QED
    BY <1>6, <2>4 DEF Tasks
<1>8. CASE cands # << >> /\ k = [cand |-> cands[1], ordinal |-> 1]
  <2>1. cands[1] \in Candidates
    BY <1>4, <1>8
  <2> QED
    BY <1>8, <2>1 DEF Tasks
<1> QED
  BY <1>5, <1>7, <1>8 DEF TasksAround

LEMMA ProjectionInit == Init => ProjectionInv
<1> SUFFICES ASSUME Init PROVE ProjectionInv
  OBVIOUS
<1>1. PICK t \in Targets : evidence = NoEvidence(t)
  BY DEF Init
<1>2. evidence \in Evidence
  BY <1>1 DEF NoEvidence, Evidence
<1> QED
  BY <1>2 DEF Init, ProjectionInv

\* Collecting keeps the evidence typed.
LEMMA ProjectionCollects ==
  ASSUME ProjectionInv, PacketReviewer \/ Review \/ PacketVerifier \/ Answer
  PROVE  ProjectionInv'
<1>1. stage = "collect" /\ stage' = "collect"
  BY DEF PacketReviewer, Review, PacketVerifier, Answer, Collect
<1>2. evidence \in Evidence
  BY <1>1 DEF ProjectionInv
<1>3. evidence' \in Evidence
  <2>1. CASE PacketReviewer
    <3>1. evidence' = [evidence EXCEPT !.packeted = TRUE]
      BY <2>1 DEF PacketReviewer, Collect
    <3> QED
      BY <1>2, <3>1 DEF Evidence
  <2>2. CASE Review
    <3>1. PICK cands \in SeqOf(Candidates, MaxCandidates), x \in Executions, covered \in BOOLEAN :
            evidence' = [evidence EXCEPT !.reviews = <<[cands |-> cands, exec |-> x, covered |-> covered]>>]
      BY <2>2 DEF Review, Collect
    <3>2. cands \in Seq(Candidates)
      BY <3>1, ProjectionAssumption DEF SeqOf
    <3> DEFINE r == [cands |-> cands, exec |-> x, covered |-> covered]
    <3>3. r \in Reviews
      BY <3>2 DEF Reviews
    <3>4. evidence' = [evidence EXCEPT !.reviews = <<r>>]
      BY <3>1
    <3> HIDE DEF r
    <3>5. <<r>> \in Seq(Reviews)
      BY <3>3
    <3> QED
      BY <1>2, <3>4, <3>5 DEF Evidence
  <2>3. CASE PacketVerifier
    <3>1. PICK t \in PlausibleTasks : evidence' = [evidence EXCEPT !.packets = Append(@, t)]
      BY <2>3 DEF PacketVerifier, Collect
    <3>2. t \in Tasks
      BY <1>2, TasksPlausible
    <3>3. Append(evidence.packets, t) \in Seq(Tasks)
      BY <1>2, <3>2 DEF Evidence
    <3> QED
      BY <1>2, <3>1, <3>3 DEF Evidence
  <2>4. CASE Answer
    <3>1. PICK t \in PlausibleTasks, a \in Answers, x \in Executions :
            evidence' = [evidence EXCEPT !.results =
                           Append(@, [task |-> t, exec |-> x, disposition |-> a.disposition,
                                      severity |-> a.severity, text |-> a.text, bound |-> a.bound])]
      BY <2>4 DEF Answer, Collect
    <3> DEFINE r == [task |-> t, exec |-> x, disposition |-> a.disposition,
                     severity |-> a.severity, text |-> a.text, bound |-> a.bound]
    <3>2. t \in Tasks
      BY <1>2, TasksPlausible
    <3>3. r \in Results
      BY <3>2 DEF Results
    <3>4. evidence' = [evidence EXCEPT !.results = Append(@, r)]
      BY <3>1
    <3> HIDE DEF r
    <3>5. Append(evidence.results, r) \in Seq(Results)
      BY <1>2, <3>3 DEF Evidence
    <3> QED
      BY <1>2, <3>4, <3>5 DEF Evidence
  <2> QED
    BY <2>1, <2>2, <2>3, <2>4
<1> QED
  BY <1>1, <1>3 DEF ProjectionInv

\* What is concluded is rendered, or there was nothing to conclude.
LEMMA ProjectionConcludes ==
  ASSUME ProjectionInv, NEW n, Conclude(n)
  PROVE  ProjectionInv'
<1>1. stage = "collect" /\ evidence' = evidence
  BY DEF Conclude
<1>2. evidence \in Evidence
  BY <1>1 DEF ProjectionInv
<1>3. CASE ~EvidenceFits(evidence, n)
  BY <1>3 DEF Conclude, ProjectionInv
<1>4. CASE EvidenceFits(evidence, n)
  <2>1. completion' = Derived(evidence)
    BY <1>4 DEF Conclude
  <2>2. Renders(Derived(evidence), evidence.reviews, evidence.results)
    BY <1>2, <1>4, EvidenceIsTyped, DerivedRenders
  <2>3. stage' = "derived"
    BY <1>4, <2>1, <2>2 DEF Conclude
  <2>4. EvidenceFits(evidence, ExpectedAttempts(evidence))
    BY <1>4 DEF EvidenceFits
  <2> QED
    BY <1>1, <1>2, <2>1, <2>3, <2>4 DEF ProjectionInv
<1> QED
  BY <1>3, <1>4

\* The invariant is kept: an edited completion is nobody's derivation.
THEOREM ProjectionInvariance == Spec => []ProjectionInv
<1>1. Init => ProjectionInv
  BY ProjectionInit
<1>2. ProjectionInv /\ [Next]_vars => ProjectionInv'
  <2> SUFFICES ASSUME ProjectionInv, [Next]_vars PROVE ProjectionInv'
    OBVIOUS
  <2>1. CASE PacketReviewer \/ Review \/ PacketVerifier \/ Answer
    BY <2>1, ProjectionCollects
  <2>2. CASE \E n \in 0 .. MaxCandidates + 1 : Conclude(n)
    BY <2>2, ProjectionConcludes
  <2>3. CASE Edit
    BY <2>3 DEF Edit, ProjectionInv
  <2>4. CASE UNCHANGED vars
    <3>1. stage' = stage /\ evidence' = evidence /\ completion' = completion
      BY <2>4 DEF vars
    <3> QED
      BY <3>1 DEF ProjectionInv
  <2> QED
    BY <2>1, <2>2, <2>3, <2>4 DEF Next
<1> QED
  BY <1>1, <1>2, PTL DEF Spec

\* The validator and the renderer take whatever derive_completion_payload
\* yields of evidence of any size, in any order; and it is what the evidence
\* says: a finding for each root cause, of all its confirmed results and of the
\* higher severity, and the verdict of the three that is earned.
THEOREM ProjectionsExact == Spec => []ProjectionExact
<1>1. ProjectionInv => ProjectionExact
  <2> SUFFICES ASSUME ProjectionInv PROVE ProjectionExact
    OBVIOUS
  <2>1. ASSUME stage = "derived" PROVE Exact(completion, evidence)
    <3>1. /\ evidence \in Evidence /\ completion = Derived(evidence)
          /\ EvidenceFits(evidence, ExpectedAttempts(evidence))
      BY <2>1 DEF ProjectionInv
    <3>2. Exact(Derived(evidence), evidence)
      BY <3>1, EvidenceIsTyped, DerivedExact
    <3> QED
      BY <3>1, <3>2
  <2>2. stage # "invalid"
    BY DEF ProjectionInv
  <2> QED
    BY <2>1, <2>2 DEF Exact, ProjectionExact
<1> QED
  BY <1>1, ProjectionInvariance, PTL
=============================================================================
