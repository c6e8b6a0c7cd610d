------------------------ MODULE ArtifactStore_proofs ------------------------
(***************************************************************************)
(* What the commit protocol of a session store guarantees for any number   *)
(* of writers, calls, faults, crashes and power losses: a commit never     *)
(* lacks its artifact, and an acknowledged artifact stays committed.       *)
(***************************************************************************)
EXTENDS ArtifactStore, TLAPS, WellFoundedInduction

\* Names that were flushed are there.
Flushed == kept.files \subseteq files

\* How far a writer's artifact has come towards the disk.
Durable ==
  \A w \in Writer :
    /\ pc[w] \in {"link", "syncDir"} => env[w] \in solid
    /\ pc[w] = "syncDir" => env[w] \in files
    /\ pc[w] \in {"untemp", "syncUntemp"} /\ w \notin failing
         => env[w] \in kept.files \cap solid
    /\ pc[w] \in {"read", "append"} => env[w] \in (kept.files \cap solid) \cup {Event}
    /\ pc[w] \in {"sequence", "claim", "write", "syncTemp", "link", "syncDir"}
         => env[w] \in Envelope

\* A record that was appended is in the ledger, and flushed when the writer
\* comes to the final verification; unless the ledger is torn.
Recorded ==
  \A w \in Writer :
    /\ pc[w] = "syncLedger" => \/ tail = "torn"
                               \/ env[w] \in Committed(ledger) \cup {Event}
    /\ pc[w] = "confirm" => \/ tail = "torn"
                            \/ env[w] \in Committed(SubSeq(ledger, 1, kept.len)) \cup {Event}

Inv == TypeOK /\ Flushed /\ Durable /\ CommitsBacked /\ Recorded /\ AckedKept

-----------------------------------------------------------------------------
(* The ledger *)

\* One more record commits one more envelope, an event none.
LEMMA CommittedAppend ==
  ASSUME NEW s \in Seq(Record), NEW r
  PROVE  Committed(Append(s, r)) = Committed(s) \cup ({r.env} \ {Event})
<1> DEFINE t == Append(s, r)
<1>1. /\ DOMAIN t = DOMAIN s \cup {Len(s) + 1} /\ t[Len(s) + 1] = r
      /\ \A i \in DOMAIN s : t[i] = s[i]
  OBVIOUS
<1> HIDE DEF t
<1>2. {t[i].env : i \in DOMAIN t} = {s[i].env : i \in DOMAIN s} \cup {r.env}
  BY <1>1
<1> QED
  BY <1>2 DEF Committed, t

\* A prefix commits no more, and a shorter one no more than a longer one.
LEMMA CommittedPrefix ==
  ASSUME NEW s \in Seq(Record), NEW k \in 0 .. Len(s)
  PROVE  /\ SubSeq(s, 1, k) \in Seq(Record) /\ Len(SubSeq(s, 1, k)) = k
         /\ Committed(SubSeq(s, 1, k)) \subseteq Committed(s)
<1> DEFINE t == SubSeq(s, 1, k)
<1>1. /\ DOMAIN t = 1 .. k /\ DOMAIN s = 1 .. Len(s) /\ Len(s) \in Nat
      /\ \A i \in 1 .. k : t[i] = s[i]
      /\ t \in Seq(Record) /\ Len(t) = k
  OBVIOUS
<1> HIDE DEF t
<1>2. Committed(t) \subseteq Committed(s)
  BY <1>1 DEF Committed
<1> QED
  BY <1>1, <1>2 DEF t

LEMMA PrefixOfPrefix ==
  ASSUME NEW s \in Seq(Record), NEW k \in 0 .. Len(s), NEW j \in 0 .. k
  PROVE  SubSeq(SubSeq(s, 1, k), 1, j) = SubSeq(s, 1, j)
  OBVIOUS

LEMMA PrefixOfAppend ==
  ASSUME NEW s \in Seq(Record), NEW r, NEW k \in 0 .. Len(s)
  PROVE  SubSeq(Append(s, r), 1, k) = SubSeq(s, 1, k)
  OBVIOUS

LEMMA WholePrefix == ASSUME NEW s \in Seq(Record) PROVE SubSeq(s, 1, Len(s)) = s
  OBVIOUS

\* The flushed prefix grows with its length.
LEMMA CommittedMonotone ==
  ASSUME NEW s \in Seq(Record), NEW k \in 0 .. Len(s), NEW j \in 0 .. k
  PROVE  Committed(SubSeq(s, 1, j)) \subseteq Committed(SubSeq(s, 1, k))
<1> DEFINE t == SubSeq(s, 1, k)
<1>1. t \in Seq(Record) /\ Len(t) = k
  BY CommittedPrefix
<1>2. SubSeq(t, 1, j) = SubSeq(s, 1, j)
  BY PrefixOfPrefix
<1> HIDE DEF t
<1>3. Committed(SubSeq(t, 1, j)) \subseteq Committed(t)
  BY <1>1, CommittedPrefix
<1> QED
  BY <1>2, <1>3 DEF t

-----------------------------------------------------------------------------
(* Induction, stated for sets: no operator has to be instantiated *)

LEMMA LeastNumber ==
  ASSUME NEW S, S \subseteq Nat, S # {}
  PROVE  \E m \in S : \A k \in S : m <= k
<1> DEFINE R == OpToRel(<, Nat)
<1>1. IsWellFoundedOn(R, Nat)
  BY NatLessThanWellFounded
<1>2. PICK m \in S : \A k \in S : ~(<<k, m>> \in R)
  <2> HIDE DEF R
  <2> QED
    BY <1>1, WFMin
<1>3. \A k \in S : ~(k < m)
  BY <1>2 DEF OpToRel
<1> QED
  BY <1>3

\* A set that has the empty sequence, and with a sequence each one that is
\* longer by one element, has them all.
LEMMA AllSequences ==
  ASSUME NEW S, NEW T, << >> \in T,
         \A s \in Seq(S), x \in S : s \in T => Append(s, x) \in T
  PROVE  Seq(S) \subseteq T
<1> SUFFICES ASSUME NEW t \in Seq(S), t \notin T PROVE FALSE
  OBVIOUS
<1> DEFINE Missing == {n \in 0 .. Len(t) : SubSeq(t, 1, n) \notin T}
<1>1. Missing \subseteq Nat /\ Len(t) \in Missing
  <2>1. Missing \subseteq Nat
    OBVIOUS
  <2>2. Len(t) \in 0 .. Len(t)
    OBVIOUS
  <2>3. SubSeq(t, 1, Len(t)) = t
    OBVIOUS
  <2> QED
    BY <2>1, <2>2, <2>3
<1>2. PICK m \in Missing : \A k \in Missing : m <= k
  <2> HIDE DEF Missing
  <2> QED
    BY <1>1, LeastNumber
<1>3. m \in 0 .. Len(t) /\ SubSeq(t, 1, m) \notin T
  OBVIOUS
<1>4. CASE m = 0
  <2>1. SubSeq(t, 1, 0) = << >>
    OBVIOUS
  <2> QED
    BY <1>3, <1>4, <2>1
<1>5. CASE m # 0
  <2>1. m - 1 \in 0 .. Len(t) /\ m - 1 \notin Missing
    BY <1>2, <1>3, <1>5
  <2>2. SubSeq(t, 1, m - 1) \in T
    BY <2>1
  <2>3. /\ SubSeq(t, 1, m - 1) \in Seq(S) /\ t[m] \in S
        /\ SubSeq(t, 1, m) = Append(SubSeq(t, 1, m - 1), t[m])
    BY <1>3, <1>5
  <2> QED
    BY <1>3, <2>2, <2>3
<1> QED
  BY <1>4, <1>5

-----------------------------------------------------------------------------
(* The artifacts of a ledger *)

\* f holds the artifacts that each prefix of s commits.
UpTo(s, f) ==
  f = [n \in 0 .. Len(s) |->
         IF n = 0 THEN << >>
         ELSE IF s[n].env = Event THEN f[n - 1]
         ELSE Append(f[n - 1], s[n].env)]

LEMMA UpToValue ==
  ASSUME NEW s \in Seq(Record), NEW f, UpTo(s, f)
  PROVE  /\ f[0] = << >>
         /\ \A n \in 1 .. Len(s) :
              f[n] = IF s[n].env = Event THEN f[n - 1] ELSE Append(f[n - 1], s[n].env)
<1> DEFINE g == [n \in 0 .. Len(s) |->
                   IF n = 0 THEN << >>
                   ELSE IF s[n].env = Event THEN f[n - 1]
                   ELSE Append(f[n - 1], s[n].env)]
<1>1. g[0] = << >>
  OBVIOUS
<1>2. \A n \in 1 .. Len(s) :
        g[n] = IF s[n].env = Event THEN f[n - 1] ELSE Append(f[n - 1], s[n].env)
  OBVIOUS
<1>3. f = g
  BY DEF UpTo
<1> HIDE DEF g
<1> QED
  BY <1>1, <1>2, <1>3

\* Over a longer ledger the recursion goes on from where it was.
LEMMA UpToExtends ==
  ASSUME NEW s \in Seq(Record), NEW r \in Record, NEW f, UpTo(s, f)
  PROVE  \E g : UpTo(Append(s, r), g)
<1> DEFINE t == Append(s, r)
           last == IF r.env = Event THEN f[Len(s)] ELSE Append(f[Len(s)], r.env)
           g == [n \in 0 .. Len(t) |-> IF n = Len(t) THEN last ELSE f[n]]
           h == [n \in 0 .. Len(t) |->
                   IF n = 0 THEN << >>
                   ELSE IF t[n].env = Event THEN g[n - 1]
                   ELSE Append(g[n - 1], t[n].env)]
<1>1. /\ Len(s) \in Nat /\ Len(t) = Len(s) + 1 /\ t[Len(t)] = r
      /\ \A n \in 1 .. Len(s) : t[n] = s[n]
  OBVIOUS
<1>2. /\ f[0] = << >>
      /\ \A n \in 1 .. Len(s) :
           f[n] = IF s[n].env = Event THEN f[n - 1] ELSE Append(f[n - 1], s[n].env)
  BY UpToValue
<1>3. \A n \in 0 .. Len(s) : g[n] = f[n]
  BY <1>1
<1>4. g[Len(t)] = last
  BY <1>1
<1> HIDE DEF t, g
<1>5. \A n \in 0 .. Len(t) : g[n] = h[n]
  <2> TAKE n \in 0 .. Len(t)
  <2>1. CASE n = 0
    BY <1>1, <1>2, <1>3, <2>1
  <2>2. CASE n \in 1 .. Len(s)
    <3>1. n - 1 \in 0 .. Len(s) /\ n \in 0 .. Len(s) /\ n # 0
      BY <1>1, <2>2
    <3> QED
      BY <1>1, <1>2, <1>3, <2>2, <3>1
  <2>3. CASE n = Len(t)
    <3>1. n - 1 = Len(s) /\ n # 0
      BY <1>1, <2>3
    <3>2. g[n - 1] = f[Len(s)]
      BY <1>1, <1>3, <3>1
    <3> QED
      BY <1>1, <1>4, <2>3, <3>1, <3>2
  <2> QED
    BY <1>1, <2>1, <2>2, <2>3
<1>6. g = [n \in 0 .. Len(t) |-> g[n]]
  BY DEF g
<1>7. UpTo(t, g)
  BY <1>5, <1>6 DEF UpTo
<1> QED
  BY <1>7 DEF t

LEMMA UpToExists == \A s \in Seq(Record) : \E f : UpTo(s, f)
<1> DEFINE T == {s \in Seq(Record) : \E f : UpTo(s, f)}
<1>1. << >> \in T
  <2> DEFINE f == [n \in {0} |-> << >>]
  <2>1. UpTo(<< >>, f)
    <3>1. 0 .. Len(<< >>) = {0}
      OBVIOUS
    <3> QED
      BY <3>1 DEF UpTo
  <2> QED
    BY <2>1
<1>2. \A s \in Seq(Record), r \in Record : s \in T => Append(s, r) \in T
  BY UpToExtends
<1>3. Seq(Record) \subseteq T
  <2> HIDE DEF T
  <2> QED
    BY <1>1, <1>2, AllSequences
<1> QED
  BY <1>3

LEMMA EnvelopesUpTo ==
  ASSUME NEW s \in Seq(Record)
  PROVE  \E f : UpTo(s, f) /\ Envelopes(s) = f[Len(s)]
<1>1. UpTo(s, CHOOSE f : UpTo(s, f))
  BY UpToExists
<1>2. Envelopes(s) = (CHOOSE f : UpTo(s, f))[Len(s)]
  BY DEF Envelopes, UpTo
<1> QED
  BY <1>1, <1>2

\* The prefixes of a longer ledger commit what they commit in the shorter one.
LEMMA UpToAgree ==
  ASSUME NEW s \in Seq(Record), NEW r \in Record, NEW f, UpTo(s, f),
         NEW g, UpTo(Append(s, r), g)
  PROVE  g[Len(s)] = f[Len(s)]
<1> DEFINE t == Append(s, r)
           Different == {n \in 0 .. Len(s) : g[n] # f[n]}
<1>1. /\ t \in Seq(Record) /\ Len(s) \in Nat /\ Len(t) = Len(s) + 1
      /\ \A n \in 1 .. Len(s) : t[n] = s[n]
  OBVIOUS
<1>2. /\ f[0] = << >>
      /\ \A n \in 1 .. Len(s) :
           f[n] = IF s[n].env = Event THEN f[n - 1] ELSE Append(f[n - 1], s[n].env)
  BY UpToValue
<1>3. /\ g[0] = << >>
      /\ \A n \in 1 .. Len(t) :
           g[n] = IF t[n].env = Event THEN g[n - 1] ELSE Append(g[n - 1], t[n].env)
  BY <1>1, UpToValue
<1> SUFFICES ASSUME Different # {} PROVE FALSE
  BY <1>1
<1>4. PICK m \in Different : \A k \in Different : m <= k
  <2>1. Different \subseteq Nat
    OBVIOUS
  <2> HIDE DEF Different
  <2> QED
    BY <2>1, LeastNumber
<1> HIDE DEF t
<1>5. m \in 1 .. Len(s)
  BY <1>1, <1>2, <1>3, <1>4
<1>6. m - 1 \in 0 .. Len(s) /\ m - 1 \notin Different /\ m \in 1 .. Len(t)
  BY <1>1, <1>4, <1>5
<1>7. g[m - 1] = f[m - 1]
  BY <1>6
<1> QED
  BY <1>1, <1>2, <1>3, <1>4, <1>5, <1>6, <1>7

LEMMA EnvelopesEmpty == Envelopes(<< >>) = << >>
<1>1. << >> \in Seq(Record) /\ Len(<< >>) = 0
  OBVIOUS
<1> QED
  BY <1>1, EnvelopesUpTo, UpToValue

\* One more record commits its envelope behind the others, and an event
\* nothing.
LEMMA EnvelopesAppend ==
  ASSUME NEW s \in Seq(Record), NEW r \in Record
  PROVE  Envelopes(Append(s, r)) =
           IF r.env = Event THEN Envelopes(s) ELSE Append(Envelopes(s), r.env)
<1> DEFINE t == Append(s, r)
<1>1. t \in Seq(Record) /\ Len(s) \in Nat /\ Len(t) = Len(s) + 1 /\ t[Len(t)] = r
  OBVIOUS
<1>2. PICK f : UpTo(s, f) /\ Envelopes(s) = f[Len(s)]
  BY EnvelopesUpTo
<1>3. PICK g : UpTo(t, g) /\ Envelopes(t) = g[Len(t)]
  BY <1>1, EnvelopesUpTo
<1>4. g[Len(s)] = f[Len(s)]
  BY <1>2, <1>3, UpToAgree
<1> HIDE DEF t
<1>5. g[Len(t)] = IF t[Len(t)].env = Event THEN g[Len(t) - 1]
                  ELSE Append(g[Len(t) - 1], t[Len(t)].env)
  BY <1>1, <1>3, UpToValue
<1>6. Len(t) - 1 = Len(s)
  BY <1>1
<1> QED
  BY <1>1, <1>2, <1>3, <1>4, <1>5, <1>6 DEF t

\* The artifacts are envelopes, and those that the records name.
LEMMA EnvelopesCommitted ==
  \A s \in Seq(Record) :
    /\ Envelopes(s) \in Seq(Envelope)
    /\ Committed(s) = {Envelopes(s)[i] : i \in DOMAIN Envelopes(s)}
<1> DEFINE Named(e) == {e[i] : i \in DOMAIN e}
           T == {s \in Seq(Record) :
                   Envelopes(s) \in Seq(Envelope) /\ Committed(s) = Named(Envelopes(s))}
<1>1. << >> \in T
  <2>1. << >> \in Seq(Record) /\ << >> \in Seq(Envelope)
    OBVIOUS
  <2>2. Committed(<< >>) = {} /\ Named(<< >>) = {}
    BY DEF Committed
  <2> QED
    BY <2>1, <2>2, EnvelopesEmpty
<1>2. ASSUME NEW s \in Seq(Record), NEW r \in Record, s \in T
      PROVE  Append(s, r) \in T
  <2>1. /\ Envelopes(s) \in Seq(Envelope) /\ Committed(s) = Named(Envelopes(s))
        /\ Append(s, r) \in Seq(Record)
    BY <1>2
  <2>2. Committed(Append(s, r)) = Committed(s) \cup ({r.env} \ {Event})
    BY CommittedAppend
  <2>3. CASE r.env = Event
    BY <2>1, <2>2, <2>3, EnvelopesAppend
  <2>4. CASE r.env # Event
    <3>1. r.env \in Envelope /\ Envelopes(Append(s, r)) = Append(Envelopes(s), r.env)
      BY <2>4, EnvelopesAppend DEF Record
    <3>2. ASSUME NEW e \in Seq(Envelope), NEW x
          PROVE  Named(Append(e, x)) = Named(e) \cup {x}
      <4> DEFINE a == Append(e, x)
      <4>1. /\ DOMAIN a = DOMAIN e \cup {Len(e) + 1} /\ a[Len(e) + 1] = x
            /\ \A i \in DOMAIN e : a[i] = e[i]
        OBVIOUS
      <4> HIDE DEF a
      <4>2. Named(a) = Named(e) \cup {x}
        BY <4>1
      <4> QED
        BY <4>2 DEF a
    <3>3. Append(Envelopes(s), r.env) \in Seq(Envelope)
      BY <2>1, <3>1
    <3>4. Named(Append(Envelopes(s), r.env)) = Named(Envelopes(s)) \cup {r.env}
      <4> HIDE DEF Named
      <4> QED
        BY <2>1, <3>2
    <3>5. Named(Envelopes(Append(s, r))) = Committed(Append(s, r))
      <4> HIDE DEF Named
      <4> QED
        BY <2>1, <2>2, <2>4, <3>1, <3>4
    <3> QED
      BY <2>1, <3>1, <3>3, <3>5
  <2> QED
    BY <2>3, <2>4
<1>3. Seq(Record) \subseteq T
  <2> HIDE DEF T
  <2> QED
    BY <1>1, <1>2, AllSequences
<1> QED
  BY <1>3

\* A prefix of the ledger commits a prefix of the artifacts.
LEMMA EnvelopesPrefix ==
  \A s \in Seq(Record) : \A k \in 0 .. Len(s) :
    \E m \in 0 .. Len(Envelopes(s)) :
      Envelopes(SubSeq(s, 1, k)) = SubSeq(Envelopes(s), 1, m)
<1> DEFINE Fits(s, k) == \E m \in 0 .. Len(Envelopes(s)) :
                           Envelopes(SubSeq(s, 1, k)) = SubSeq(Envelopes(s), 1, m)
           T == {s \in Seq(Record) : \A k \in 0 .. Len(s) : Fits(s, k)}
<1>1. ASSUME NEW s \in Seq(Record) PROVE Fits(s, Len(s))
  <2>1. SubSeq(s, 1, Len(s)) = s
    BY WholePrefix
  <2>2. Envelopes(s) \in Seq(Envelope)
    BY EnvelopesCommitted
  <2>3. /\ Len(Envelopes(s)) \in 0 .. Len(Envelopes(s))
        /\ SubSeq(Envelopes(s), 1, Len(Envelopes(s))) = Envelopes(s)
    BY <2>2
  <2> QED
    BY <2>1, <2>3
<1>2. << >> \in T
  <2>1. << >> \in Seq(Record) /\ 0 .. Len(<< >>) = {0} /\ Len(<< >>) = 0
    OBVIOUS
  <2>2. Fits(<< >>, 0)
    BY <1>1, <2>1
  <2> QED
    BY <2>1, <2>2
<1>3. ASSUME NEW s \in Seq(Record), NEW r \in Record, s \in T
      PROVE  Append(s, r) \in T
  <2> DEFINE t == Append(s, r)
  <2>1. t \in Seq(Record) /\ Len(t) = Len(s) + 1 /\ Len(s) \in Nat
    OBVIOUS
  <2>2. ASSUME NEW k \in 0 .. Len(s) PROVE Fits(t, k)
    <3>1. PICK m \in 0 .. Len(Envelopes(s)) :
            Envelopes(SubSeq(s, 1, k)) = SubSeq(Envelopes(s), 1, m)
      BY <1>3
    <3>2. SubSeq(t, 1, k) = SubSeq(s, 1, k)
      BY PrefixOfAppend
    <3>3. Envelopes(s) \in Seq(Envelope)
      BY EnvelopesCommitted
    <3>4. \/ Envelopes(t) = Envelopes(s)
          \/ Envelopes(t) = Append(Envelopes(s), r.env)
      BY EnvelopesAppend
    <3>5. m \in 0 .. Len(Envelopes(t)) /\ SubSeq(Envelopes(t), 1, m) = SubSeq(Envelopes(s), 1, m)
      <4>1. ASSUME NEW e \in Seq(Envelope), NEW x, NEW n \in 0 .. Len(e)
            PROVE  n \in 0 .. Len(Append(e, x)) /\ SubSeq(Append(e, x), 1, n) = SubSeq(e, 1, n)
        OBVIOUS
      <4> HIDE DEF t
      <4> QED
        BY <3>3, <3>4, <4>1
    <3> HIDE DEF t
    <3> QED
      BY <3>1, <3>2, <3>5
  <2>3. Fits(t, Len(t))
    BY <1>1, <2>1
  <2>4. \A k \in 0 .. Len(t) : Fits(t, k)
    <3> HIDE DEF t, Fits
    <3> QED
      BY <2>1, <2>2, <2>3
  <2> QED
    BY <2>1, <2>4
<1>4. Seq(Record) \subseteq T
  <2> HIDE DEF T
  <2> QED
    BY <1>2, <1>3, AllSequences
<1> QED
  BY <1>4

\* What the loop of the lifecycle accepts, it accepts up to any envelope.
LEMMA LegalPrefix ==
  ASSUME NEW e \in Seq(Envelope), NEW m \in 0 .. Len(e), Legal(e)
  PROVE  Legal(SubSeq(e, 1, m))
<1> DEFINE d == SubSeq(e, 1, m)
<1>1. /\ DOMAIN d = 1 .. m /\ DOMAIN e = 1 .. Len(e)
      /\ \A i \in 1 .. m : d[i] = e[i] /\ SubSeq(d, 1, i - 1) = SubSeq(e, 1, i - 1)
  OBVIOUS
<1> HIDE DEF d
<1>2. ASSUME NEW i \in DOMAIN d PROVE Accepts(SubSeq(d, 1, i - 1), d[i])
  <2>1. i \in 1 .. m /\ i \in DOMAIN e
    BY <1>1
  <2>2. Accepts(SubSeq(e, 1, i - 1), e[i])
    BY <2>1 DEF Legal
  <2>3. d[i] = e[i] /\ SubSeq(d, 1, i - 1) = SubSeq(e, 1, i - 1)
    BY <1>1, <2>1
  <2> QED
    BY <2>2, <2>3
<1> QED
  BY <1>2 DEF d, Legal

-----------------------------------------------------------------------------
(* The sound part of a ledger *)

SoundRecords(s) == Chained(s) /\ Legal(Envelopes(s))
Reach(s, n) ==
  /\ n \in 0 .. Len(s) /\ SoundRecords(SubSeq(s, 1, n))
  /\ n < Len(s) => ~SoundRecords(SubSeq(s, 1, n + 1))
ReachOf(s) ==
  CHOOSE k \in 0 .. Len(s) :
    SoundRecords(SubSeq(s, 1, k)) /\ (k < Len(s) => ~SoundRecords(SubSeq(s, 1, k + 1)))
LogOf(s) == Envelopes(SubSeq(s, 1, ReachOf(s)))

LEMMA SoundPrefix ==
  ASSUME NEW s \in Seq(Record), NEW k \in 0 .. Len(s), SoundRecords(s)
  PROVE  SoundRecords(SubSeq(s, 1, k))
<1> DEFINE t == SubSeq(s, 1, k)
<1>1. Chained(t)
  <2>1. /\ DOMAIN t = 1 .. k /\ DOMAIN s = 1 .. Len(s)
        /\ \A i \in 1 .. k : t[i] = s[i]
    OBVIOUS
  <2> HIDE DEF t
  <2> QED
    BY <2>1 DEF SoundRecords, Chained
<1>2. Legal(Envelopes(t))
  <2>1. PICK m \in 0 .. Len(Envelopes(s)) : Envelopes(t) = SubSeq(Envelopes(s), 1, m)
    BY EnvelopesPrefix
  <2>2. Envelopes(s) \in Seq(Envelope)
    BY EnvelopesCommitted
  <2> QED
    BY <2>1, <2>2, LegalPrefix DEF SoundRecords
<1> QED
  BY <1>1, <1>2 DEF SoundRecords

\* The sound part is where soundness ends: it exists, and there is one.
LEMMA ReachExists == ASSUME NEW s \in Seq(Record) PROVE \E n \in Nat : Reach(s, n)
<1> DEFINE Unsound == {k \in 1 .. Len(s) + 1 :
                         k <= Len(s) => ~SoundRecords(SubSeq(s, 1, k))}
<1>1. Len(s) \in Nat
  OBVIOUS
<1>2. PICK m \in Unsound : \A k \in Unsound : m <= k
  <2>1. Unsound \subseteq Nat
    OBVIOUS
  <2>2. Len(s) + 1 \in Unsound
    BY <1>1
  <2> HIDE DEF Unsound
  <2> QED
    BY <2>1, <2>2, LeastNumber
<1>3. m \in 1 .. Len(s) + 1 /\ (m <= Len(s) => ~SoundRecords(SubSeq(s, 1, m)))
  OBVIOUS
<1>4. SoundRecords(SubSeq(s, 1, m - 1))
  <2>1. CASE m = 1
    <3>1. SubSeq(s, 1, 0) = << >> /\ m - 1 = 0
      BY <2>1
    <3>2. Chained(<< >>) /\ Legal(<< >>)
      BY DEF Chained, Legal
    <3> QED
      BY <3>1, <3>2, EnvelopesEmpty DEF SoundRecords
  <2>2. CASE m # 1
    <3>1. m - 1 \in 1 .. Len(s) + 1 /\ m - 1 <= Len(s) /\ m - 1 \notin Unsound
      BY <1>1, <1>2, <1>3, <2>2
    <3> QED
      BY <3>1
  <2> QED
    BY <2>1, <2>2
<1>5. m - 1 \in 0 .. Len(s) /\ (m - 1 < Len(s) => m <= Len(s)) /\ (m - 1) + 1 = m
  BY <1>1, <1>3
<1>6. Reach(s, m - 1)
  BY <1>3, <1>4, <1>5 DEF Reach
<1> QED
  BY <1>5, <1>6

LEMMA ReachUnique ==
  ASSUME NEW s \in Seq(Record), NEW m, NEW n, Reach(s, m), Reach(s, n)
  PROVE  m = n
<1>1. ASSUME NEW i, NEW j, Reach(s, i), Reach(s, j), i < j PROVE FALSE
  <2>1. i \in 0 .. Len(s) /\ j \in 0 .. Len(s) /\ Len(s) \in Nat
    BY <1>1 DEF Reach
  <2> DEFINE t == SubSeq(s, 1, j)
  <2>2. t \in Seq(Record) /\ Len(t) = j /\ SubSeq(t, 1, i + 1) = SubSeq(s, 1, i + 1)
    BY <1>1, <2>1, CommittedPrefix, PrefixOfPrefix
  <2>3. i + 1 \in 0 .. Len(t)
    BY <1>1, <2>1, <2>2
  <2>4. SoundRecords(t)
    BY <1>1 DEF Reach
  <2> HIDE DEF t
  <2>5. SoundRecords(SubSeq(s, 1, i + 1))
    BY <2>2, <2>3, <2>4, SoundPrefix
  <2>6. i < Len(s)
    BY <1>1, <2>1
  <2> QED
    BY <1>1, <2>5, <2>6 DEF Reach
<1>2. m \in Nat /\ n \in Nat
  BY DEF Reach
<1>3. ~(m < n) /\ ~(n < m)
  BY <1>1
<1> QED
  BY <1>2, <1>3

LEMMA ReachOfReaches == ASSUME NEW s \in Seq(Record) PROVE Reach(s, ReachOf(s))
<1>1. \E k \in 0 .. Len(s) :
        SoundRecords(SubSeq(s, 1, k)) /\ (k < Len(s) => ~SoundRecords(SubSeq(s, 1, k + 1)))
  BY ReachExists DEF Reach
<1> QED
  BY <1>1 DEF ReachOf, Reach

\* A record behind the sound part that continues it lets the log grow by one
\* envelope that the lifecycle accepts; any other leaves the log alone.
LEMMA LogAppend ==
  ASSUME NEW s \in Seq(Record), NEW r \in Record
  PROVE  /\ ReachOf(s) <= ReachOf(Append(s, r))
         /\ \/ LogOf(Append(s, r)) = LogOf(s)
            \/ /\ r.env \in Envelope
               /\ LogOf(Append(s, r)) = Append(LogOf(s), r.env)
               /\ Legal(LogOf(Append(s, r)))
<1> DEFINE t == Append(s, r)
           n == ReachOf(s)
<1>1. t \in Seq(Record) /\ Len(s) \in Nat /\ Len(t) = Len(s) + 1
  OBVIOUS
<1>2. /\ n \in 0 .. Len(s) /\ SoundRecords(SubSeq(s, 1, n))
      /\ n < Len(s) => ~SoundRecords(SubSeq(s, 1, n + 1))
  BY ReachOfReaches DEF Reach
<1>3. \A k \in 0 .. Len(s) : SubSeq(t, 1, k) = SubSeq(s, 1, k)
  BY PrefixOfAppend
<1>4. SubSeq(t, 1, Len(t)) = t /\ SubSeq(s, 1, Len(s)) = s
  BY <1>1, WholePrefix
<1>5. Reach(t, ReachOf(t))
  BY <1>1, ReachOfReaches
<1>6. Envelopes(t) = IF r.env = Event THEN Envelopes(s) ELSE Append(Envelopes(s), r.env)
  BY EnvelopesAppend
<1> HIDE DEF t, n
<1>7. CASE n < Len(s) \/ ~SoundRecords(t)
  <2>1. n < Len(t) /\ n \in 0 .. Len(t) /\ (n < Len(s) => n + 1 \in 0 .. Len(s))
        /\ (~(n < Len(s)) => n + 1 = Len(t))
    BY <1>1, <1>2
  <2>2. ~SoundRecords(SubSeq(t, 1, n + 1))
    BY <1>2, <1>3, <1>4, <1>7, <2>1
  <2>3. Reach(t, n)
    BY <1>2, <1>3, <2>1, <2>2 DEF Reach
  <2>4. ReachOf(t) = n
    BY <1>1, <1>5, <2>3, ReachUnique
  <2>5. LogOf(t) = LogOf(s)
    BY <1>2, <1>3, <2>4 DEF LogOf, n
  <2> QED
    BY <1>2, <2>4, <2>5 DEF t, n
<1>8. CASE n = Len(s) /\ SoundRecords(t)
  <2>1. Reach(t, Len(t))
    <3>1. Len(t) \in 0 .. Len(t) /\ ~(Len(t) < Len(t))
      BY <1>1
    <3> QED
      BY <3>1, <1>4, <1>8 DEF Reach
  <2>2. ReachOf(t) = Len(t)
    BY <1>1, <1>5, <2>1, ReachUnique
  <2>3. LogOf(t) = Envelopes(t) /\ LogOf(s) = Envelopes(s)
    BY <1>4, <1>8, <2>2 DEF LogOf, n
  <2>4. Legal(LogOf(t))
    BY <1>8, <2>3 DEF SoundRecords
  <2>5. ReachOf(s) <= ReachOf(t)
    BY <1>1, <1>8, <2>2 DEF n
  <2> QED
    BY <1>6, <2>3, <2>4, <2>5 DEF t, Record
<1> QED
  BY <1>1, <1>2, <1>7, <1>8

\* Cutting the ledger cuts the sound part at the same place, if it reaches
\* that far, and so the log.
LEMMA LogCut ==
  ASSUME NEW s \in Seq(Record), NEW k \in 0 .. Len(s)
  PROVE  LET t == SubSeq(s, 1, k) IN
         /\ ReachOf(t) = IF ReachOf(s) < k THEN ReachOf(s) ELSE k
         /\ \E m \in 0 .. Len(LogOf(s)) : LogOf(t) = SubSeq(LogOf(s), 1, m)
<1> DEFINE t == SubSeq(s, 1, k)
           n == ReachOf(s)
           j == IF n < k THEN n ELSE k
<1>1. t \in Seq(Record) /\ Len(t) = k /\ Len(s) \in Nat
  BY CommittedPrefix
<1>2. /\ n \in 0 .. Len(s) /\ SoundRecords(SubSeq(s, 1, n))
      /\ n < Len(s) => ~SoundRecords(SubSeq(s, 1, n + 1))
  BY ReachOfReaches DEF Reach
<1>3. \A i \in 0 .. k : SubSeq(t, 1, i) = SubSeq(s, 1, i)
  BY PrefixOfPrefix
<1>4. j \in 0 .. n /\ j \in 0 .. k
  BY <1>2
<1>5. /\ SubSeq(s, 1, n) \in Seq(Record) /\ Len(SubSeq(s, 1, n)) = n
      /\ SubSeq(SubSeq(s, 1, n), 1, j) = SubSeq(s, 1, j)
  BY <1>2, <1>4, CommittedPrefix, PrefixOfPrefix
<1>6. Reach(t, ReachOf(t))
  BY <1>1, ReachOfReaches
<1>7. j < k => j = n /\ n < Len(s) /\ n + 1 \in 0 .. k
  BY <1>1, <1>2
<1> HIDE DEF t, n, j
<1>8. SoundRecords(SubSeq(s, 1, j))
  BY <1>2, <1>4, <1>5, SoundPrefix
<1>9. j < Len(t) => ~SoundRecords(SubSeq(t, 1, j + 1))
  BY <1>1, <1>2, <1>3, <1>7
<1>10. Reach(t, j)
  BY <1>1, <1>3, <1>4, <1>8, <1>9 DEF Reach
<1>11. ReachOf(t) = j
  BY <1>1, <1>6, <1>10, ReachUnique
<1>12. LogOf(t) = Envelopes(SubSeq(s, 1, j))
  BY <1>3, <1>4, <1>11 DEF LogOf
<1>13. \E m \in 0 .. Len(LogOf(s)) : LogOf(t) = SubSeq(LogOf(s), 1, m)
  <2>1. LogOf(s) = Envelopes(SubSeq(s, 1, n))
    BY DEF LogOf, n
  <2>2. j \in 0 .. Len(SubSeq(s, 1, n))
    BY <1>4, <1>5
  <2>3. \E m \in 0 .. Len(Envelopes(SubSeq(s, 1, n))) :
          Envelopes(SubSeq(SubSeq(s, 1, n), 1, j)) = SubSeq(Envelopes(SubSeq(s, 1, n)), 1, m)
    BY <1>5, <2>2, EnvelopesPrefix
  <2> QED
    BY <1>5, <1>12, <2>1, <2>3
<1> QED
  BY <1>11, <1>13 DEF t, n, j

-----------------------------------------------------------------------------
(* The inductive invariant *)

LEMMA InitInv == Init => Inv
<1> SUFFICES ASSUME Init PROVE Inv
  OBVIOUS
<1>1. Committed(ledger) = {}
  BY DEF Init, Committed
<1>2. TypeOK
  BY StoreAssumption DEF Init, TypeOK, Steps, Record
<1> QED
  BY <1>1, <1>2 DEF Init, Inv, Flushed, Durable, CommitsBacked, Recorded, AckedKept

Payload == Envelope \cup {Event, None}

LEMMA PayloadTyped ==
  ASSUME TypeOK, NEW w \in Writer,
         env' = env \/ \E e \in Payload : env' = [env EXCEPT ![w] = e]
  PROVE  env' \in [Writer -> Payload]
<1>1. env \in [Writer -> Payload]
  BY DEF TypeOK, Payload
<1> QED
  BY <1>1

\* No step spoils the shape of a variable: one conjunct of TypeOK at a time.
LEMMA TypeStep == ASSUME TypeOK, Durable, NEW w \in Writer, Step(w) PROVE TypeOK'
<1> USE DEF Step, Verify, Sequence, Claim, WriteTemp, SyncTemp, Link, SyncDir, Untemp,
            SyncUntemp, ReadLedger, AppendRecord, SyncLedger, Confirm, Goto, Refuse,
            Unwind, FlushDirectory, artifacts
<1>1. pc' \in [Writer -> Steps]
  BY DEF TypeOK, Steps
<1>2. env' \in [Writer -> Envelope \cup {Event, None}]
  <2>1. env' = env \/ env' = [env EXCEPT ![w] = None]
    OBVIOUS
  <2>2. None \in Payload
    BY DEF Payload
  <2> QED
    BY <2>1, <2>2, PayloadTyped DEF Payload
<1>3. seen' \in [Writer -> Nat]
  <2>1. Len(ledger) \in Nat
    BY DEF TypeOK
  <2>2. seen' = seen \/ \E n \in Nat : seen' = [seen EXCEPT ![w] = n]
    BY <2>1
  <2> QED
    BY <2>2 DEF TypeOK
<1>4. failing' \subseteq Writer /\ temp' \subseteq Writer
  BY DEF TypeOK
<1>5. \A x \in Writer : pc'[x] = "idle" <=> env'[x] = None
  BY StoreAssumption DEF TypeOK
<1>6. \A x \in failing' : pc'[x] \in {"untemp", "syncUntemp"}
  BY DEF TypeOK
<1>7. files' \subseteq Envelope /\ solid' \subseteq Envelope /\ acked' \subseteq Envelope
  <2>1. pc[w] \in {"syncTemp", "link"} => env[w] \in Envelope
    BY DEF Durable
  <2>2. pc[w] = "confirm" => env[w] \in Envelope \cup {Event}
    BY DEF TypeOK
  <2> QED
    BY <2>1, <2>2 DEF TypeOK
<1>8. /\ ledger' = ledger \/ \E r \in Record : ledger' = Append(ledger, r)
      /\ tail' = tail
  <2>1. pc[w] = "append" => [seq |-> seen[w] + 1, env |-> env[w]] \in Record
    BY DEF TypeOK, Record
  <2> QED
    BY <2>1
<1>9. ledger' \in Seq(Record) /\ Len(ledger') >= Len(ledger) /\ tail' \in {"clean", "torn"}
  <2>1. ledger \in Seq(Record) /\ tail \in {"clean", "torn"}
    BY DEF TypeOK
  <2>2. ASSUME NEW r \in Record, ledger' = Append(ledger, r)
        PROVE  ledger' \in Seq(Record) /\ Len(ledger') >= Len(ledger)
    BY <2>1, <2>2
  <2>3. ledger' = ledger => ledger' \in Seq(Record) /\ Len(ledger') >= Len(ledger)
    BY <2>1
  <2> QED
    BY <1>8, <2>1, <2>2, <2>3
<1>10. kept' \in [files : SUBSET Envelope, temp : SUBSET Writer, len : Nat,
                  tail : {"clean", "torn"}]
  <2>1. \/ kept' = kept
        \/ kept' = [kept EXCEPT !.files = files, !.temp = temp]
        \/ kept' = [kept EXCEPT !.len = Len(ledger), !.tail = tail]
    OBVIOUS
  <2>2. /\ files \in SUBSET Envelope /\ temp \in SUBSET Writer
        /\ Len(ledger) \in Nat /\ tail \in {"clean", "torn"}
    BY DEF TypeOK
  <2> QED
    BY <2>1, <2>2 DEF TypeOK
<1>11. kept'.len <= Len(ledger')
  <2>1. kept'.len = kept.len \/ (kept'.len = Len(ledger) /\ ledger' = ledger)
    BY DEF TypeOK
  <2> QED
    BY <1>9, <2>1 DEF TypeOK
<1>12. calls' \in 0 .. MaxCalls /\ trouble' \in 0 .. MaxTrouble
  BY DEF TypeOK
<1> QED
  BY <1>1, <1>2, <1>3, <1>4, <1>5, <1>6, <1>7, <1>9, <1>10, <1>11, <1>12 DEF TypeOK

\* A name is flushed only when it is there, and a call goes on to the ledger
\* only with an artifact whose content and name were flushed.
LEMMA DurableStep ==
  ASSUME TypeOK, Flushed, Durable, NEW w \in Writer, Step(w)
  PROVE  Flushed' /\ Durable'
<1> USE StoreAssumption
    DEF TypeOK, Flushed, Durable, Steps, Goto, Refuse, Unwind, FlushDirectory, artifacts
<1>1. CASE Verify(w)
  <2>1. env[w] = Event \/ env[w] \in Envelope
    BY <1>1 DEF Verify
  <2>2. CASE Goto(w, "read") /\ env[w] = Event
    BY <1>1, <2>2 DEF Verify
  <2>3. CASE Goto(w, "sequence") /\ env[w] \in Envelope
    BY <1>1, <2>3 DEF Verify
  <2>4. CASE Refuse(w)
    BY <1>1, <2>4 DEF Verify
  <2> QED
    BY <1>1, <2>1, <2>2, <2>3, <2>4 DEF Verify
<1>2. CASE Sequence(w)
  BY <1>2 DEF Sequence
<1>3. CASE Claim(w)
  BY <1>3 DEF Claim
<1>4. CASE WriteTemp(w)
  BY <1>4 DEF WriteTemp
<1>5. CASE SyncTemp(w)
  BY <1>5 DEF SyncTemp
<1>6. CASE Link(w)
  BY <1>6 DEF Link
<1>7. CASE SyncDir(w)
  BY <1>7 DEF SyncDir
<1>8. CASE Untemp(w)
  BY <1>8 DEF Untemp
<1>9. CASE SyncUntemp(w)
  <2>1. /\ pc[w] = "syncUntemp" /\ UNCHANGED <<files, temp, solid>>
        /\ kept'.files = files /\ kept.files \subseteq kept'.files
    BY <1>9 DEF SyncUntemp
  <2>2. CASE Refuse(w)
    BY <2>1, <2>2
  <2>3. CASE Goto(w, "read") /\ w \notin failing
    BY <2>1, <2>3
  <2> QED
    BY <1>9, <2>2, <2>3 DEF SyncUntemp
<1>10. CASE ReadLedger(w)
  BY <1>10 DEF ReadLedger
<1>11. CASE AppendRecord(w)
  BY <1>11 DEF AppendRecord
<1>12. CASE SyncLedger(w)
  BY <1>12 DEF SyncLedger
<1>13. CASE Confirm(w)
  BY <1>13 DEF Confirm
<1> QED
  BY <1>1, <1>2, <1>3, <1>4, <1>5, <1>6, <1>7, <1>8, <1>9, <1>10, <1>11, <1>12, <1>13 DEF Step

\* A record is appended behind a flushed artifact, flushed before the final
\* verification, and acknowledged only if that finds the ledger untorn.
LEMMA LedgerStep ==
  ASSUME Inv, NEW w \in Writer, Step(w)
  PROVE  CommitsBacked' /\ Recorded' /\ AckedKept'
<1>0. /\ ledger \in Seq(Record) /\ Len(ledger) \in Nat /\ kept.len \in 0 .. Len(ledger)
      /\ kept.files \subseteq files
  BY DEF Inv, TypeOK, Flushed
<1>1. CASE ~AppendRecord(w) /\ ~SyncLedger(w) /\ ~Confirm(w)
  <2> USE <1>1 DEF Step, Verify, Sequence, Claim, WriteTemp, SyncTemp, Link, SyncDir,
                   Untemp, SyncUntemp, ReadLedger, Goto, Refuse, Unwind,
                   FlushDirectory, artifacts
  <2>1. /\ UNCHANGED <<ledger, tail, acked>>
        /\ kept'.len = kept.len /\ kept.files \subseteq kept'.files
        /\ solid \subseteq solid'
    BY <1>0 DEF Inv, TypeOK
  <2>2. \A x \in Writer : pc'[x] \in {"syncLedger", "confirm"}
                          => pc'[x] = pc[x] /\ env'[x] = env[x]
    BY DEF Inv, TypeOK
  <2> QED
    BY <2>1, <2>2 DEF Inv, CommitsBacked, Recorded, AckedKept
<1>2. CASE AppendRecord(w)
  <2> DEFINE r == [seq |-> seen[w] + 1, env |-> env[w]]
  <2>1. /\ ledger' = IF tail = "torn" THEN ledger ELSE Append(ledger, r)
        /\ UNCHANGED <<tail, kept, acked, solid, env>>
        /\ pc[w] = "append" /\ pc' = [pc EXCEPT ![w] = "syncLedger"]
        /\ r.env = env[w]
    BY <1>2 DEF AppendRecord, Goto, artifacts
  <2>2. env[w] \in (kept.files \cap solid) \cup {Event}
    BY <2>1 DEF Inv, Durable
  <2> HIDE DEF r
  <2>3. CASE tail = "torn"
    BY <2>1, <2>3 DEF Inv, TypeOK, CommitsBacked, Recorded, AckedKept
  <2>4. CASE tail # "torn"
    <3>1. /\ Committed(ledger') = Committed(ledger) \cup ({env[w]} \ {Event})
          /\ SubSeq(ledger', 1, kept.len) = SubSeq(ledger, 1, kept.len)
      BY <1>0, <2>1, <2>4, CommittedAppend, PrefixOfAppend
    <3>2. CommitsBacked' /\ AckedKept'
      BY <2>1, <2>2, <3>1 DEF Inv, CommitsBacked, AckedKept
    <3>3. Recorded'
      BY <2>1, <3>1 DEF Inv, TypeOK, Recorded
    <3> QED
      BY <3>2, <3>3
  <2> QED
    BY <2>3, <2>4
<1>3. CASE SyncLedger(w)
  <2>1. /\ UNCHANGED <<ledger, tail, acked, solid, env>>
        /\ pc[w] = "syncLedger" /\ pc' = [pc EXCEPT ![w] = "confirm"]
        /\ kept'.len = Len(ledger) /\ kept'.files = kept.files
    BY <1>3 DEF SyncLedger, Goto, artifacts, Inv, TypeOK
  <2>2. /\ SubSeq(ledger, 1, Len(ledger)) = ledger
        /\ Committed(SubSeq(ledger, 1, kept.len)) \subseteq Committed(ledger)
    BY <1>0, WholePrefix, CommittedPrefix
  <2>3. CommitsBacked' /\ AckedKept'
    BY <2>1, <2>2 DEF Inv, CommitsBacked, AckedKept
  <2>4. Recorded'
    BY <2>1, <2>2 DEF Inv, TypeOK, Recorded
  <2> QED
    BY <2>3, <2>4
<1>4. CASE Confirm(w)
  <2>1. /\ UNCHANGED <<ledger, tail, kept, solid>>
        /\ pc[w] = "confirm" /\ pc' = [pc EXCEPT ![w] = "idle"]
        /\ env' = [env EXCEPT ![w] = None]
        /\ acked' = IF Verified THEN acked \cup ({env[w]} \ {Event}) ELSE acked
    BY <1>4 DEF Confirm, Refuse, artifacts
  <2>2. Verified => tail = "clean"
    BY DEF Verified
  <2>3. CommitsBacked' /\ AckedKept'
    BY <2>1, <2>2 DEF Inv, CommitsBacked, AckedKept, Recorded
  <2>4. Recorded'
    BY <2>1 DEF Inv, TypeOK, Recorded
  <2> QED
    BY <2>3, <2>4
<1> QED
  BY <1>1, <1>2, <1>3, <1>4
\* Every step of a call preserves the invariant.
LEMMA StepInv == ASSUME Inv, NEW w \in Writer, Step(w) PROVE Inv'
  BY TypeStep, DurableStep, LedgerStep DEF Inv

\* A call starts with nothing done.
LEMMA BeginInv ==
  ASSUME Inv, NEW w \in Writer, NEW e \in Envelope \cup {Event}, Begin(w, e)
  PROVE  Inv'
<1>1. /\ UNCHANGED <<seen, failing, artifacts, ledger, tail, kept, acked, trouble>>
      /\ pc[w] = "idle" /\ pc' = [pc EXCEPT ![w] = "verify"]
      /\ env' = [env EXCEPT ![w] = e] /\ calls' \in 0 .. MaxCalls
  BY StoreAssumption DEF Begin, Inv, TypeOK
<1>2. env' \in [Writer -> Envelope \cup {Event, None}]
  BY <1>1, PayloadTyped DEF Inv, Payload
<1>3. TypeOK'
  BY <1>1, <1>2, StoreAssumption DEF Inv, TypeOK, Steps, artifacts
<1>4. Flushed' /\ Durable' /\ CommitsBacked' /\ Recorded' /\ AckedKept'
  BY <1>1 DEF Inv, TypeOK, Flushed, Durable, CommitsBacked, Recorded, AckedKept, artifacts
<1> QED
  BY <1>3, <1>4 DEF Inv

\* A fault or a death leaves a temporary file or a torn ledger at worst: what
\* was flushed, recorded or acknowledged stays.
LEMMA TroubleInv ==
  ASSUME Inv, NEW w \in Writer, Fault(w) \/ Crash(w)
  PROVE  Inv'
<1>1. /\ UNCHANGED <<files, solid, ledger, kept, acked, calls>>
      /\ trouble' \in 0 .. MaxTrouble
      /\ temp' \in {temp, temp \cup {w}}
      /\ tail' \in {tail, "torn"}
  BY StoreAssumption DEF Fault, Crash, Trouble, artifacts, Inv, TypeOK
<1>2. \/ Refuse(w)
      \/ Unwind(w) /\ pc[w] \in {"write", "syncTemp", "link", "syncDir"}
  BY DEF Fault, Crash
<1>3. env' \in [Writer -> Envelope \cup {Event, None}]
  <2>1. env' = env \/ env' = [env EXCEPT ![w] = None]
    BY <1>2 DEF Refuse, Unwind
  <2> QED
    BY <2>1, PayloadTyped DEF Inv, Payload
<1>4. CASE Refuse(w)
  <2>1. TypeOK'
    BY <1>1, <1>3, <1>4, StoreAssumption DEF Refuse, Inv, TypeOK, Steps
  <2>2. Flushed' /\ Durable' /\ CommitsBacked' /\ Recorded' /\ AckedKept'
    BY <1>1, <1>4 DEF Refuse, Inv, TypeOK, Flushed, Durable, CommitsBacked, Recorded, AckedKept
  <2> QED
    BY <2>1, <2>2 DEF Inv
<1>5. CASE Unwind(w) /\ pc[w] \in {"write", "syncTemp", "link", "syncDir"}
  <2>1. TypeOK'
    BY <1>1, <1>3, <1>5, StoreAssumption DEF Unwind, Inv, TypeOK, Steps
  <2>2. Flushed' /\ Durable' /\ CommitsBacked' /\ Recorded' /\ AckedKept'
    BY <1>1, <1>5 DEF Unwind, Inv, TypeOK, Flushed, Durable, CommitsBacked, Recorded, AckedKept
  <2> QED
    BY <2>1, <2>2 DEF Inv
<1> QED
  BY <1>2, <1>4, <1>5

\* A power loss cuts the ledger behind its flushed part and keeps every name
\* that was flushed.
LEMMA PowerLossInv == Inv /\ PowerLoss => Inv'
<1> SUFFICES ASSUME Inv, PowerLoss PROVE Inv'
  OBVIOUS
<1>1. PICK k \in kept.len .. Len(ledger) :
        /\ ledger' = SubSeq(ledger, 1, k)
        /\ tail' \in IF k < Len(ledger) THEN {"clean", "torn"} ELSE {kept.tail, tail}
        /\ kept' = [files |-> files', temp |-> temp', len |-> k, tail |-> tail']
  BY DEF PowerLoss
<1>2. /\ ledger \in Seq(Record) /\ Len(ledger) \in Nat /\ kept.len \in 0 .. k
      /\ k \in 0 .. Len(ledger) /\ kept.files \subseteq files
  BY DEF Inv, TypeOK, Flushed
<1>3. /\ UNCHANGED <<solid, acked, calls>> /\ trouble' \in 0 .. MaxTrouble
      /\ pc' = [w \in Writer |-> "idle"] /\ env' = [w \in Writer |-> None]
      /\ seen' = [w \in Writer |-> 0] /\ failing' = {}
      /\ kept.files \subseteq files' /\ files' \subseteq Envelope
      /\ temp' \subseteq Writer /\ tail' \in {"clean", "torn"}
  BY <1>1, <1>2, StoreAssumption DEF PowerLoss, Trouble, Between, Inv, TypeOK
<1>4. /\ ledger' \in Seq(Record) /\ Len(ledger') = k
      /\ Committed(ledger') \subseteq Committed(ledger)
      /\ Committed(SubSeq(ledger, 1, kept.len)) \subseteq Committed(ledger')
      /\ SubSeq(ledger', 1, k) = ledger'
  BY <1>1, <1>2, CommittedPrefix, CommittedMonotone, WholePrefix
<1>5. TypeOK'
  BY <1>1, <1>2, <1>3, <1>4 DEF Inv, TypeOK, Steps
<1>6. Flushed' /\ Durable' /\ Recorded'
  BY <1>1, <1>3 DEF Flushed, Durable, Recorded
<1>7. CommitsBacked' /\ AckedKept'
  BY <1>1, <1>3, <1>4 DEF Inv, CommitsBacked, AckedKept
<1> QED
  BY <1>5, <1>6, <1>7 DEF Inv

LEMMA NextInv == Inv /\ [Next]_vars => Inv'
<1> SUFFICES ASSUME Inv, [Next]_vars PROVE Inv'
  OBVIOUS
<1>1. ASSUME NEW w \in Writer, Step(w) \/ Fault(w) \/ Crash(w) PROVE Inv'
  BY <1>1, StepInv, TroubleInv
<1>2. ASSUME NEW w \in Writer, NEW e \in Envelope \cup {Event}, Begin(w, e) PROVE Inv'
  BY <1>2, BeginInv
<1>3. CASE PowerLoss
  BY <1>3, PowerLossInv
<1>4. CASE UNCHANGED vars
  BY <1>4 DEF vars, process, artifacts, Inv, TypeOK, Flushed, Durable, CommitsBacked,
              Recorded, AckedKept
<1> QED
  BY <1>1, <1>2, <1>3, <1>4 DEF Next

\* The invariant holds in every reachable state.
THEOREM Invariance == Spec => []Inv
  BY InitInv, NextInv, PTL DEF Spec

-----------------------------------------------------------------------------
(* The abstract log *)

\* An acknowledged artifact is in the sound part: the verification that let its
\* call return found the whole ledger sound.
AckedSound == acked \subseteq Committed(SubSeq(ledger, 1, ReachOf(ledger)))

LEMMA InitSound == Init => AckedSound
  BY DEF Init, AckedSound

\* The verified ledger is all sound.
LEMMA VerifiedReach ==
  ASSUME ledger \in Seq(Record), Verified
  PROVE  ReachOf(ledger) = Len(ledger)
<1>1. SoundRecords(SubSeq(ledger, 1, Len(ledger)))
  BY WholePrefix DEF Verified, SoundRecords
<1>2. Len(ledger) \in 0 .. Len(ledger) /\ ~(Len(ledger) < Len(ledger))
  OBVIOUS
<1>3. Reach(ledger, Len(ledger))
  BY <1>1, <1>2 DEF Reach
<1> QED
  BY <1>3, ReachOfReaches, ReachUnique

\* What a step does to the ledger and to what was acknowledged: it leaves them
\* alone, appends a record, acknowledges an artifact of a verified ledger, or
\* cuts the part that was not flushed.
Grows ==
  \E r \in Record : ledger' = Append(ledger, r) /\ UNCHANGED acked
Acknowledges ==
  /\ Verified /\ UNCHANGED ledger
  /\ \E e \in Committed(ledger) : acked' = acked \cup {e}
Cut ==
  /\ \E k \in kept.len .. Len(ledger) : ledger' = SubSeq(ledger, 1, k)
  /\ UNCHANGED acked

LEMMA StepKinds ==
  ASSUME Inv, [Next]_vars
  PROVE  UNCHANGED <<ledger, acked>> \/ Grows \/ Acknowledges \/ Cut
<1>0. ledger \in Seq(Record) /\ kept.len \in 0 .. Len(ledger)
  BY DEF Inv, TypeOK
<1>1. ASSUME NEW w \in Writer, Step(w), ~AppendRecord(w), ~Confirm(w)
      PROVE  UNCHANGED <<ledger, acked>>
  BY <1>1 DEF Step, Verify, Sequence, Claim, WriteTemp, SyncTemp, Link, SyncDir, Untemp,
              SyncUntemp, ReadLedger, SyncLedger
<1>2. ASSUME NEW w \in Writer, AppendRecord(w)
      PROVE  UNCHANGED <<ledger, acked>> \/ Grows
  <2>1. [seq |-> seen[w] + 1, env |-> env[w]] \in Record
    <3>1. env[w] \in Envelope \cup {Event} /\ seen[w] \in Nat
      BY <1>2 DEF AppendRecord, Inv, TypeOK, Durable
    <3> QED
      BY <3>1 DEF Record
  <2> QED
    BY <1>2, <2>1 DEF AppendRecord, Grows
<1>3. ASSUME NEW w \in Writer, Confirm(w)
      PROVE  UNCHANGED <<ledger, acked>> \/ Acknowledges
  <2>1. /\ UNCHANGED ledger
        /\ acked' = IF Verified THEN acked \cup ({env[w]} \ {Event}) ELSE acked
    BY <1>3 DEF Confirm
  <2>2. CASE Verified /\ env[w] # Event
    <3>1. env[w] \in Committed(SubSeq(ledger, 1, kept.len))
      BY <1>3, <2>2 DEF Confirm, Inv, Recorded, Verified
    <3>2. env[w] \in Committed(ledger)
      BY <1>0, <3>1, CommittedPrefix
    <3> QED
      BY <2>1, <2>2, <3>2 DEF Acknowledges
  <2>3. CASE ~(Verified /\ env[w] # Event)
    BY <2>1, <2>3
  <2> QED
    BY <2>2, <2>3
<1>4. ASSUME NEW w \in Writer, Fault(w) \/ Crash(w) PROVE UNCHANGED <<ledger, acked>>
  BY <1>4 DEF Fault, Crash
<1>5. ASSUME NEW w \in Writer, NEW e \in Envelope \cup {Event}, Begin(w, e)
      PROVE  UNCHANGED <<ledger, acked>>
  BY <1>5 DEF Begin
<1>6. CASE PowerLoss
  <2>1. UNCHANGED acked /\ \E k \in kept.len .. Len(ledger) : ledger' = SubSeq(ledger, 1, k)
    BY <1>6 DEF PowerLoss
  <2> QED
    BY <2>1 DEF Cut
<1>7. CASE UNCHANGED vars
  BY <1>7 DEF vars
<1> QED
  BY <1>1, <1>2, <1>3, <1>4, <1>5, <1>6, <1>7 DEF Next

\* An acknowledged artifact stays in the sound part.
LEMMA NextSound == Inv /\ AckedSound /\ [Next]_vars => AckedSound'
<1> SUFFICES ASSUME Inv, AckedSound, [Next]_vars PROVE AckedSound'
  OBVIOUS
<1>0. ledger \in Seq(Record) /\ kept.len \in 0 .. Len(ledger) /\ Len(ledger) \in Nat
  BY DEF Inv, TypeOK
<1>1. ReachOf(ledger) \in 0 .. Len(ledger)
  BY <1>0, ReachOfReaches DEF Reach
<1>2. CASE UNCHANGED <<ledger, acked>>
  BY <1>2 DEF AckedSound
<1>3. CASE Grows
  <2>1. PICK r \in Record : ledger' = Append(ledger, r) /\ UNCHANGED acked
    BY <1>3 DEF Grows
  <2>2. ledger' \in Seq(Record)
    BY <1>0, <2>1
  <2>3. ReachOf(ledger') \in 0 .. Len(ledger') /\ ReachOf(ledger) <= ReachOf(ledger')
    BY <1>0, <2>1, <2>2, ReachOfReaches, LogAppend DEF Reach
  <2>4. SubSeq(ledger', 1, ReachOf(ledger)) = SubSeq(ledger, 1, ReachOf(ledger))
    BY <1>0, <1>1, <2>1, PrefixOfAppend
  <2>5. ReachOf(ledger) \in 0 .. ReachOf(ledger')
    BY <1>0, <1>1, <2>3
  <2>6. Committed(SubSeq(ledger', 1, ReachOf(ledger)))
          \subseteq Committed(SubSeq(ledger', 1, ReachOf(ledger')))
    BY <2>2, <2>3, <2>5, CommittedMonotone
  <2> QED
    BY <2>1, <2>4, <2>6 DEF AckedSound
<1>4. CASE Acknowledges
  <2>1. ReachOf(ledger) = Len(ledger) /\ UNCHANGED ledger
    BY <1>0, <1>4, VerifiedReach DEF Acknowledges
  <2>2. SubSeq(ledger, 1, Len(ledger)) = ledger
    BY <1>0, WholePrefix
  <2> QED
    BY <1>4, <2>1, <2>2 DEF Acknowledges, AckedSound
<1>5. CASE Cut
  <2>1. PICK k \in kept.len .. Len(ledger) : ledger' = SubSeq(ledger, 1, k) /\ UNCHANGED acked
    BY <1>5 DEF Cut
  <2>2. k \in 0 .. Len(ledger) /\ kept.len \in 0 .. k
    BY <1>0
  <2>3. ReachOf(ledger') = IF ReachOf(ledger) < k THEN ReachOf(ledger) ELSE k
    BY <1>0, <2>1, <2>2, LogCut
  <2>4. CASE ReachOf(ledger) < k
    <3>1. SubSeq(ledger', 1, ReachOf(ledger)) = SubSeq(ledger, 1, ReachOf(ledger))
      <4>1. ReachOf(ledger) \in 0 .. k
        BY <1>1, <2>4
      <4> QED
        BY <1>0, <2>1, <2>2, <4>1, PrefixOfPrefix
    <3> QED
      BY <2>1, <2>3, <2>4, <3>1 DEF AckedSound
  <2>5. CASE ~(ReachOf(ledger) < k)
    <3>1. SubSeq(ledger', 1, k) = ledger'
      BY <1>0, <2>1, <2>2, CommittedPrefix, WholePrefix
    <3>2. acked \subseteq Committed(SubSeq(ledger, 1, kept.len))
      BY DEF Inv, AckedKept
    <3>3. Committed(SubSeq(ledger, 1, kept.len)) \subseteq Committed(ledger')
      BY <1>0, <2>1, <2>2, CommittedMonotone
    <3> QED
      BY <2>1, <2>3, <2>5, <3>1, <3>2, <3>3 DEF AckedSound
  <2> QED
    BY <2>4, <2>5
<1> QED
  BY <1>2, <1>3, <1>4, <1>5, StepKinds

-----------------------------------------------------------------------------
(* A single writer without trouble *)

\* The steps of a call after which its artifact is linked, but not recorded.
Linked == {"syncDir", "untemp", "syncUntemp", "read", "append"}
Claimed == {"write", "syncTemp", "link"} \cup Linked
Writing == {"syncTemp", "link", "syncDir", "untemp"}

\* How far the session of a single writer w is from one that verifies.
Alone(w) ==
  /\ failing = {} /\ tail = "clean"
  /\ Chained(ledger) /\ Legal(Envelopes(ledger)) /\ files \subseteq solid
  /\ temp = IF pc[w] \in Writing THEN {w} ELSE {}
  /\ files = IF pc[w] \in Linked THEN Committed(ledger) \cup ({env[w]} \ {Event})
             ELSE Committed(ledger)
  /\ pc[w] \in Claimed => env[w] \notin Committed(ledger)
  /\ pc[w] \in Claimed \cup {"claim"} /\ env[w] # Event =>
       Legal(Append(Envelopes(ledger), env[w]))
  /\ pc[w] = "append" => seen[w] = Len(ledger)
SoloInv == \A w \in Writer : Writer = {w} /\ trouble = 0 => Alone(w)

LEMMA InitSolo == Init => SoloInv
<1> SUFFICES ASSUME Init, NEW w \in Writer PROVE Alone(w)
  BY DEF SoloInv
<1>1. Chained(<< >>) /\ Legal(<< >>) /\ Committed(<< >>) = {}
  BY DEF Chained, Legal, Committed
<1> QED
  BY <1>1, EnvelopesEmpty DEF Init, Alone, Linked, Claimed, Writing

\* A verification that the session of a single writer passes: only between
\* calls, at the start of one and at its end.
LEMMA AloneVerified ==
  ASSUME NEW w \in Writer, Alone(w), pc[w] \in {"idle", "verify", "confirm", "syncLedger"}
  PROVE  Verified
  BY DEF Alone, Verified, Linked, Writing

\* A record that takes the next place and commits nothing again continues the
\* chain.
LEMMA ChainedAppend ==
  ASSUME NEW s \in Seq(Record), Chained(s), NEW r \in Record,
         r.seq = Len(s) + 1, r.env = Event \/ r.env \notin Committed(s)
  PROVE  Chained(Append(s, r))
<1> DEFINE t == Append(s, r)
<1>1. /\ Len(s) \in Nat /\ DOMAIN s = 1 .. Len(s) /\ DOMAIN t = 1 .. Len(s) + 1
      /\ t[Len(s) + 1] = r
      /\ \A i \in 1 .. Len(s) : t[i] = s[i]
  OBVIOUS
<1> HIDE DEF t
<1>2. ASSUME NEW i \in DOMAIN t
      PROVE  /\ t[i].seq = i
             /\ \A j \in 1 .. (i - 1) : t[j].env = t[i].env => t[i].env = Event
  <2>1. CASE i \in 1 .. Len(s)
    BY <1>1, <2>1 DEF Chained
  <2>2. CASE i = Len(s) + 1
    <3>1. \A j \in 1 .. (i - 1) : t[j].env \in Committed(s) \cup {Event}
      BY <1>1, <2>2 DEF Committed
    <3> QED
      BY <1>1, <2>2, <3>1
  <2> QED
    BY <1>1, <2>1, <2>2
<1> QED
  BY <1>2 DEF Chained, t

\* A step of the single writer that leaves the ledger alone.
LEMMA AloneStep ==
  ASSUME Inv, NEW w \in Writer, Writer = {w}, Alone(w), Step(w), ~AppendRecord(w)
  PROVE  Alone(w)'
<1>0. /\ pc \in [Writer -> Steps] /\ env \in [Writer -> Envelope \cup {Event, None}]
      /\ seen \in [Writer -> Nat] /\ w \notin failing
  BY DEF Inv, TypeOK, Alone
<1> USE <1>0 DEF Alone, Linked, Claimed, Writing
<1>1. CASE Verify(w)
  <2>1. /\ pc[w] = "verify" /\ UNCHANGED <<files, temp, solid, ledger, tail>>
        /\ failing' = {} /\ Event \notin Committed(ledger)
    BY <1>1 DEF Verify, Goto, Refuse, artifacts, Committed
  <2>2. CASE Goto(w, "read") /\ env[w] = Event
    BY <2>1, <2>2 DEF Goto
  <2>3. CASE Goto(w, "sequence")
    BY <2>1, <2>3 DEF Goto
  <2>4. CASE Refuse(w)
    BY <2>1, <2>4 DEF Refuse
  <2> QED
    BY <1>1, <2>2, <2>3, <2>4 DEF Verify
<1>2. CASE Sequence(w)
  BY <1>2 DEF Sequence, Goto, Refuse, artifacts
<1>3. CASE Claim(w)
  BY <1>3 DEF Claim, Goto, Refuse, artifacts
<1>4. CASE WriteTemp(w)
  BY <1>4 DEF WriteTemp, Goto
<1>5. CASE SyncTemp(w)
  BY <1>5 DEF SyncTemp, Goto
<1>6. CASE Link(w)
  <2>1. env[w] \in solid /\ env[w] \in Envelope
    BY <1>6 DEF Link, Inv, Durable
  <2>2. files' = files \cup {env[w]} /\ Goto(w, "syncDir")
    BY <1>6 DEF Link
  <2> QED
    BY <1>6, <2>1, <2>2, StoreAssumption DEF Link, Goto
<1>7. CASE SyncDir(w)
  BY <1>7 DEF SyncDir, Goto, artifacts
<1>8. CASE Untemp(w)
  BY <1>8 DEF Untemp, Goto
<1>9. CASE SyncUntemp(w)
  BY <1>9 DEF SyncUntemp, Goto, artifacts
<1>10. CASE ReadLedger(w)
  BY <1>10 DEF ReadLedger, artifacts
<1>11. CASE SyncLedger(w)
  BY <1>11 DEF SyncLedger, Goto, artifacts
<1>12. CASE Confirm(w)
  BY <1>12 DEF Confirm, Refuse, artifacts
<1> QED
  BY <1>1, <1>2, <1>3, <1>4, <1>5, <1>6, <1>7, <1>8, <1>9, <1>10, <1>11, <1>12 DEF Step

\* The record lands where the writer read that it will, and the lifecycle was
\* asked about its envelope.
LEMMA AloneAppend ==
  ASSUME Inv, NEW w \in Writer, Writer = {w}, Alone(w), AppendRecord(w)
  PROVE  Alone(w)'
<1> DEFINE r == [seq |-> seen[w] + 1, env |-> env[w]]
<1>1. /\ ledger \in Seq(Record) /\ env[w] \in Envelope \cup {Event}
      /\ seen[w] = Len(ledger) /\ Len(ledger) \in Nat
  BY DEF AppendRecord, Inv, TypeOK, Durable, Alone
<1>2. /\ pc[w] = "append" /\ pc' = [pc EXCEPT ![w] = "syncLedger"] /\ pc'[w] = "syncLedger"
      /\ UNCHANGED <<env, failing, files, temp, solid, tail>>
      /\ ledger' = Append(ledger, r)
  BY DEF AppendRecord, Goto, artifacts, Inv, TypeOK, Alone
<1>3. r \in Record /\ r.seq = Len(ledger) + 1 /\ r.env = env[w]
  BY <1>1 DEF Record
<1>4. env[w] \notin Committed(ledger)
  BY <1>2 DEF Alone, Claimed, Linked
<1> HIDE DEF r
<1>5. Chained(ledger')
  BY <1>1, <1>2, <1>3, <1>4, ChainedAppend DEF Alone
<1>6. Legal(Envelopes(ledger'))
  BY <1>1, <1>2, <1>3, EnvelopesAppend DEF Alone, Claimed, Linked
<1>7. files' = Committed(ledger')
  BY <1>1, <1>2, <1>3, CommittedAppend DEF Alone, Linked
<1> QED
  BY <1>2, <1>5, <1>6, <1>7 DEF Alone, Linked, Claimed, Writing

LEMMA NextSolo == Inv /\ SoloInv /\ [Next]_vars => SoloInv'
<1> SUFFICES ASSUME Inv, SoloInv, [Next]_vars, NEW w \in Writer, Writer = {w}, trouble' = 0
             PROVE  Alone(w)'
  BY DEF SoloInv
<1>1. CASE UNCHANGED vars
  <2>1. Alone(w)
    BY <1>1 DEF vars, SoloInv
  <2> QED
    BY <1>1, <2>1 DEF vars, process, artifacts, Alone
<1>2. CASE Step(w)
  <2>1. trouble' = trouble
    BY <1>2 DEF Step, Verify, Sequence, Claim, WriteTemp, SyncTemp, Link, SyncDir, Untemp,
                SyncUntemp, ReadLedger, AppendRecord, SyncLedger, Confirm
  <2>2. Alone(w)
    BY <2>1 DEF SoloInv
  <2> QED
    BY <1>2, <2>2, AloneStep, AloneAppend
<1>3. CASE Fault(w) \/ Crash(w) \/ PowerLoss
  BY <1>3 DEF Fault, Crash, PowerLoss, Trouble, Inv, TypeOK
<1>4. ASSUME NEW e \in Envelope \cup {Event}, Begin(w, e) PROVE Alone(w)'
  <2>1. Alone(w) /\ pc[w] = "idle" /\ pc'[w] = "verify"
    BY <1>4 DEF Begin, SoloInv, Inv, TypeOK
  <2> QED
    BY <1>4, <2>1 DEF Begin, artifacts, Alone, Linked, Claimed, Writing
<1> QED
  BY <1>1, <1>2, <1>3, <1>4 DEF Next

-----------------------------------------------------------------------------
(* The promises of the store *)

\* Variables keep their shape over any number of writers and calls.
THEOREM TypeCorrect == Spec => []TypeOK
<1>1. Inv => TypeOK
  BY DEF Inv
<1> QED
  BY <1>1, Invariance, PTL

\* With any number of writers, and whatever fails, no commit ever lacks its
\* artifact on disk.
THEOREM NoCommitWithoutArtifact == Spec => []CommitsBacked
<1>1. Inv => CommitsBacked
  BY DEF Inv
<1> QED
  BY <1>1, Invariance, PTL

\* With any number of writers, and whatever fails, what a caller was told is
\* committed is in the part of the ledger that a power loss leaves.
THEOREM AcknowledgedSurvives == Spec => []AckedKept
<1>1. Inv => AckedKept
  BY DEF Inv
<1> QED
  BY <1>1, Invariance, PTL

LEMMA MappedLog == Envelopes(SubSeq(ledger, 1, SoundLength)) = LogOf(ledger)
  BY DEF LogOf, SoundLength, ReachOf, Sound, SoundRecords

\* The log of a session root that was just created is empty.
LEMMA InitRefines == Init => Log!Init
<1> SUFFICES ASSUME Init PROVE LogOf(ledger) = << >> /\ acked = {}
  BY MappedLog DEF Log!Init
<1>1. ledger = << >> /\ acked = {} /\ << >> \in Seq(Record) /\ Len(<< >>) = 0
  BY DEF Init
<1>2. ReachOf(ledger) = 0
  <2>1. ReachOf(ledger) \in 0 .. Len(ledger)
    BY <1>1, ReachOfReaches DEF Reach
  <2> QED
    BY <1>1, <2>1
<1>3. SubSeq(ledger, 1, 0) = << >>
  BY <1>1
<1> QED
  BY <1>1, <1>2, <1>3, EnvelopesEmpty DEF LogOf

\* Every step is one of the abstract log, or leaves it as it is: a record
\* behind the sound part commits, a confirmation acknowledges, a power loss
\* loses what nobody was told of.
LEMMA NextRefines ==
  ASSUME Inv, AckedSound, AckedSound', [Next]_vars
  PROVE  [Log!Next]_Log!vars
<1>0. ledger \in Seq(Record) /\ kept.len \in 0 .. Len(ledger)
  BY DEF Inv, TypeOK
<1>1. /\ Envelopes(SubSeq(ledger, 1, SoundLength)) = LogOf(ledger)
      /\ Envelopes(SubSeq(ledger, 1, SoundLength))' = LogOf(ledger')
  BY DEF LogOf, SoundLength, ReachOf, Sound, SoundRecords
<1>2. ASSUME NEW s \in Seq(Record), NEW n, Reach(s, n)
      PROVE  Committed(SubSeq(s, 1, n)) = Log!Members(Envelopes(SubSeq(s, 1, n)))
  <2>1. SubSeq(s, 1, n) \in Seq(Record)
    BY <1>2, CommittedPrefix DEF Reach
  <2> QED
    BY <2>1, EnvelopesCommitted DEF Log!Members
<1>3. ASSUME NEW s \in Seq(Record) PROVE Committed(SubSeq(s, 1, ReachOf(s))) = Log!Members(LogOf(s))
  BY <1>2, ReachOfReaches DEF LogOf
<1>4. CASE UNCHANGED <<ledger, acked>>
  BY <1>1, <1>4 DEF Log!vars
<1>5. CASE Grows
  <2>1. PICK r \in Record : ledger' = Append(ledger, r) /\ UNCHANGED acked
    BY <1>5 DEF Grows
  <2>2. CASE LogOf(ledger') = LogOf(ledger)
    BY <1>1, <2>1, <2>2 DEF Log!vars
  <2>3. CASE /\ r.env \in Envelope
             /\ LogOf(ledger') = Append(LogOf(ledger), r.env) /\ Legal(LogOf(ledger'))
    <3>1. Log!Commit(r.env)
      BY <1>1, <2>1, <2>3 DEF Log!Commit
    <3> QED
      BY <2>3, <3>1 DEF Log!Next
  <2> QED
    BY <1>0, <2>1, <2>2, <2>3, LogAppend
<1>6. CASE Acknowledges
  <2>1. PICK e \in Committed(ledger) : acked' = acked \cup {e}
    BY <1>6 DEF Acknowledges
  <2>2. Committed(ledger) = Log!Members(LogOf(ledger))
    <3>1. ReachOf(ledger) = Len(ledger) /\ SubSeq(ledger, 1, Len(ledger)) = ledger
      BY <1>0, <1>6, VerifiedReach, WholePrefix DEF Acknowledges
    <3> QED
      BY <1>0, <1>3, <3>1
  <2>3. e \in Envelope
    <3>1. PICK i \in DOMAIN ledger : e = ledger[i].env /\ e # Event
      BY <2>1 DEF Committed
    <3>2. ledger[i] \in Record
      BY <1>0
    <3> QED
      BY <3>1, <3>2 DEF Record
  <2>4. Log!Acknowledge(e)
    BY <1>1, <1>6, <2>1, <2>2 DEF Log!Acknowledge, Acknowledges
  <2> QED
    BY <2>3, <2>4 DEF Log!Next
<1>7. CASE Cut
  <2>1. PICK k \in kept.len .. Len(ledger) : ledger' = SubSeq(ledger, 1, k) /\ UNCHANGED acked
    BY <1>7 DEF Cut
  <2>2. k \in 0 .. Len(ledger)
    BY <1>0
  <2>3. \E m \in 0 .. Len(LogOf(ledger)) : LogOf(ledger') = SubSeq(LogOf(ledger), 1, m)
    BY <1>0, <2>1, <2>2, LogCut
  <2>4. acked \subseteq Log!Members(LogOf(ledger'))
    <3>1. ledger' \in Seq(Record)
      BY <1>0, <2>1, <2>2, CommittedPrefix
    <3> QED
      BY <1>3, <2>1, <3>1 DEF AckedSound
  <2>5. Log!Lose
    BY <1>1, <2>1, <2>3, <2>4 DEF Log!Lose
  <2> QED
    BY <2>5 DEF Log!Next
<1> QED
  BY <1>4, <1>5, <1>6, <1>7, StepKinds

\* Whatever fails, and also when a second writer breaks the single-writer rule:
\* the sound part of the ledger is a log that the lifecycle accepts, grows by
\* artifacts it accepts next, and never loses one whose call returned.
THEOREM CommitLogImplemented == Spec => ImplementsCommitLog
<1>1. Spec => []AckedSound
  <2>1. Inv /\ AckedSound /\ [Next]_vars => AckedSound'
    BY NextSound
  <2> QED
    BY <2>1, InitSound, Invariance, PTL DEF Spec
<1>2. Inv /\ AckedSound /\ AckedSound' /\ [Next]_vars => [Log!Next]_Log!vars
  BY NextRefines
<1> QED
  BY <1>1, <1>2, InitRefines, Invariance, PTL DEF Spec, ImplementsCommitLog, Log!Spec

\* One writer that meets no fault leaves a session that verifies between any
\* two of its calls, whatever it tried to write.
THEOREM SoloSessionVerifies == Spec => []SoloSound
<1>1. Spec => []SoloInv
  BY InitSolo, NextSolo, Invariance, PTL DEF Spec
<1>2. SoloInv => SoloSound
  BY AloneVerified DEF SoloInv, SoloSound
<1> QED
  BY <1>1, <1>2, PTL
=============================================================================
