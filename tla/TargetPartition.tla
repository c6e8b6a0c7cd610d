--------------------------- MODULE TargetPartition ---------------------------
(***************************************************************************)
(* seal_two_dot_target: the changes between two commits become coverage    *)
(* atoms, one for the metadata of each changed path and one for each hunk  *)
(* of its diff, and every atom goes either to the reviewers or, with a     *)
(* reason, to a person.  A path can be withheld as a whole; a passage that *)
(* the redaction replaced takes the hunks it touches out of the review.    *)
(*                                                                         *)
(* Abstracted data: a path is its position in the sorted list of changes;  *)
(* a hunk is its number, which stands for the header that both parsers of  *)
(* the diff find; the texts, the hashes and the rules that find sensitive  *)
(* passages are left out, only where the chosen passages lie is kept.      *)
(***************************************************************************)
EXTENDS Naturals, Sequences, FiniteSets

CONSTANTS
  Changes,   \* the changes a path may have undergone
  MaxHunks,  \* bound on the hunks of one path
  MaxPaths   \* bound on the paths of one target

Regular == {"none", "file", "exec"}
Modes == Regular \cup {"link", "gitlink", "other"}

(***************************************************************************)
(* A change: the letter and the two modes git reports, whether the path    *)
(* has a sensitive name, and its diff: empty, binary for --numstat, with a *)
(* NUL, decodable, its hunks, and the passages to redact.  A passage is    *)
(* the pair of the first and the last hunk it lies in, 0 for the lines     *)
(* before the first hunk.                                                  *)
(***************************************************************************)
Passages == {p \in (0..MaxHunks) \X (0..MaxHunks) : p[1] <= p[2]}
Change == [status : {"A", "D", "M", "T", "U"}, old : Modes, new : Modes,
           sensitive : BOOLEAN, empty : BOOLEAN, binary : BOOLEAN, nul : BOOLEAN,
           utf8 : BOOLEAN, hunks : 0..MaxHunks, passages : SUBSET Passages]

ASSUME TargetAssumption ==
  /\ MaxHunks \in Nat /\ MaxPaths \in Nat
  /\ Changes \subseteq Change
  /\ \A c \in Changes : \A p \in c.passages : p[2] <= c.hunks

VARIABLES
  pc,
  records,   \* the changes, in the order of their paths
  next,      \* the path to classify next
  hints,     \* what _manual wants claimed, from the paths classified so far
  heard,     \* the hints that were dealt with
  manual,    \* the dispositions made so far
  claimed,   \* the atoms they claim
  packet     \* the atoms handed to the reviewers

vars == <<pc, records, next, hints, heard, manual, claimed, packet>>

Init ==
  /\ pc = "resolve" /\ records = <<>> /\ next = 1
  /\ hints = {} /\ heard = {} /\ manual = {} /\ claimed = {} /\ packet = {}

Refuse ==
  /\ pc' = "refused"
  /\ UNCHANGED <<records, next, hints, heard, manual, claimed, packet>>

-----------------------------------------------------------------------------
(* The atoms of a path, and what is to be claimed of them.                 *)

Atom == [path : 1..MaxPaths, hunk : 0..MaxHunks]
Metadata == 0
AtomsOf(k) == {a \in Atom : a.path = k /\ a.hunk <= records[k].hunks}
AllAtoms == UNION {AtomsOf(k) : k \in DOMAIN records}

SpecialReason(c) ==
  LET modes == {c.old, c.new} IN
  IF c.empty THEN "unparseable_diff"
  ELSE IF c.status \notin {"A", "D", "M", "T"} THEN "unparseable_change"
  ELSE IF "gitlink" \in modes THEN "submodule_gitlink"
  ELSE IF "link" \in modes \/ ~(modes \subseteq Regular) THEN "special_file"
  ELSE "regular"

\* classify_and_redact_diff up to the redaction: why the whole diff of the
\* path is withheld.
WithheldReason(c) ==
  IF c.sensitive THEN "sensitive_path"
  ELSE IF SpecialReason(c) # "regular" THEN SpecialReason(c)
  ELSE IF c.binary \/ c.nul THEN "binary_content"
  ELSE IF ~c.utf8 THEN "undecodable_text"
  ELSE "none"

\* The hunks that a passage overlaps; no header when it ends before them all.
NoHeader == 0
\* Bug: only the hunk a passage begins in is withheld.
Bug_HunkOfStart(p) == {p[1]}

HunksForRange(p) ==
  IF p[2] = 0 THEN {NoHeader} ELSE {h \in 1..MaxHunks : p[1] <= h /\ h <= p[2]}

ModeOnly(c) ==
  /\ c.hunks = 0 /\ c.status = "M"
  /\ c.old \in {"file", "exec"} /\ c.new \in {"file", "exec"} /\ c.old # c.new

Reasons == {"sensitive_path", "unparseable_diff", "unparseable_change", "submodule_gitlink",
            "special_file", "binary_content", "undecodable_text",
            "sensitive_content_redacted", "mode_only_change"}
Hint == [path : 1..MaxPaths, rank : 0..MaxHunks + 1, hunk : 0..MaxHunks, reason : Reasons]

(***************************************************************************)
(* The hints of one path.  The passages are found in text order and each   *)
(* hunk gives one hint, so that a redaction lists its hunks upwards; the   *)
(* rank is the place in the list.                                          *)
(***************************************************************************)
HintsOf(k) ==
  LET c == records[k]
      content ==
        IF WithheldReason(c) # "none"
        THEN {[path |-> k, rank |-> 0, hunk |-> NoHeader, reason |-> WithheldReason(c)]}
        ELSE {[path |-> k, rank |-> h, hunk |-> h, reason |-> "sensitive_content_redacted"] :
                 h \in UNION {HunksForRange(p) : p \in c.passages}}
      mode ==
        IF ModeOnly(c)
        THEN {[path |-> k, rank |-> 1, hunk |-> NoHeader, reason |-> "mode_only_change"]}
        ELSE {}
  IN content \cup mode

\* The atoms that a hint selects, before those already claimed are left out.
Selected(h) ==
  IF h.hunk = NoHeader THEN AtomsOf(h.path)
  ELSE LET hunk == {a \in AtomsOf(h.path) : a.hunk = h.hunk}
       IN IF hunk # {} THEN hunk ELSE {a \in AtomsOf(h.path) : a.hunk = Metadata}

Earlier(g, h) == g.path < h.path \/ (g.path = h.path /\ g.rank < h.rank)

-----------------------------------------------------------------------------
(* The steps.                                                              *)

\* The checkout is clean and the two names lead to two commits.
Resolve ==
  /\ pc = "resolve"
  /\ \/ Refuse
     \/ /\ pc' = "view"
        /\ UNCHANGED <<records, next, hints, heard, manual, claimed, packet>>

\* The diffs between the fixed commits, read in an empty repository view; the
\* manifests of --raw and --numstat must name the same paths, and some path.
ReadView ==
  /\ pc = "view"
  /\ \/ Refuse
     \/ \E n \in 1..MaxPaths : \E cs \in [1..n -> Changes] :
          /\ records' = cs
          /\ pc' = "classify"
          /\ UNCHANGED <<next, hints, heard, manual, claimed, packet>>

Classify ==
  /\ pc = "classify"
  /\ next <= Len(records)
  /\ hints' = hints \cup HintsOf(next)
  /\ next' = next + 1
  /\ pc' = IF next = Len(records) THEN "claim" ELSE "classify"
  /\ UNCHANGED <<records, heard, manual, claimed, packet>>

\* Bug: an atom that was claimed already is claimed again.
Bug_ClaimAgain ==
  /\ pc = "claim"
  /\ \E h \in hints \ heard :
       /\ \A g \in hints \ heard : ~Earlier(g, h)
       /\ manual' = manual \cup {[path |-> h.path, reason |-> h.reason, atoms |-> Selected(h)]}
       /\ claimed' = claimed \cup Selected(h)
       /\ heard' = heard \cup {h}
  /\ UNCHANGED <<pc, records, next, hints, packet>>

\* The loop over the hints.
Claim ==
  /\ pc = "claim"
  /\ \E h \in hints \ heard :
       /\ \A g \in hints \ heard : ~Earlier(g, h)
       /\ LET selected == Selected(h) \ claimed IN
          /\ manual' = manual \cup
               (IF selected = {} THEN {}
                ELSE {[path |-> h.path, reason |-> h.reason, atoms |-> selected]})
          /\ claimed' = claimed \cup selected
       /\ heard' = heard \cup {h}
  /\ UNCHANGED <<pc, records, next, hints, packet>>

\* build_review_packet reads what is reviewable off the dispositions, the
\* partition is checked, and the guard on sensitive material has its say.
Reviewable == AllAtoms \ UNION {d.atoms : d \in manual}

Finish ==
  /\ pc = "claim" /\ heard = hints
  /\ \/ Refuse
     \/ /\ Reviewable \cup claimed = AllAtoms
        /\ packet' = Reviewable
        /\ pc' = "sealed"
        /\ UNCHANGED <<records, next, hints, heard, manual, claimed>>

Next == Resolve \/ ReadView \/ Classify \/ Claim \/ Finish

Spec == Init /\ [][Next]_vars

-----------------------------------------------------------------------------
(* Properties.                                                             *)

TypeOK ==
  /\ pc \in {"resolve", "view", "classify", "claim", "sealed", "refused"}
  /\ records \in Seq(Changes) /\ Len(records) <= MaxPaths
  /\ next \in 1..MaxPaths + 1
  /\ hints \subseteq Hint /\ heard \subseteq hints
  /\ manual \subseteq [path : 1..MaxPaths, reason : Reasons, atoms : SUBSET Atom]
  /\ claimed \subseteq Atom /\ packet \subseteq Atom

\* Whatever hints overlap, no atom is in two dispositions or in a disposition
\* and the packet, no disposition is empty or crosses paths, and in a sealed
\* target nothing is left over: the account of a completion adds up only then.
Partitioned ==
  /\ \A d, e \in manual : d # e => d.atoms \cap e.atoms = {}
  /\ \A d \in manual : d.atoms # {} /\ \A a \in d.atoms : a.path = d.path
  /\ pc = "sealed" =>
       /\ AllAtoms = packet \cup UNION {d.atoms : d \in manual}
       /\ \A d \in manual : packet \cap d.atoms = {}

\* A reference for the whole of the two passes: why an atom is for a person.
TouchedBy(p, h) == p[1] <= h /\ h <= p[2]
Causes(a) ==
  LET c == records[a.path] IN
  \/ WithheldReason(c) # "none"
  \/ ModeOnly(c)
  \/ \E p \in c.passages : p[2] = 0
  \/ a.hunk # Metadata /\ \E p \in c.passages : TouchedBy(p, a.hunk)

\* The reviewers get exactly the atoms that nothing speaks against: no hunk
\* with a redacted passage, nothing of a withheld path, and nothing less.
ManualForCause ==
  pc = "sealed" => packet = {a \in AllAtoms : ~Causes(a)}
=============================================================================
