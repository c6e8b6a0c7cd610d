---------------------------- MODULE ArtifactStore ----------------------------
(***************************************************************************)
(* ArtifactStore.write_artifact and append_event, system call by system    *)
(* call, on one session root.  An artifact is written to a temporary file, *)
(* flushed, linked under its hash, its directory flushed, and only then    *)
(* recorded at the end of the ledger, which is flushed in turn.  Before    *)
(* and after, the whole session is verified.                               *)
(*                                                                         *)
(* The class is documented as a single-writer store and takes no lock; the *)
(* model has any number of writers, to tell what one writer is promised    *)
(* and what is left of it when there are two.                              *)
(*                                                                         *)
(* The file system is kept twice: as the processes see it and as far as it *)
(* was flushed.  Abstracted data: an envelope is its hash; a ledger record *)
(* is the envelope it commits, or Event, and its place in the hash chain;  *)
(* the lifecycle is the operator Accepts.                                  *)
(***************************************************************************)
EXTENDS Naturals, Sequences

CONSTANTS
  Writer,
  Envelope,
  Event,      \* any record that commits no artifact
  None,
  Accepts(_, _), \* after these envelopes the lifecycle accepts this one next
  MaxCalls,   \* bound on the calls of write_artifact and append_event
  MaxTrouble  \* bound on faults, crashes and power losses

ASSUME StoreAssumption ==
  /\ Event \notin Envelope /\ None \notin Envelope \cup {Event}
  /\ MaxCalls \in Nat /\ MaxTrouble \in Nat

VARIABLES
  pc, env,   \* each writer's next step and what it writes
  seen,      \* the ledger length it read
  failing,   \* the writers whose exception is on its way through a finally
  files,     \* the envelopes linked under their hash
  temp,      \* the writers whose temporary file is there
  solid,     \* the envelopes whose file content was flushed
  ledger,    \* the records after the genesis event
  tail,      \* "torn" when the ledger ends in a partial record
  kept,      \* files, temp, ledger length and tail as far as flushed
  acked,     \* the envelopes whose call returned
  calls, trouble

process == <<pc, env, seen, failing>>
artifacts == <<files, temp, solid>>
vars == <<process, artifacts, ledger, tail, kept, acked, calls, trouble>>

Record == [seq : Nat, env : Envelope \cup {Event}]
Steps == {"idle", "verify", "sequence", "claim", "write", "syncTemp", "link",
          "syncDir", "untemp", "syncUntemp", "read", "append", "syncLedger", "confirm"}

Init ==
  /\ pc = [w \in Writer |-> "idle"] /\ env = [w \in Writer |-> None]
  /\ seen = [w \in Writer |-> 0] /\ failing = {}
  /\ files = {} /\ temp = {} /\ solid = {}
  /\ ledger = << >> /\ tail = "clean"
  /\ kept = [files |-> {}, temp |-> {}, len |-> 0, tail |-> "clean"]
  /\ acked = {} /\ calls = 0 /\ trouble = 0

-----------------------------------------------------------------------------
(* Verification *)

\* _validate_session_sequence: a loop that judges each envelope after those
\* before it.
Legal(envelopes) ==
  \A i \in DOMAIN envelopes : Accepts(SubSeq(envelopes, 1, i - 1), envelopes[i])

\* The artifacts that a sequence of records commits, in order.
Envelopes(records) ==
  LET upTo[n \in 0 .. Len(records)] ==
        IF n = 0 THEN << >>
        ELSE IF records[n].env = Event THEN upTo[n - 1]
        ELSE Append(upTo[n - 1], records[n].env)
  IN upTo[Len(records)]

Committed(records) == {records[i].env : i \in DOMAIN records} \ {Event}

\* _verify_ledger: every record names its place and its predecessor, and none
\* commits an envelope again.
Chained(records) ==
  \A i \in DOMAIN records :
    /\ records[i].seq = i
    /\ \A j \in 1 .. (i - 1) : records[j].env = records[i].env => records[i].env = Event

\* verify: the inventory, the chain, each file, and the lifecycle.
Verified ==
  /\ tail = "clean" /\ Chained(ledger)
  /\ temp = {}
  /\ files = Committed(ledger) /\ files \subseteq solid
  /\ Legal(Envelopes(ledger))

-----------------------------------------------------------------------------
(* The steps of one call *)

Goto(w, step) == pc' = [pc EXCEPT ![w] = step] /\ UNCHANGED <<env, seen, failing>>

\* The call raises, and the writer is free for another one.
Refuse(w) ==
  /\ pc' = [pc EXCEPT ![w] = "idle"]
  /\ env' = [env EXCEPT ![w] = None]
  /\ seen' = [seen EXCEPT ![w] = 0]
  /\ failing' = failing \ {w}

\* An exception inside _write_atomic: the finally clause comes first.
Unwind(w) ==
  /\ pc' = [pc EXCEPT ![w] = "untemp"]
  /\ failing' = failing \cup {w}
  /\ UNCHANGED <<env, seen>>

\* Bug: _fsync_directory does nothing.
Bug_FlushNothing == UNCHANGED kept
FlushDirectory == kept' = [kept EXCEPT !.files = files, !.temp = temp]

Begin(w, e) ==
  /\ pc[w] = "idle" /\ calls < MaxCalls
  /\ calls' = calls + 1
  /\ pc' = [pc EXCEPT ![w] = "verify"]
  /\ env' = [env EXCEPT ![w] = e]
  /\ UNCHANGED <<seen, failing, artifacts, ledger, tail, kept, acked, trouble>>

\* append_event goes from its verification to the ledger.
Verify(w) ==
  /\ pc[w] = "verify"
  /\ IF Verified THEN Goto(w, IF env[w] = Event THEN "read" ELSE "sequence")
                 ELSE Refuse(w)
  /\ UNCHANGED <<artifacts, ledger, tail, kept, acked, calls, trouble>>

\* The ledger is read again, every committed file with it, and the lifecycle
\* asked about the new envelope.
Sequence(w) ==
  /\ pc[w] = "sequence"
  /\ IF /\ tail = "clean" /\ Chained(ledger)
        /\ Committed(ledger) \subseteq files \cap solid
        /\ Legal(Append(Envelopes(ledger), env[w]))
     THEN Goto(w, "claim") ELSE Refuse(w)
  /\ UNCHANGED <<artifacts, ledger, tail, kept, acked, calls, trouble>>

\* The directory of the artifact's type, made and flushed here when it is
\* missing, is left out: SyncDir comes before the record in any case, and an
\* empty directory commits nothing.
Claim(w) ==
  /\ pc[w] = "claim"
  /\ IF env[w] \notin files THEN Goto(w, "write") ELSE Refuse(w)
  /\ UNCHANGED <<artifacts, ledger, tail, kept, acked, calls, trouble>>

WriteTemp(w) ==
  /\ pc[w] = "write"
  /\ temp' = temp \cup {w}
  /\ Goto(w, "syncTemp")
  /\ UNCHANGED <<files, solid, ledger, tail, kept, acked, calls, trouble>>

SyncTemp(w) ==
  /\ pc[w] = "syncTemp"
  /\ solid' = solid \cup {env[w]}
  /\ Goto(w, "link")
  /\ UNCHANGED <<files, temp, ledger, tail, kept, acked, calls, trouble>>

Link(w) ==
  /\ pc[w] = "link"
  /\ IF env[w] \notin files
     THEN files' = files \cup {env[w]} /\ Goto(w, "syncDir")
     ELSE UNCHANGED files /\ Unwind(w)
  /\ UNCHANGED <<temp, solid, ledger, tail, kept, acked, calls, trouble>>

SyncDir(w) ==
  /\ pc[w] = "syncDir"
  /\ FlushDirectory
  /\ Goto(w, "untemp")
  /\ UNCHANGED <<artifacts, ledger, tail, acked, calls, trouble>>

\* Bug: the temporary file is removed on the error path only.
Bug_UntempOnError(w) ==
  /\ pc[w] = "untemp"
  /\ temp' = IF w \in failing THEN temp \ {w} ELSE temp
  /\ Goto(w, "syncUntemp")
  /\ UNCHANGED <<files, solid, ledger, tail, kept, acked, calls, trouble>>

Untemp(w) ==
  /\ pc[w] = "untemp"
  /\ temp' = temp \ {w}
  /\ Goto(w, "syncUntemp")
  /\ UNCHANGED <<files, solid, ledger, tail, kept, acked, calls, trouble>>

SyncUntemp(w) ==
  /\ pc[w] = "syncUntemp"
  /\ FlushDirectory
  /\ IF w \in failing THEN Refuse(w) ELSE Goto(w, "read")
  /\ UNCHANGED <<artifacts, ledger, tail, acked, calls, trouble>>

\* Bug: the genesis event is counted twice.
Bug_ReadLedgerLong(w) ==
  /\ pc[w] = "read"
  /\ pc' = [pc EXCEPT ![w] = "append"]
  /\ seen' = [seen EXCEPT ![w] = Len(ledger) + 1]
  /\ UNCHANGED <<env, failing, artifacts, ledger, tail, kept, acked, calls, trouble>>

\* _append_event_unchecked reads the ledger for the last hash.
ReadLedger(w) ==
  /\ pc[w] = "read"
  /\ IF tail = "clean"
     THEN /\ pc' = [pc EXCEPT ![w] = "append"]
          /\ seen' = [seen EXCEPT ![w] = Len(ledger)]
          /\ UNCHANGED <<env, failing>>
     ELSE Refuse(w)
  /\ UNCHANGED <<artifacts, ledger, tail, kept, acked, calls, trouble>>

\* One write at the end of the file, whatever is there by now: behind a torn
\* record it is part of the same unreadable line.
AppendRecord(w) ==
  /\ pc[w] = "append"
  /\ ledger' = IF tail = "torn" THEN ledger
               ELSE Append(ledger, [seq |-> seen[w] + 1, env |-> env[w]])
  /\ Goto(w, "syncLedger")
  /\ UNCHANGED <<artifacts, tail, kept, acked, calls, trouble>>

\* Bug: the ledger is not flushed.
Bug_SyncLedgerNothing(w) ==
  /\ pc[w] = "syncLedger"
  /\ Goto(w, "confirm")
  /\ UNCHANGED <<artifacts, ledger, tail, kept, acked, calls, trouble>>

SyncLedger(w) ==
  /\ pc[w] = "syncLedger"
  /\ kept' = [kept EXCEPT !.len = Len(ledger), !.tail = tail]
  /\ Goto(w, "confirm")
  /\ UNCHANGED <<artifacts, ledger, tail, acked, calls, trouble>>

\* Bug: the call returns without verifying the session again.
Bug_ConfirmUnverified(w) ==
  /\ pc[w] = "confirm"
  /\ acked' = acked \cup ({env[w]} \ {Event})
  /\ Refuse(w)
  /\ UNCHANGED <<artifacts, ledger, tail, kept, calls, trouble>>

\* The final verification decides whether the call returns or raises.
Confirm(w) ==
  /\ pc[w] = "confirm"
  /\ acked' = IF Verified THEN acked \cup ({env[w]} \ {Event}) ELSE acked
  /\ Refuse(w)
  /\ UNCHANGED <<artifacts, ledger, tail, kept, calls, trouble>>

Step(w) ==
  \/ Verify(w) \/ Sequence(w) \/ Claim(w) \/ WriteTemp(w) \/ SyncTemp(w)
  \/ Link(w) \/ SyncDir(w) \/ Untemp(w) \/ SyncUntemp(w) \/ ReadLedger(w)
  \/ AppendRecord(w) \/ SyncLedger(w) \/ Confirm(w)

-----------------------------------------------------------------------------
(* What can go wrong *)

Trouble == trouble < MaxTrouble /\ trouble' = trouble + 1 /\ UNCHANGED calls

\* A system call of the step fails, or the user interrupts it.
Fault(w) ==
  /\ Trouble
  /\ \/ /\ pc[w] \in {"verify", "sequence", "claim", "write", "untemp",
                      "syncUntemp", "read", "append", "syncLedger", "confirm"}
        /\ Refuse(w)
        /\ UNCHANGED <<temp, tail>>
     \/ /\ pc[w] = "write"          \* part of the temporary file is written
        /\ temp' = temp \cup {w}
        /\ Unwind(w)
        /\ UNCHANGED tail
     \/ /\ pc[w] \in {"syncTemp", "link", "syncDir"}
        /\ Unwind(w)
        /\ UNCHANGED <<temp, tail>>
     \/ /\ pc[w] = "append"         \* part of the record is written
        /\ tail' = "torn"
        /\ Refuse(w)
        /\ UNCHANGED temp
  /\ UNCHANGED <<files, solid, ledger, kept, acked>>

\* The process is killed; another one may open the session later.
Crash(w) ==
  /\ Trouble
  /\ pc[w] # "idle"
  /\ Refuse(w)
  /\ UNCHANGED <<artifacts, ledger, tail, kept, acked>>

Between(low, high) == {s \in SUBSET (low \cup high) : low \cap high \subseteq s}

\* Every process ends.  What was flushed is there afterwards; of the rest any
\* part may be, and the ledger may end in a part of a record.
PowerLoss ==
  /\ Trouble
  /\ pc' = [w \in Writer |-> "idle"] /\ env' = [w \in Writer |-> None]
  /\ seen' = [w \in Writer |-> 0] /\ failing' = {}
  /\ files' \in Between(kept.files, files)
  /\ temp' \in Between(kept.temp, temp)
  /\ \E k \in kept.len .. Len(ledger) :
       /\ ledger' = SubSeq(ledger, 1, k)
       /\ tail' \in IF k < Len(ledger) THEN {"clean", "torn"} ELSE {kept.tail, tail}
       /\ kept' = [files |-> files', temp |-> temp', len |-> k, tail |-> tail']
  /\ UNCHANGED <<solid, acked>>

Next ==
  \/ \E w \in Writer : Step(w) \/ Fault(w) \/ Crash(w)
  \/ \E w \in Writer, e \in Envelope \cup {Event} : Begin(w, e)
  \/ PowerLoss

Spec == Init /\ [][Next]_vars

\* A process that runs is scheduled again and again; nobody has to call.
FairSpec == Spec /\ \A w \in Writer : WF_vars(Step(w))

-----------------------------------------------------------------------------
(* Properties *)

\* Every variable has its shape; what was flushed of the ledger is there; an
\* exception under way is inside the clause that removes the temporary file.
TypeOK ==
  /\ pc \in [Writer -> Steps] /\ failing \subseteq Writer
  /\ env \in [Writer -> Envelope \cup {Event, None}]
  /\ seen \in [Writer -> Nat]
  /\ files \subseteq Envelope /\ solid \subseteq Envelope /\ acked \subseteq Envelope
  /\ temp \subseteq Writer
  /\ ledger \in Seq(Record) /\ tail \in {"clean", "torn"}
  /\ kept \in [files : SUBSET Envelope, temp : SUBSET Writer, len : Nat,
               tail : {"clean", "torn"}]
  /\ kept.len <= Len(ledger)
  /\ \A w \in Writer : pc[w] = "idle" <=> env[w] = None
  /\ \A w \in failing : pc[w] \in {"untemp", "syncUntemp"}
  /\ calls \in 0 .. MaxCalls /\ trouble \in 0 .. MaxTrouble

\* Whatever the ledger records is backed by a file that was flushed, content
\* and name, before: no power loss leaves a commit without its artifact, even
\* a commit that no caller was told of.
CommitsBacked == Committed(ledger) \subseteq kept.files \cap solid

\* What a caller was told is committed stays committed: the flushed part of
\* the ledger records it.
AckedKept == acked \subseteq Committed(SubSeq(ledger, 1, kept.len))

\* A single writer that meets no trouble always leaves a session that
\* verifies, whatever artifacts it tried to write.
SoloSound ==
  \A w \in Writer : (Writer = {w} /\ trouble = 0 /\ pc[w] = "idle") => Verified

\* The records up to the first that does not continue the chain or that the
\* lifecycle rejects.
Sound(k) ==
  LET prefix == SubSeq(ledger, 1, k) IN
  Chained(prefix) /\ Legal(Envelopes(prefix))
SoundLength == CHOOSE k \in 0 .. Len(ledger) :
                 Sound(k) /\ (k < Len(ledger) => ~Sound(k + 1))

\* Over faults, crashes and power losses, and also when a second writer breaks
\* the single-writer rule, the sound part of the ledger is a legal log that
\* holds everything any caller was told is committed.
Log == INSTANCE CommitLog WITH log <- Envelopes(SubSeq(ledger, 1, SoundLength))
ImplementsCommitLog == Log!Spec

\* A single writer without trouble gets every artifact committed that the
\* lifecycle accepts next.
LegalCallsSucceed ==
  \A w \in Writer, e \in Envelope :
    (pc[w] = "verify" /\ env[w] = e /\ Legal(Append(Envelopes(ledger), e)))
      ~> (e \in acked \/ trouble > 0)
=============================================================================
