------------------------------ MODULE CommitLog ------------------------------
(***************************************************************************)
(* What a session store promises its callers: a log of artifacts that at   *)
(* every moment is one the lifecycle accepts, and that keeps whatever a    *)
(* caller was told is committed.  A call may fail with its artifact in the *)
(* log or not, and what nobody was told of may be lost.                    *)
(***************************************************************************)
EXTENDS Naturals, Sequences

CONSTANTS
  Envelope,  \* artifact envelopes
  Legal(_)   \* the sequences of envelopes that the lifecycle accepts

VARIABLES log, acked

vars == <<log, acked>>

Members(s) == {s[i] : i \in DOMAIN s}

Init == log = << >> /\ acked = {}

Commit(e) ==
  /\ log' = Append(log, e)
  /\ Legal(log')
  /\ UNCHANGED acked

Acknowledge(e) ==
  /\ e \in Members(log)
  /\ acked' = acked \cup {e}
  /\ UNCHANGED log

Lose ==
  /\ \E k \in 0 .. Len(log) : log' = SubSeq(log, 1, k)
  /\ acked \subseteq Members(log')
  /\ UNCHANGED acked

Next == Lose \/ \E e \in Envelope : Commit(e) \/ Acknowledge(e)

Spec == Init /\ [][Next]_vars
=============================================================================
