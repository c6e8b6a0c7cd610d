----------------------------- MODULE SessionRoot -----------------------------
(***************************************************************************)
(* What creating a session promises, without saying how: the session root  *)
(* appears at once and belongs to one party, who may be told so; it is     *)
(* never replaced, and once its creator was told it does not go away.      *)
(***************************************************************************)
CONSTANTS
  Creator,  \* the calls of ArtifactStore.create on one session root
  Foreign,  \* any other program that makes the same path
  None

VARIABLES
  root,      \* who made the session root
  acked,     \* the creators told that their session exists
  anchored   \* the parent directory survives a power loss

vars == <<root, acked, anchored>>

Init == root = None /\ acked = {} /\ anchored \in BOOLEAN

\* The root becomes visible, complete.
Appear(o) == root = None /\ root' = o /\ UNCHANGED <<acked, anchored>>

\* Its creator is told.
Acknowledge(c) == root = c /\ acked' = acked \cup {c} /\ UNCHANGED <<root, anchored>>

\* A power loss takes away a root nobody was told of; or any root, when the
\* directory above it was itself never made durable.
Lose ==
  /\ root \in acked => ~anchored
  /\ root' = None
  /\ UNCHANGED <<acked, anchored>>

Next ==
  \/ \E o \in Creator \cup {Foreign} : Appear(o)
  \/ \E c \in Creator : Acknowledge(c)
  \/ Lose

Spec == Init /\ [][Next]_vars
=============================================================================
