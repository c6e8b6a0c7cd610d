-------------------------- MODULE MC_ArtifactStore --------------------------
(***************************************************************************)
(* Envelopes for two places of a lifecycle, with rivals for each place.    *)
(***************************************************************************)
EXTENDS ArtifactStore

CONSTANTS e1, f1, e2, f2

MCEnvelope == {e1, f1, e2, f2}
MCPlace == [e \in MCEnvelope |-> IF e \in {e1, f1} THEN 1 ELSE 2]
MCAccepts(s, e) == MCPlace[e] = Len(s) + 1
=============================================================================
