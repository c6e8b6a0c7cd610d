-------------------------- MODULE EvaluationPromise --------------------------
(***************************************************************************)
(* What evaluations that are given the same worker backend promise,        *)
(* without sessions and steps: workers are dispatched while an evaluation  *)
(* is open, it is concluded once and ends once, and one that completes     *)
(* with worker evidence had the backend for itself.                        *)
(***************************************************************************)
EXTENDS Naturals

CONSTANT Evaluation

VARIABLES
  phase,  \* "open", "concluded", or how the evaluation ended
  spent   \* the worker attempts it dispatched

vars == <<phase, spent>>

Endings == {"blocked", "completed", "diagnosed", "recovered", "raised"}

Init ==
  /\ phase = [e \in Evaluation |-> "open"]
  /\ spent = [e \in Evaluation |-> 0]

\* An attempt that somebody completed with is not there to be dispatched.
Dispatch(e) ==
  /\ phase[e] = "open"
  /\ \A f \in Evaluation : phase[f] = "completed" => spent[f] = 0
  /\ spent' = [spent EXCEPT ![e] = @ + 1]
  /\ UNCHANGED phase

Conclude(e) ==
  /\ phase[e] = "open"
  /\ phase' = [phase EXCEPT ![e] = "concluded"]
  /\ UNCHANGED spent

\* Only a session that nothing was dispatched for is said to be blocked.
End(e, ending) ==
  /\ CASE ending = "blocked" -> phase[e] = "open" /\ spent[e] = 0
       [] ending = "diagnosed" -> phase[e] = "concluded"
       [] ending = "completed" ->
            /\ phase[e] = "concluded"
            /\ spent[e] = 0 \/ \A f \in Evaluation \ {e} : spent[f] = 0
       [] OTHER -> phase[e] \in {"open", "concluded"}
  /\ phase' = [phase EXCEPT ![e] = ending]
  /\ UNCHANGED spent

Next ==
  \E e \in Evaluation :
    Dispatch(e) \/ Conclude(e) \/ \E ending \in Endings : End(e, ending)

Spec == Init /\ [][Next]_vars
=============================================================================
