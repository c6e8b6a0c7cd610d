\* Two evaluations that were handed the same backend.
SPECIFICATION Spec
CONSTANTS
  cOn = cOn
  cOff = cOff
  t1 = t1
  t2 = t2
  t3 = t3
  l1 = l1
  l2 = l2
  l3 = l3
  NoCandidate = NoCandidate
  Candidate <- MCCandidate
  OnTarget <- MCOnTarget
  Thread <- MCTwoThreads
  Launch <- MCTwoLaunches
  MaxCandidates = 1
  Evaluation = {e1, e2}
  MaxTrouble = 0
SYMMETRY MCSymmetry
INVARIANTS
  CompletionExact
PROPERTIES
  ImplementsPromise
\* Every evaluation ends.
CHECK_DEADLOCK FALSE
