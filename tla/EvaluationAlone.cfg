\* One evaluation, with faults of the Store and damage to it, and its end; no
\* symmetry.
SPECIFICATION FairSpec
CONSTANTS
  cOn = cOn
  cOff = cOff
  t1 = t1
  t2 = t2
  t3 = t3
  l1 = l1
  l2 = l2
  l3 = l3
  NoCandidate = NoCandidate
  Candidate <- MCCandidate
  OnTarget <- MCOnTarget
  Thread <- MCThreeThreads
  Launch <- MCThreeLaunches
  MaxCandidates = 2
  Evaluation = {e1}
  MaxTrouble = 2
INVARIANTS
  TypeOK
  OutcomeMatchesStore
  RecoveryOnlyOnFault
PROPERTIES
  DispatchRecorded
  EvaluationEnds
\* Every evaluation ends.
CHECK_DEADLOCK FALSE
