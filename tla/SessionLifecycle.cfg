\* Arbitrary artifacts submitted to one session.
SPECIFICATION Spec
CONSTANTS
  c1 = c1
  c2 = c2
  cOff = cOff
  t1 = t1
  t2 = t2
  t3 = t3
  l1 = l1
  l2 = l2
  l3 = l3
  NoCandidate = NoCandidate
  Candidate <- MCCandidate
  OnTarget <- MCOnTarget
  Thread <- MCThread
  Launch <- MCLaunch
  MaxCandidates = 2
SYMMETRY MCSymmetry
INVARIANTS
  TerminalIsLast
  ExecutionsDistinct
  CompletionAccounts
  VerdictHonest
  DiagnosisTruthful
  AlwaysConcludable
\* A reported session is finished.
CHECK_DEADLOCK FALSE
