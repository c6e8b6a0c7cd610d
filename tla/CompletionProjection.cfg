\* Any evidence, projected; and completions that somebody changed.
SPECIFICATION Spec
CONSTANTS
  Candidates <- MCCandidates
  Answers <- MCAnswers
  Executions = {x1, x2, x3}
  Targets <- MCTargets
  MaxCandidates = 2
  MaxResults = 2
  MaxEdits = 2
SYMMETRY MCSymmetry
INVARIANTS ProjectionExact ValidatedHonest
\* A completion is final.
CHECK_DEADLOCK FALSE
