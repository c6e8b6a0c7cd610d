\* The documented use: one writer, with faults, crashes and power losses.
SPECIFICATION FairSpec
CONSTANTS
  e1 = e1
  f1 = f1
  e2 = e2
  f2 = f2
  Event = Event
  None = None
  Writer = {w}
  Envelope <- MCEnvelope
  Accepts <- MCAccepts
  MaxCalls = 4
  MaxTrouble = 2
INVARIANTS
  CommitsBacked
  AckedKept
  SoloSound
PROPERTIES
  ImplementsCommitLog
  LegalCallsSucceed
\* The writer may stop calling.
CHECK_DEADLOCK FALSE
