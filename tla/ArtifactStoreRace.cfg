\* The documented rule broken: two writers on one session.
SPECIFICATION Spec
CONSTANTS
  e1 = e1
  f1 = f1
  e2 = e2
  f2 = f2
  Event = Event
  None = None
  Writer = {v, w}
  Envelope <- MCEnvelope
  Accepts <- MCAccepts
  MaxCalls = 3
  MaxTrouble = 1
PROPERTIES
  ImplementsCommitLog
\* The writers may stop calling.
CHECK_DEADLOCK FALSE
