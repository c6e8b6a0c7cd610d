\* No symmetry: a liveness property is checked.
SPECIFICATION FairSpec
CONSTANTS
  Creator = {a, b, c}
  Foreign = Foreign
  None = None
  MaxTrouble = 2
INVARIANTS
  Exclusive
  PublishedWhole
  NoLitter
PROPERTIES
  ImplementsSessionRoot
  SomeoneCreates
\* Every call ends.
CHECK_DEADLOCK FALSE
