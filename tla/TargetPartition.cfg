SPECIFICATION Spec
CONSTANTS
  Changes <- MCChanges
  MaxHunks = 2
  MaxPaths = 2
INVARIANTS Partitioned ManualForCause
CHECK_DEADLOCK FALSE
