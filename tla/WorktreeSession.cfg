SPECIFICATION Spec
CONSTANTS
  Runs = {r1, r2}
  Ids = {"s", "s1"}
  Longer <- MCLonger
  Versions = {a, b, c}
  PRText = "pr"
  Rules <- MCRules
  MaxEdits = 1
  MaxCloses = 1
INVARIANTS SnapshotExact PreparedKept IgnoredFirst
SYMMETRY MCSymmetry
CHECK_DEADLOCK FALSE
