SPECIFICATION Spec
CONSTANTS
  Call = {c1, c2}
  Directory = {d1, d2}
  Text = {t1, t2}
  Missing = Missing
  Blocked = Blocked
  MaxTrouble = 2
SYMMETRY Symmetry
INVARIANTS NeverTorn ReturnedKept NoLitter LastWriterReturns
CHECK_DEADLOCK FALSE
