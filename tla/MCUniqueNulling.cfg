\* A row moves from a contested value to another.
SPECIFICATION Spec
CONSTANTS
  Peers = {1, 2}
  k1 = k1  k2 = k2  k3 = k3  k4 = k4  c1 = c1  c2 = c2  v1 = v1  v2 = v2
  Keys = {k1, k2}
  Cols = {c1}
  Values = {v1, v2, null}
  Null = null
  TableOrder <- OneTable
  TableOf <- AllInOne
  Schemas <- UniqueColumn
  MaxCounter <- UpTo3
  MaxRows = 1
  CopyColumns = FALSE
SYMMETRY Symmetry
INVARIANTS
  OnlyConflictsAreNulled
CHECK_DEADLOCK FALSE
