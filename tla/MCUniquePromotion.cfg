\* The owner of a value with two losers is deleted.
SPECIFICATION Spec
CONSTANTS
  Peers = {1}
  k1 = k1  k2 = k2  k3 = k3  k4 = k4  c1 = c1  c2 = c2  v1 = v1  v2 = v2
  Keys = {k1, k2, k3}
  Cols = {c1}
  Values = {v1, null}
  Null = null
  TableOrder <- OneTable
  TableOf <- AllInOne
  Schemas <- UniqueColumn
  MaxCounter <- UpTo6
  MaxRows = 1
  CopyColumns = FALSE
SYMMETRY Symmetry
INVARIANTS
  SomeLoserIsPromoted
CHECK_DEADLOCK FALSE
