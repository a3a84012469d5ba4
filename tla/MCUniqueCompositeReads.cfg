\* A constraint over two columns: what a reader sees.
SPECIFICATION Spec
CONSTANTS
  Peers = {1, 2}
  k1 = k1  k2 = k2  k3 = k3  k4 = k4  c1 = c1  c2 = c2  v1 = v1  v2 = v2
  Keys = {k1, k2}
  Cols = {c1, c2}
  Values = {v1, null}
  Null = null
  TableOrder <- OneTable
  TableOf <- AllInOne
  Schemas <- UniquePair
  MaxCounter <- UpTo2
  MaxRows = 1
  CopyColumns = FALSE
SYMMETRY Symmetry
INVARIANTS
  ReadsAreUnique
CHECK_DEADLOCK FALSE
