\* Two peers, one key, two columns; deltas may be reordered, repeated or lost.
SPECIFICATION Spec
CONSTANTS
  Peers = {1, 2}
  Keys = {k1}
  Cols = {c1, c2}
  Values = {v1}
  MaxCounter = 2
  MaxNet = 2
  ReuseKeys = FALSE
SYMMETRY Symmetry
INVARIANTS
  IInv
  StrongConvergence
  QuiescentPeersAgree
PROPERTIES
  DeletesAreFinal
  CellsNeverRegress
  SyncQuiesces
  ImplementsStore
CHECK_DEADLOCK FALSE
