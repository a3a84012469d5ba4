\* Clients may INSERT a primary key again after deleting it.
SPECIFICATION Spec
CONSTANTS
  Peers = {1, 2}
  Keys = {k1}
  Cols = {c1}
  Values = {v1}
  MaxCounter = 3
  MaxNet = 0
  ReuseKeys = TRUE
INVARIANT
  QuiescentPeersAgree
CHECK_DEADLOCK FALSE
