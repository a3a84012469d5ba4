\* A client inserts a row again that it has deleted.
SPECIFICATION Spec
CONSTANTS
  Peers = {1, 2}
  Keys = {k1}
  Cols = {c1}
  Values = {v1}
  MaxCounter = 3
  Writers = {1, 2}
  Collectors = {1}
  ReuseKeys = TRUE
PROPERTIES
  CollectsOnlyDeadRows
CHECK_DEADLOCK FALSE
