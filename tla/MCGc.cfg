\* Three peers in a row keep syncing; two of them write, and one keeps learning
\* frontiers and collects.
SPECIFICATION FairSpec
CONSTANTS
  Peers = {1, 2, 3}
  Keys = {k1}
  Cols = {c1}
  Values = {v1}
  MaxCounter = 2
  Writers = {1, 2}
  Collectors = {1}
  ReuseKeys = FALSE
INVARIANTS
  TypeOK
  NoZombies
  QuiescentPeersShowTheSame
  IInv
PROPERTIES
  CollectsOnlyWhatAllHaveSeen
  TombstonesAreCollected
CHECK_DEADLOCK FALSE
