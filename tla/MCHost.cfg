\* A team, its members, whose names are unique, and a note on one of them.
SPECIFICATION FairSpec
CONSTANTS
  Peers = {1, 2}
  k1 = k1  k2 = k2  k3 = k3  k4 = k4  c1 = c1  c2 = c2  v1 = v1  v2 = v2
  Keys = {k1, k2, k3, k4}
  Cols = {c1, c2}
  Values = {k1, k2, v1, null}
  Null = null
  TableOrder <- Club
  TableOf <- ClubTables
  Schemas <- ClubSchemas
  MaxCounter <- Uneven
  MaxRows = 1
  CopyColumns = FALSE
INVARIANTS
  ReadsAreUnique
  OwnerIsLatestClaim
  ClaimantsArePreserved
  NoReferenceOutlivesItsDelete
  SyncRestoresUniqueness
  FrontiersAreHonest
  MergesAgree
  SyncAgrees
  CascadedWinnerIsReplaced
  IInv
PROPERTIES
  PeersConverge
CHECK_DEADLOCK FALSE
