\* A member joins a team while another peer deletes it.
SPECIFICATION Spec
CONSTANTS
  Peers = {1, 2}
  k1 = k1  k2 = k2  k3 = k3  k4 = k4  c1 = c1  c2 = c2  v1 = v1  v2 = v2
  Keys = {k1, k2}
  Cols = {c1, c2}
  Values = {k1, k2, v1, null}
  Null = null
  TableOrder <- Club
  TableOf <- ClubTables
  Schemas <- ClubSchemas
  MaxCounter <- Uneven
  MaxRows = 1
  CopyColumns = FALSE
INVARIANTS
  ConcurrentReferencesSurvive
CHECK_DEADLOCK FALSE
