--------------------------- MODULE ReplicaProofs ----------------------------
(***************************************************************************)
(* Lemmas about one replica, whatever component holds it: frontiers, the   *)
(* clock, local writes, extract_delta and apply_delta.                     *)
(***************************************************************************)
EXTENDS Replica, RowMergeProofs, WellFoundedInduction

-----------------------------------------------------------------------------
(***************************************************************************)
(* Frontiers and the clock.                                                *)
(***************************************************************************)

\* update_from_frontier is a maximum whenever the frontier has a largest
\* entry, which it does: the entry of the peer it comes from.
LEMMA ClockMax ==
  ASSUME NEW c \in Nat, NEW f \in Frontier, NEW s \in Peers,
         \A q \in Peers : f[q] <= f[s]
  PROVE  /\ update_from_frontier(c, f) \in Nat
         /\ c <= update_from_frontier(c, f)
         /\ \A q \in Peers : f[q] <= update_from_frontier(c, f)
<1> DEFINE S == {c} \cup {f[q] : q \in Peers}
           m == IF c >= f[s] THEN c ELSE f[s]
<1>1. S \subseteq Nat
  BY DEF Frontier
<1>2. m \in S /\ \A y \in S : m >= y
  BY <1>1 DEF Frontier
<1>3. Max(S) \in S /\ \A y \in S : Max(S) >= y
  BY <1>2 DEF Max
<1>4. update_from_frontier(c, f) = Max(S)
  BY DEF update_from_frontier
<1> QED BY <1>1, <1>3, <1>4

\* A set of numbers that is not empty has a least element: Min is defined on
\* the counters of any set of frontiers.
LEMMA MinIsLeast ==
  ASSUME NEW S \in SUBSET Nat, S # {}
  PROVE  Min(S) \in S /\ \A y \in S : Min(S) <= y
<1> DEFINE R == {ss \in Nat \X Nat : ss[1] < ss[2]}
<1>1. IsWellFoundedOn(R, Nat)
  BY NatLessThanWellFounded DEF OpToRel
<1>2. \E x \in S : \A y \in S : ~(<<y, x>> \in R)
  <2> HIDE DEF R
  <2> QED BY <1>1, WFMin
<1>3. PICK x \in S : \A y \in S : ~(<<y, x>> \in R)
  BY <1>2
<1>4. ASSUME NEW y \in S
      PROVE  x <= y
  <2>1. ~(<<y, x>> \in R)
    BY <1>3
  <2>2. <<y, x>> \in Nat \X Nat /\ <<y, x>>[1] = y /\ <<y, x>>[2] = x
    OBVIOUS
  <2>3. ~(y < x)
    BY <2>1, <2>2
  <2> QED BY <2>3
<1> QED BY <1>4 DEF Min

LEMMA MergeFrontiers ==
  ASSUME NEW a \in Frontier, NEW b \in Frontier
  PROVE  /\ merge_frontiers(a, b) \in Frontier
         /\ \A q \in Peers : /\ a[q] <= merge_frontiers(a, b)[q]
                             /\ b[q] <= merge_frontiers(a, b)[q]
                             /\ merge_frontiers(a, b)[q] \in {a[q], b[q]}
BY DEF merge_frontiers, Frontier

LEMMA FrontierUpdate ==
  ASSUME NEW f \in Frontier, NEW p \in Peers, NEW n \in Nat, f[p] <= n
  PROVE  /\ frontier_update(f, p, n) \in Frontier
         /\ \A q \in Peers : frontier_update(f, p, n)[q] =
                              IF q = p THEN n ELSE f[q]
<1>1. f[p] \in Nat
  BY DEF Frontier
<1>2. n > f[p] \/ n = f[p]
  BY <1>1
<1>3. (IF n > f[p] THEN n ELSE f[p]) = n
  BY <1>1, <1>2
<1>4. frontier_update(f, p, n) = [f EXCEPT ![p] = n]
  BY <1>3 DEF frontier_update
<1> QED BY <1>4 DEF Frontier

LEMMA SeenMonotone ==
  ASSUME NEW f \in Frontier, NEW g \in Frontier, NEW v \in OptVersion,
         \A q \in Peers : f[q] <= g[q], Seen(f, v)
  PROVE  Seen(g, v)
<1>1. CASE v = NoVersion
  BY <1>1 DEF Seen
<1>2. CASE v \in Version
  <2>1. v.peer \in Peers /\ v.counter \in Nat
    BY <1>2 DEF Version
  <2>2. f[v.peer] \in Nat /\ g[v.peer] \in Nat /\ f[v.peer] <= g[v.peer]
    BY <2>1 DEF Frontier
  <2>3. v # NoVersion => v.counter <= f[v.peer]
    BY DEF Seen
  <2> QED BY <2>1, <2>2, <2>3 DEF Seen
<1> QED BY <1>1, <1>2 DEF OptVersion

\* An empty frontier has seen no version at all.
LEMMA SeenEmpty ==
  ASSUME NEW v \in Version
  PROVE  ~Seen(EmptyFrontier, v)
BY PeersAssumption DEF Seen, EmptyFrontier, Version, NoVersion

LEMMA EmptyFrontierType == EmptyFrontier \in Frontier
BY DEF EmptyFrontier, Frontier

LEMMA VersionIsOpt == Version \subseteq OptVersion /\ NoVersion \in OptVersion
                      /\ NoVersion \notin Version
BY DEF OptVersion, Version, NoVersion

-----------------------------------------------------------------------------
(***************************************************************************)
(* Receiving one row.                                                      *)
(***************************************************************************)
LEMMA NoRowType ==
  /\ NoRow \in Row
  /\ DeletedWithVersion(NoRow)
  /\ NoRow.delVersion = NoVersion
  /\ \A c \in Cols : NoRow.cells[c] = NoCell
BY DEF NoRow, Row, Cell, OptVersion, DeletedWithVersion

\* A received row holds, of every cell and of the delete, the stored or the
\* incoming version, whichever is newer.
LEMMA ReceivedFacts ==
  ASSUME NEW a \in Row, NEW b \in Row,
         DeletedWithVersion(a), DeletedWithVersion(b)
  PROVE  /\ Received(a, b) \in Row
         /\ DeletedWithVersion(Received(a, b))
         /\ \A c \in Cols :
              /\ Received(a, b).cells[c] \in {a.cells[c], b.cells[c]}
              /\ VLeq(a.cells[c].version, Received(a, b).cells[c].version)
              /\ VLeq(b.cells[c].version, Received(a, b).cells[c].version)
         /\ Received(a, b).delVersion \in {a.delVersion, b.delVersion}
         /\ VLeq(a.delVersion, Received(a, b).delVersion)
         /\ VLeq(b.delVersion, Received(a, b).delVersion)
<1>1. CASE b = NoRow
  <2>1. Received(a, b) = a
    BY <1>1 DEF Received
  <2> QED BY <1>1, <2>1, NoRowType, RowFields, CellVersion, NoVersionIsLeast
          DEF VLeq, NoCell
<1>2. CASE b # NoRow /\ a = NoRow
  <2>1. Received(a, b) = b
    BY <1>2 DEF Received
  <2> QED BY <1>2, <2>1, NoRowType, RowFields, CellVersion, NoVersionIsLeast
          DEF VLeq, NoCell
<1>3. CASE b # NoRow /\ a # NoRow
  <2>1. Received(a, b) = merge_row(a, b)
    BY <1>3 DEF Received
  <2>2. \A c \in Cols :
          merge_row(a, b).cells[c] = merge_cell(a.cells[c], b.cells[c])
    BY DEF merge_row
  <2>3. merge_row(a, b).delVersion =
          IF VLess(a.delVersion, b.delVersion) THEN b.delVersion ELSE a.delVersion
    BY MergedDeleteVersionIsMax DEF merge_row
  <2>4. /\ VLeq(a.delVersion, merge_row(a, b).delVersion)
        /\ VLeq(b.delVersion, merge_row(a, b).delVersion)
    BY <2>3, RowFields, VLessTotal DEF VLeq
  <2>5. ASSUME NEW c \in Cols
        PROVE  /\ merge_row(a, b).cells[c] \in {a.cells[c], b.cells[c]}
               /\ VLeq(a.cells[c].version, merge_row(a, b).cells[c].version)
               /\ VLeq(b.cells[c].version, merge_row(a, b).cells[c].version)
    <3>1. a.cells[c] \in Cell /\ b.cells[c] \in Cell
      BY RowFields
    <3> QED BY <2>2, <3>1, MergeCellFacts
  <2>6. merge_row(a, b) \in Row /\ DeletedWithVersion(merge_row(a, b))
    BY MergeRowType, MergeRowKeepsDeletedWithVersion
  <2>7. merge_row(a, b).delVersion \in {a.delVersion, b.delVersion}
    BY <2>3
  <2> QED BY <2>1, <2>4, <2>5, <2>6, <2>7
<1> QED BY <1>1, <1>2, <1>3

\* A tombstone that travels with its row changes nothing: the row already
\* carries that delete or a newer one.
LEMMA TombstoneIsRedundant ==
  ASSUME NEW row \in Row, NEW ts \in OptVersion, DeletedWithVersion(row),
         VLeq(ts, row.delVersion)
  PROVE  Tombstoned(row, ts) = row
<1>1. SUFFICES ASSUME ts # NoVersion
               PROVE  row.deleted /\ ~VLess(row.delVersion, ts)
  BY DEF Tombstoned
<1>2. row.delVersion \in OptVersion /\ row.deleted \in BOOLEAN
  BY RowFields
<1>3. row.delVersion # NoVersion
  BY <1>1, <1>2, NoVersionIsLeast
<1>4. ~VLess(row.delVersion, ts)
  BY <1>2, VLessTransitive, VLessIrreflexive DEF VLeq
<1> QED BY <1>3, <1>4 DEF DeletedWithVersion
-----------------------------------------------------------------------------
(***************************************************************************)
(* apply_delta and local writes.                                           *)
(***************************************************************************)
LEMMA ReplicaFields ==
  ASSUME NEW r \in ReplicaState
  PROVE  /\ \A k \in Keys : r.rows[k] \in Row /\ r.tombs[k] \in OptVersion
         /\ r.clock \in Nat
         /\ r.frontier \in Frontier
BY DEF ReplicaState, Tombs

LEMMA PayloadFields ==
  ASSUME NEW d \in Payload
  PROVE  /\ \A k \in Keys : d.rows[k] \in Row /\ d.tombs[k] \in OptVersion
         /\ d.frontier \in Frontier
BY DEF Payload, Tombs

\* The clock and frontier after apply_delta.
LEMMA ApplyDeltaClock ==
  ASSUME NEW r \in ReplicaState, NEW d \in Payload,
         NEW p \in Peers, NEW s \in Peers,
         \A q \in Peers : d.frontier[q] <= d.frontier[s] /\ r.frontier[q] <= r.clock
  PROVE  LET n == apply_delta(r, p, d)
         IN  /\ n.clock \in Nat
             /\ n.frontier \in Frontier
             /\ r.clock <= n.clock
             /\ n.frontier[p] = n.clock
             /\ \A q \in Peers : /\ n.frontier[q] <= n.clock
                                 /\ r.frontier[q] <= n.frontier[q]
                                 /\ d.frontier[q] <= n.frontier[q]
                                 /\ q # p => n.frontier[q] \in
                                               {r.frontier[q], d.frontier[q]}
<1> DEFINE n == apply_delta(r, p, d)
           c == update_from_frontier(r.clock, d.frontier)
           m == merge_frontiers(r.frontier, d.frontier)
<1>1. r.clock \in Nat /\ r.frontier \in Frontier /\ d.frontier \in Frontier
  BY ReplicaFields, PayloadFields
<1>2. \A q \in Peers : d.frontier[q] <= d.frontier[s] /\ r.frontier[q] <= r.clock
  OBVIOUS
<1>3. c \in Nat /\ r.clock <= c /\ \A q \in Peers : d.frontier[q] <= c
  BY <1>1, <1>2, ClockMax
<1>4. /\ m \in Frontier
      /\ \A q \in Peers : /\ r.frontier[q] <= m[q]
                          /\ d.frontier[q] <= m[q]
                          /\ m[q] \in {r.frontier[q], d.frontier[q]}
  BY <1>1, MergeFrontiers
<1>5. \A q \in Peers : /\ r.frontier[q] \in Nat /\ d.frontier[q] \in Nat
                       /\ m[q] \in Nat
  BY <1>1, <1>4 DEF Frontier
<1>6. \A q \in Peers : m[q] <= c
  BY <1>1, <1>2, <1>3, <1>4, <1>5
<1>7. /\ frontier_update(m, p, c) \in Frontier
      /\ \A q \in Peers : frontier_update(m, p, c)[q] = IF q = p THEN c ELSE m[q]
  BY <1>3, <1>4, <1>6, FrontierUpdate
<1>8. n.clock = c /\ n.frontier = frontier_update(m, p, c)
  BY DEF apply_delta
<1>9. ASSUME NEW q \in Peers
      PROVE  /\ n.frontier[q] <= n.clock
             /\ r.frontier[q] <= n.frontier[q]
             /\ d.frontier[q] <= n.frontier[q]
             /\ q # p => n.frontier[q] \in {r.frontier[q], d.frontier[q]}
  <2>1. CASE q = p
    <3>1. n.frontier[q] = c
      BY <1>7, <1>8, <2>1
    <3>2. r.frontier[q] <= c
      BY <1>1, <1>2, <1>3, <1>5
    <3> QED BY <1>3, <1>8, <2>1, <3>1, <3>2
  <2>2. CASE q # p
    <3>1. n.frontier[q] = m[q]
      BY <1>7, <1>8, <2>2
    <3> QED BY <1>4, <1>6, <1>8, <3>1
  <2> QED BY <2>1, <2>2
<1>10. n.frontier[p] = n.clock
  BY <1>7, <1>8
<1> HIDE DEF c, m
<1> QED BY <1>3, <1>7, <1>8, <1>9, <1>10

\* Every version a frontier covers is below the next tick.
LEMMA TickIsNewer ==
  ASSUME NEW r \in ReplicaState, NEW p \in Peers, NEW v \in OptVersion,
         \A q \in Peers : r.frontier[q] <= r.clock,
         Seen(r.frontier, v)
  PROVE  /\ NextVersion(r, p) \in Version
         /\ VLess(v, NextVersion(r, p))
<1>1. r.clock \in Nat /\ r.frontier \in Frontier
  BY ReplicaFields
<1>2. NextVersion(r, p) \in Version
  BY <1>1 DEF NextVersion, Tick, Version
<1>3. v.counter \in Nat /\ v.counter <= r.clock
  <2>1. CASE v = NoVersion
    BY <1>1, <2>1 DEF NoVersion
  <2>2. CASE v # NoVersion
    <3>1. v.peer \in Peers /\ v.counter \in Nat
      BY <2>2 DEF OptVersion, Version
    <3>2. v.counter <= r.frontier[v.peer] /\ r.frontier[v.peer] \in Nat
      BY <1>1, <2>2, <3>1 DEF Seen, Frontier
    <3>3. r.frontier[v.peer] <= r.clock
      BY <3>1
    <3> QED BY <1>1, <3>1, <3>2, <3>3
  <2> QED BY <2>1, <2>2
<1> QED BY <1>1, <1>2, <1>3 DEF NextVersion, Tick, VLess

\* A tick's effect on the clock and the frontier.
LEMMA WrittenClock ==
  ASSUME NEW r \in ReplicaState, NEW p \in Peers, NEW k, NEW row, NEW tomb,
         \A q \in Peers : r.frontier[q] <= r.clock
  PROVE  LET n == Written(r, p, k, row, tomb)
         IN  /\ n.clock \in Nat
             /\ n.clock = r.clock + 1
             /\ n.frontier \in Frontier
             /\ \A q \in Peers : n.frontier[q] = IF q = p THEN r.clock + 1
                                                 ELSE r.frontier[q]
<1>1. r.clock \in Nat /\ r.frontier \in Frontier /\ r.frontier[p] <= r.clock
  BY ReplicaFields
<1>2. r.clock + 1 \in Nat /\ r.frontier[p] <= r.clock + 1
  BY <1>1 DEF Frontier
<1>3. /\ frontier_update(r.frontier, p, r.clock + 1) \in Frontier
      /\ \A q \in Peers : frontier_update(r.frontier, p, r.clock + 1)[q] =
                            IF q = p THEN r.clock + 1 ELSE r.frontier[q]
  BY <1>1, <1>2, FrontierUpdate
<1> QED BY <1>2, <1>3 DEF Written, Tick

\* A row without a cell and without a delete is no row.
LEMMA RowIsEmpty ==
  ASSUME NEW row \in Row, DeletedWithVersion(row)
  PROVE  row = NoRow <=> ~row.deleted /\ \A c \in Cols : row.cells[c] = NoCell
<1>1. ASSUME ~row.deleted, \A c \in Cols : row.cells[c] = NoCell
      PROVE  row = NoRow
  <2>1. row.deleted = FALSE /\ row.delVersion = NoVersion
    BY <1>1, RowFields DEF DeletedWithVersion
  <2>2. row.cells = [c \in Cols |-> NoCell]
    BY <1>1, RowFields
  <2>3. row = [cells |-> row.cells, deleted |-> row.deleted,
               delVersion |-> row.delVersion]
    BY RowFields
  <2> QED BY <2>1, <2>2, <2>3 DEF NoRow
<1> QED BY <1>1, NoRowType DEF NoRow

\* An extracted delta is a payload of rows the receiver has not seen.
LEMMA ExtractType ==
  ASSUME NEW r \in ReplicaState, NEW f \in Frontier
  PROVE  /\ extract_delta(r, f) \in Payload
         /\ extract_delta(r, f).frontier = r.frontier
         /\ \A k \in Keys :
              /\ extract_delta(r, f).rows[k] =
                   IF Unseen(r.rows[k], f) THEN r.rows[k] ELSE NoRow
              /\ extract_delta(r, f).tombs[k] =
                   IF Seen(f, r.tombs[k]) THEN NoVersion ELSE r.tombs[k]
<1> DEFINE d == extract_delta(r, f)
<1>1. \A k \in Keys : r.rows[k] \in Row /\ r.tombs[k] \in OptVersion
  BY ReplicaFields
<1>2. r.frontier \in Frontier
  BY ReplicaFields
<1>3. /\ d.rows = [k \in Keys |-> IF Unseen(r.rows[k], f) THEN r.rows[k] ELSE NoRow]
      /\ d.tombs = [k \in Keys |-> IF Seen(f, r.tombs[k]) THEN NoVersion
                                   ELSE r.tombs[k]]
      /\ d.frontier = r.frontier
      /\ d = [rows |-> d.rows, tombs |-> d.tombs, frontier |-> d.frontier]
  BY DEF extract_delta
<1>4. d.rows \in [Keys -> Row]
  BY <1>1, <1>3, NoRowType
<1>5. d.tombs \in [Keys -> OptVersion]
  BY <1>1, <1>3, VersionIsOpt
<1>6. d \in Payload
  BY <1>2, <1>3, <1>4, <1>5 DEF Payload, Tombs
<1> QED BY <1>3, <1>6

\* What apply_delta makes of one row and its tombstone: cells and deletes come
\* from the stored or the incoming side, nothing stored is lost, and a delete
\* on either side is kept.
LEMMA ApplyDeltaRow ==
  ASSUME NEW r \in ReplicaState, NEW d \in Payload, NEW p, NEW k \in Keys,
         DeletedWithVersion(r.rows[k]), DeletedWithVersion(d.rows[k])
  PROVE  LET n == apply_delta(r, p, d).rows[k]
             t == apply_delta(r, p, d).tombs[k]
             a == r.rows[k]
             b == d.rows[k]
         IN  /\ n \in Row /\ t \in OptVersion
             /\ DeletedWithVersion(n)
             /\ \A c \in Cols : /\ n.cells[c] \in {a.cells[c], b.cells[c]}
                                /\ VLeq(a.cells[c].version, n.cells[c].version)
                                /\ VLeq(b.cells[c].version, n.cells[c].version)
             /\ n.delVersion \in {a.delVersion, b.delVersion, d.tombs[k]}
             /\ VLeq(a.delVersion, n.delVersion) /\ VLeq(b.delVersion, n.delVersion)
             /\ t \in {r.tombs[k], d.tombs[k]}
             /\ a.deleted \/ b.deleted => n.deleted
             /\ n = NoRow <=> a = NoRow /\ b = NoRow
<1> DEFINE a == r.rows[k]
           b == d.rows[k]
           ts == d.tombs[k]
           m == Received(a, b)
           n == apply_delta(r, p, d).rows[k]
           t == apply_delta(r, p, d).tombs[k]
<1>1. a \in Row /\ b \in Row /\ ts \in OptVersion /\ r.tombs[k] \in OptVersion
  BY ReplicaFields, PayloadFields
<1>2. n = Tombstoned(m, ts) /\ t = IF VLess(r.tombs[k], ts) THEN ts ELSE r.tombs[k]
  BY DEF apply_delta
<1>3. /\ m \in Row
      /\ DeletedWithVersion(m)
      /\ \A c \in Cols : /\ m.cells[c] \in {a.cells[c], b.cells[c]}
                         /\ VLeq(a.cells[c].version, m.cells[c].version)
                         /\ VLeq(b.cells[c].version, m.cells[c].version)
      /\ m.delVersion \in {a.delVersion, b.delVersion}
      /\ VLeq(a.delVersion, m.delVersion) /\ VLeq(b.delVersion, m.delVersion)
  BY <1>1, ReceivedFacts
<1>4. a.deleted \/ b.deleted => m.deleted
  <2>1. NoRow.deleted = FALSE
    BY DEF NoRow
  <2> QED BY <2>1 DEF Received, merge_row
<1>5. m = NoRow <=> a = NoRow /\ b = NoRow
  <2>1. a = NoRow /\ b = NoRow => m = NoRow
    BY DEF Received
  <2>2. ASSUME m = NoRow
        PROVE  a = NoRow /\ b = NoRow
    <3>1. ~a.deleted /\ ~b.deleted
      BY <1>1, <1>4, <2>2, RowFields DEF NoRow
    <3>2. \A c \in Cols : m.cells[c].version = NoVersion
      BY <2>2, NoRowType DEF NoCell
    <3>3. ASSUME NEW c \in Cols
          PROVE  a.cells[c] = NoCell /\ b.cells[c] = NoCell
      <4>1. a.cells[c] \in Cell /\ b.cells[c] \in Cell
        BY <1>1, RowFields
      <4>2. VLeq(a.cells[c].version, NoVersion) /\ VLeq(b.cells[c].version, NoVersion)
        BY <1>3, <3>2
      <4> QED BY <4>1, <4>2, CellVersion, NoVersionIsLeast
    <3> QED BY <1>1, <3>1, <3>3, RowIsEmpty
  <2> QED BY <2>1, <2>2
<1> HIDE DEF a, b, ts, m
<1>6. CASE n = m
  BY <1>1, <1>2, <1>3, <1>4, <1>5, <1>6 DEF a, b, ts, m
<1>7. CASE n # m
  <2>1. /\ n = DeletedRow(m, ts)
        /\ ts # NoVersion
        /\ m # NoRow
    BY <1>2, <1>7 DEF Tombstoned
  <2>2. /\ n.cells = m.cells
        /\ n.deleted = TRUE
        /\ n.delVersion = ts
        /\ n = [cells |-> m.cells, deleted |-> TRUE, delVersion |-> ts]
    BY <2>1 DEF DeletedRow
  <2>3. n \in Row
    BY <1>1, <1>3, <2>2 DEF Row
  <2>4. n # NoRow
    BY <2>2 DEF NoRow
  <2>5. VLeq(a.delVersion, ts) /\ VLeq(b.delVersion, ts)
    <3>1. m.delVersion \in OptVersion /\ (m.deleted <=> m.delVersion # NoVersion)
      BY <1>3, RowFields DEF DeletedWithVersion
    <3>2. VLeq(m.delVersion, ts)
      BY <1>1, <1>2, <1>7, <2>1, <3>1, NoVersionIsLeast DEF Tombstoned, VLeq
    <3>3. a.delVersion \in OptVersion /\ b.delVersion \in OptVersion
      BY <1>1, RowFields
    <3> QED BY <1>1, <1>3, <3>1, <3>2, <3>3, VLessTransitive DEF VLeq
  <2> QED BY <1>1, <1>2, <1>3, <1>5, <2>1, <2>2, <2>3, <2>4, <2>5
          DEF a, b, ts, m, DeletedWithVersion
<1> QED BY <1>6, <1>7
=============================================================================
