--------------------------- MODULE RowMergeProofs ---------------------------
(***************************************************************************)
(* The order of versions is a strict total order, and merge_row is a join  *)
(* for it: idempotent, commutative and associative ("Satisfies             *)
(* associativity, commutativity, idempotency", crates/crdt/src/merge.rs),  *)
(* under the condition that makes it so, that one version of a cell has    *)
(* one value.                                                              *)
(***************************************************************************)
EXTENDS RowMerge, TLAPS

LEMMA OptVersionType == OptVersion \subseteq [counter : Nat, peer : Nat]
<1>1. Version \subseteq [counter : Nat, peer : Nat]
  BY PeersAssumption DEF Version
<1>2. NoVersion \in [counter : Nat, peer : Nat]
  BY DEF NoVersion
<1> QED BY <1>1, <1>2 DEF OptVersion

LEMMA OptVersionFields ==
  ASSUME NEW v \in OptVersion
  PROVE  v.counter \in Nat /\ v.peer \in Nat
BY OptVersionType

\* Two versions with the same counter and peer are the same version.
LEMMA OptVersionEquality ==
  ASSUME NEW v \in OptVersion, NEW w \in OptVersion,
         v.counter = w.counter, v.peer = w.peer
  PROVE  v = w
BY OptVersionType

LEMMA VLessIrreflexive ==
  ASSUME NEW v \in OptVersion PROVE ~VLess(v, v)
BY OptVersionFields DEF VLess

LEMMA VLessTransitive ==
  ASSUME NEW u \in OptVersion, NEW v \in OptVersion, NEW w \in OptVersion,
         VLess(u, v), VLess(v, w)
  PROVE  VLess(u, w)
BY OptVersionFields DEF VLess

LEMMA VLessTotal ==
  ASSUME NEW v \in OptVersion, NEW w \in OptVersion
  PROVE  VLess(v, w) \/ v = w \/ VLess(w, v)
BY OptVersionFields, OptVersionEquality DEF VLess

LEMMA VLeqTransitive ==
  ASSUME NEW u \in OptVersion, NEW v \in OptVersion, NEW w \in OptVersion,
         VLeq(u, v), VLeq(v, w)
  PROVE  VLeq(u, w)
BY VLessTransitive DEF VLeq

LEMMA VLeqAntisymmetric ==
  ASSUME NEW v \in OptVersion, NEW w \in OptVersion, VLeq(v, w), VLeq(w, v)
  PROVE  v = w
BY VLessTransitive, VLessIrreflexive DEF VLeq

LEMMA NoVersionIsLeast ==
  ASSUME NEW v \in OptVersion
  PROVE  VLeq(NoVersion, v) /\ (VLeq(v, NoVersion) => v = NoVersion)
BY PeersAssumption DEF OptVersion, Version, NoVersion, VLeq, VLess

-----------------------------------------------------------------------------
LEMMA CellVersion ==
  ASSUME NEW a \in Cell
  PROVE  /\ a.version \in OptVersion
         /\ a.version = NoVersion <=> a = NoCell
BY PeersAssumption DEF Cell, NoCell, OptVersion, Version, NoVersion

\* What merge_cell returns: one of its arguments, not older than either.
LEMMA MergeCellFacts ==
  ASSUME NEW a \in Cell, NEW b \in Cell
  PROVE  /\ merge_cell(a, b) \in {a, b}
         /\ VLeq(a.version, merge_cell(a, b).version)
         /\ VLeq(b.version, merge_cell(a, b).version)
BY CellVersion, VLessTotal DEF merge_cell, VLeq

\* Cells agree when equal versions of a column carry equal values.
CellsAgree(a, b) == \A c \in Cols :
                      a.cells[c].version = b.cells[c].version =>
                        a.cells[c] = b.cells[c]

\* A stored row is deleted exactly when it has a delete version.
DeletedWithVersion(row) == row.deleted <=> row.delVersion # NoVersion

LEMMA RowFields ==
  ASSUME NEW a \in Row
  PROVE  /\ \A c \in Cols : a.cells[c] \in Cell
         /\ a.deleted \in BOOLEAN
         /\ a.delVersion \in OptVersion
         /\ a.cells = [c \in Cols |-> a.cells[c]]
         /\ a = [cells |-> a.cells, deleted |-> a.deleted, delVersion |-> a.delVersion]
BY DEF Row

\* For such rows the match of merge_row picks the newer delete version.
LEMMA MergedDeleteVersionIsMax ==
  ASSUME NEW a \in Row, NEW b \in Row,
         DeletedWithVersion(a), DeletedWithVersion(b)
  PROVE  MergedDeleteVersion(a, b) =
           IF VLess(a.delVersion, b.delVersion) THEN b.delVersion
           ELSE a.delVersion
<1>1. a.delVersion \in OptVersion /\ b.delVersion \in OptVersion
      /\ a.deleted \in BOOLEAN /\ b.deleted \in BOOLEAN
  BY RowFields
<1>2. ~VLess(a.delVersion, NoVersion) /\ ~VLess(NoVersion, NoVersion)
  BY <1>1 DEF VLess, NoVersion, OptVersion, Version
<1>3. b.delVersion # NoVersion => VLess(NoVersion, b.delVersion)
  BY <1>1, NoVersionIsLeast DEF VLeq
<1> QED
  BY <1>1, <1>2, <1>3 DEF MergedDeleteVersion, DeletedWithVersion

LEMMA MergeRowType ==
  ASSUME NEW a \in Row, NEW b \in Row
  PROVE  merge_row(a, b) \in Row
<1>1. \A c \in Cols : merge_cell(a.cells[c], b.cells[c]) \in Cell
  BY RowFields, MergeCellFacts
<1>2. MergedDeleteVersion(a, b) \in OptVersion
  BY RowFields DEF MergedDeleteVersion, OptVersion
<1> QED BY <1>1, <1>2, RowFields DEF merge_row, Row

LEMMA MergeRowKeepsDeletedWithVersion ==
  ASSUME NEW a \in Row, NEW b \in Row,
         DeletedWithVersion(a), DeletedWithVersion(b)
  PROVE  DeletedWithVersion(merge_row(a, b))
<1>1. merge_row(a, b).delVersion = MergedDeleteVersion(a, b)
      /\ merge_row(a, b).deleted = (a.deleted \/ b.deleted)
  BY DEF merge_row
<1>2. /\ VLess(a.delVersion, b.delVersion) => b.delVersion # NoVersion
      /\ ~VLess(a.delVersion, b.delVersion) /\ b.delVersion # NoVersion
           => a.delVersion # NoVersion
  BY RowFields, NoVersionIsLeast, VLessTotal, VLessIrreflexive
     DEF VLeq, VLess, NoVersion, OptVersion, Version
<1> QED BY <1>1, <1>2, MergedDeleteVersionIsMax, RowFields DEF DeletedWithVersion

-----------------------------------------------------------------------------
\* Applying the same row twice is applying it once (merge_row).
THEOREM MergeRowIdempotent ==
  ASSUME NEW a \in Row, DeletedWithVersion(a)
  PROVE  merge_row(a, a) = a
<1>1. [c \in Cols |-> merge_cell(a.cells[c], a.cells[c])] = a.cells
  BY RowFields DEF merge_cell
<1>2. MergedDeleteVersion(a, a) = a.delVersion
  BY MergedDeleteVersionIsMax
<1> QED BY <1>1, <1>2, RowFields DEF merge_row

\* Two rows merge to the same row whichever arrives first (merge_row).
THEOREM MergeRowCommutative ==
  ASSUME NEW a \in Row, NEW b \in Row, CellsAgree(a, b),
         DeletedWithVersion(a), DeletedWithVersion(b)
  PROVE  merge_row(a, b) = merge_row(b, a)
<1>1. ASSUME NEW c \in Cols
      PROVE  merge_cell(a.cells[c], b.cells[c]) = merge_cell(b.cells[c], a.cells[c])
  <2>1. a.cells[c].version \in OptVersion /\ b.cells[c].version \in OptVersion
    BY RowFields, CellVersion
  <2> QED BY <2>1, VLessTotal, VLessTransitive, VLessIrreflexive
          DEF merge_cell, CellsAgree
<1>2. MergedDeleteVersion(a, b) = MergedDeleteVersion(b, a)
  <2>1. a.delVersion \in OptVersion /\ b.delVersion \in OptVersion
    BY RowFields
  <2> QED BY <2>1, MergedDeleteVersionIsMax, VLessTotal, VLessTransitive,
             VLessIrreflexive
<1> QED BY <1>1, <1>2, RowFields DEF merge_row

\* Three rows merge to the same row however they are grouped (merge_row).
THEOREM MergeRowAssociative ==
  ASSUME NEW a \in Row, NEW b \in Row, NEW d \in Row,
         DeletedWithVersion(a), DeletedWithVersion(b), DeletedWithVersion(d)
  PROVE  merge_row(merge_row(a, b), d) = merge_row(a, merge_row(b, d))
<1> DEFINE l == merge_row(merge_row(a, b), d)
           r == merge_row(a, merge_row(b, d))
<1>1. ASSUME NEW c \in Cols
      PROVE  l.cells[c] = r.cells[c]
  <2> DEFINE x == a.cells[c]  y == b.cells[c]  z == d.cells[c]
  <2>1. /\ l.cells[c] = merge_cell(merge_cell(x, y), z)
        /\ r.cells[c] = merge_cell(x, merge_cell(y, z))
    BY DEF merge_row
  <2>2. x.version \in OptVersion /\ y.version \in OptVersion /\ z.version \in OptVersion
    BY RowFields, CellVersion
  <2> QED BY <2>1, <2>2, VLessTotal, VLessTransitive, VLessIrreflexive DEF merge_cell
<1>2. l.delVersion = r.delVersion
  <2>1. merge_row(a, b) \in Row /\ merge_row(b, d) \in Row
        /\ DeletedWithVersion(merge_row(a, b)) /\ DeletedWithVersion(merge_row(b, d))
    BY MergeRowType, MergeRowKeepsDeletedWithVersion
  <2>2. /\ l.delVersion = MergedDeleteVersion(merge_row(a, b), d)
        /\ r.delVersion = MergedDeleteVersion(a, merge_row(b, d))
        /\ merge_row(a, b).delVersion = MergedDeleteVersion(a, b)
        /\ merge_row(b, d).delVersion = MergedDeleteVersion(b, d)
    BY DEF merge_row
  <2>3. a.delVersion \in OptVersion /\ b.delVersion \in OptVersion /\ d.delVersion \in OptVersion
    BY RowFields
  <2> QED BY <2>1, <2>2, <2>3, MergedDeleteVersionIsMax, VLessTotal,
             VLessTransitive, VLessIrreflexive
<1>3. l.deleted = r.deleted
  BY RowFields DEF merge_row
<1>4. /\ l = [cells |-> [c \in Cols |-> l.cells[c]], deleted |-> l.deleted,
              delVersion |-> l.delVersion]
      /\ r = [cells |-> [c \in Cols |-> r.cells[c]], deleted |-> r.deleted,
              delVersion |-> r.delVersion]
  BY DEF merge_row
<1> QED BY <1>1, <1>2, <1>3, <1>4
=============================================================================
