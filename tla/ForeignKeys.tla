---------------------------- MODULE ForeignKeys -----------------------------
(***************************************************************************)
(* enforce_fk_cascades (crates/sql/src/executor.rs): the rows that refer   *)
(* to a deleted row are deleted or lose the reference, table by table,     *)
(* until a pass over all tables changes nothing.                           *)
(*                                                                         *)
(* A reference is a cell whose value, in its string form, is the id of a   *)
(* row of the referenced table; such a value stands for that row's key.    *)
(***************************************************************************)
EXTENDS Schema

\* No row has the string form of NULL as its id: NULL refers to no row, as a
\* cell that is not there refers to none.
ASSUME ReferenceAssumption == {Null, NoCell.value} \cap Keys = {}

ForeignKeyDefs == FlattenSeq([i \in DOMAIN TableOrder |-> Schemas[TableOrder[i]].foreignKeys])

ForeignKeysTo(t) ==
  Kept(ForeignKeyDefs, {fk \in ToSet(ForeignKeyDefs) : fk.ref_table = t})

\* The deleted rows of table t, with their delete versions.
Tombstones(r, t) ==
  [k \in {j \in RowsOf(t) : r.rows[j].deleted /\ r.rows[j].delVersion # NoVersion}
     |-> r.rows[k].delVersion]

\* Mutant of NotNewer: a reference by the peer that deletes counts as newer.
StrictlyOlder(v, d) == v.counter < d.counter /\ v.peer # d.peer

\* A cell that does not survive a delete: written by the deleting peer up to
\* then, or by another peer with a lower counter.
NotNewer(v, d) ==
  \/ v.peer = d.peer /\ v.counter <= d.counter
  \/ v.peer # d.peer /\ v.counter < d.counter

\* The visible rows whose foreign key refers to one of the deleted rows.
Affected(r, dead, fk) ==
  {j \in RowsOf(fk.table) :
     /\ Visible(r, j)
     /\ \E k \in DOMAIN dead :
          /\ r.rows[j].cells[fk.column].value = k
          /\ NotNewer(r.rows[j].cells[fk.column].version, dead[k])}

-----------------------------------------------------------------------------
\* The replica after one tick that the rows and tombstones written share.
WrittenRows(r, p, rows, tombs) ==
  [rows     |-> Over(rows, r.rows),
   tombs    |-> Over(tombs, r.tombs),
   clock    |-> Tick(r.clock),
   frontier |-> frontier_update(r.frontier, p, Tick(r.clock))]

\* Mutant of NulledRow: the cells keep their versions.
NulledInPlace(row, cols, v) ==
  [row EXCEPT !.cells = [c \in Cols |-> IF c \in cols THEN [@[c] EXCEPT !.value = Null]
                                       ELSE @[c]]]

NulledRow(row, cols, v) ==
  [row EXCEPT !.cells = [c \in Cols |-> IF c \in cols THEN [value |-> Null, version |-> v]
                                       ELSE @[c]]]

Cascade(r, p, S) ==
  WrittenRows(r, p, [k \in S |-> DeletedRow(r.rows[k], NextVersion(r, p))],
              [k \in S |-> NextVersion(r, p)])

Orphan(r, p, S, c) ==
  WrittenRows(r, p, [k \in S |-> NulledRow(r.rows[k], {c}, NextVersion(r, p))], <<>>)

\* The default policy, Tombstone, leaves the children alone.
ApplyPolicy(r, p, fk, S) ==
  CASE S # {} /\ fk.on_delete = "Cascade" -> Cascade(r, p, S)
    [] S # {} /\ fk.on_delete = "Orphan"  -> Orphan(r, p, S, fk.column)
    [] OTHER -> r

\* The delete versions are read once per parent table, the children anew for
\* every foreign key.
CascadeDead(r, p, t, dead) ==
  FoldLeft(LAMBDA s, fk : ApplyPolicy(s, p, fk, Affected(s, dead, fk)),
           r, ForeignKeysTo(t))

CascadeFrom(r, p, t) ==
  LET dead == Tombstones(r, t)
  IN  IF DOMAIN dead = {} THEN r ELSE CascadeDead(r, p, t, dead)

CascadePass(r, p) == FoldLeft(LAMBDA s, t : CascadeFrom(s, p, t), r, TableOrder)

\* Passes until one changes nothing.  Every other pass deletes a row or nulls a
\* reference, so that the loop ends, on cycles of references too.
enforce_fk_cascades(r, p) ==
  LET settled[s \in ReplicaState] ==
        LET next == CascadePass(s, p) IN IF next = s THEN s ELSE settled[next]
  IN  settled[r]
=============================================================================
