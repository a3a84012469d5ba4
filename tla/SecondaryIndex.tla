-------------------------- MODULE SecondaryIndex ----------------------------
(***************************************************************************)
(* The secondary indexes of one peer (crates/index/src/lib.rs).  An index  *)
(* is the set of its entries, each a key and a row id: a key whose row set *)
(* becomes empty is removed from the BTreeMap.  An IndexManager is a       *)
(* function from the indexes that have been created to their entries.      *)
(* Index names are left out: an index is known by its table and columns.   *)
(***************************************************************************)
EXTENDS Schema

Indexes == UNION {{[table |-> t, columns |-> u] : u \in Schemas[t].indexes} : t \in Tables}

extract_index_key(columns, row) == [c \in columns |-> ValueAt(row, c)]

IndexEntry(i) == [key : [i.columns -> Values], row : RowsOf(i.table)]

IndexManager ==
  {f \in UNION {[S -> SUBSET UNION {IndexEntry(i) : i \in Indexes}] : S \in SUBSET Indexes} :
     \A i \in DOMAIN f : f[i] \subseteq IndexEntry(i)}

\* The entry of a row: none for a row that is not stored or not visible.
EntryOf(i, k, row) ==
  IF row = NoRow \/ row.deleted THEN {}
  ELSE {[key |-> extract_index_key(i.columns, row), row |-> k]}

create_index(indexes, i) ==
  [j \in DOMAIN indexes \cup {i} |-> IF j = i THEN {} ELSE indexes[j]]

Rebuilt(i, rows) == UNION {EntryOf(i, k, rows[k]) : k \in RowsOf(i.table)}

rebuild_table(indexes, t, rows) ==
  [i \in DOMAIN indexes |-> IF i.table = t THEN Rebuilt(i, rows) ELSE indexes[i]]

\* Mutant of update_row: the old entry is left behind.
AddEntry(indexes, k, old, new) ==
  [i \in DOMAIN indexes |->
     IF i.table = TableOf[k] THEN indexes[i] \cup EntryOf(i, k, new) ELSE indexes[i]]

update_row(indexes, k, old, new) ==
  [i \in DOMAIN indexes |->
     IF i.table = TableOf[k]
     THEN (indexes[i] \ EntryOf(i, k, old)) \cup EntryOf(i, k, new)
     ELSE indexes[i]]
=============================================================================
