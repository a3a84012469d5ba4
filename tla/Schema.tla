------------------------------- MODULE Schema -------------------------------
(***************************************************************************)
(* The tables of a database (crates/core/src/types.rs, TableSchema).  The  *)
(* rows of all tables are the Keys of Replica: a key is a row id together  *)
(* with its table.  Every peer has run the same CREATE TABLE statements    *)
(* before any other statement or sync, as the callers of apply_schema do.  *)
(***************************************************************************)
EXTENDS Replica, Collections

CONSTANTS Null,         \* the NULL value
          TableOrder,   \* the table names, in the order of the BTreeMaps
          TableOf,      \* row -> the table it is in
          Schemas       \* table -> its TableSchema

Tables == ToSet(TableOrder)

FkPolicy == {"Tombstone", "Cascade", "Orphan"}

ForeignKeyDef == [table : Tables, column : Cols, ref_table : Tables,
                  on_delete : FkPolicy]

IndexDef == [table : Tables, columns : SUBSET Cols]

(***************************************************************************)
(* A schema gives the values clients write in each column, the columns     *)
(* that are NOT NULL or have a DEFAULT, the foreign keys in the order of   *)
(* their declaration, the column sets that are UNIQUE, and the column sets *)
(* clients may CREATE INDEX on.                                            *)
(***************************************************************************)
ASSUME SchemaAssumption ==
  /\ IsFiniteSet(Keys) /\ IsFiniteSet(Cols)
  /\ Null \in Values
  /\ TableOrder \in Seq(Tables)
  /\ TableOf \in [Keys -> Tables]
  /\ DOMAIN Schemas = Tables
  /\ \A t \in Tables :
       LET s    == Schemas[t]
           cols == DOMAIN s.columns
       IN  /\ cols \subseteq Cols
           /\ s.columns \in [cols -> SUBSET Values]
           /\ s.notNull \subseteq cols
           /\ DOMAIN s.defaults \subseteq cols
           /\ \A c \in DOMAIN s.defaults : s.defaults[c] \in s.columns[c]
           /\ s.foreignKeys \in Seq(ForeignKeyDef)
           /\ \A i \in DOMAIN s.foreignKeys :
                /\ s.foreignKeys[i].table = t
                /\ s.foreignKeys[i].column \in cols
           /\ s.unique \subseteq (SUBSET cols) \ {{}}
           /\ s.indexes \subseteq (SUBSET cols) \ {{}}

RowsOf(t) == {k \in Keys : TableOf[k] = t}

\* Statements and passes visit rows in the order of the BTreeMap.
RowOrder == SetToSeq(Keys)

InRowOrder(S) == Kept(RowOrder, S)

\* What an expression or an index key reads in column c of a row.
ValueAt(row, c) == IF row.cells[c] = NoCell THEN Null ELSE row.cells[c].value

\* The values a statement gives to some columns of table t, at least one.
Assignments(t) ==
  LET cols == Schemas[t].columns
  IN  UNION {{f \in [S -> Values] : \A c \in S : f[c] \in cols[c]} :
               S \in (SUBSET DOMAIN cols) \ {{}}}
=============================================================================
