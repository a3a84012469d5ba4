------------------------------ MODULE Executor ------------------------------
(***************************************************************************)
(* The statements and the integrity passes of one peer                     *)
(* (crates/sql/src/executor.rs), as operators on its state: a record of    *)
(*   replica     its ReplicaState, without the registry                    *)
(*   uniqueness  its UniquenessRegistry: claim key -> claim                *)
(*   indexes     its IndexManager                                          *)
(*   filed       history: the claims its statements have filed             *)
(* A claim key is a table with a value for every column of one of its      *)
(* UNIQUE constraints.  WHERE chooses rows; here any rows may be chosen.   *)
(***************************************************************************)
EXTENDS ForeignKeys, SecondaryIndex, Uniqueness

ClaimKeys ==
  UNION {UNION {{[table |-> t, value |-> x] :
                   x \in {f \in [u -> Values \ {Null}] :
                            \A c \in u : f[c] \in Schemas[t].columns[c]}} :
                u \in Schemas[t].unique} :
         t \in Tables}

\* The values that are in use are finitely many.
ASSUME RegistryAssumption == IsFiniteSet(ClaimKeys)

Registry == [ClaimKeys -> ClaimOf(Keys)]

\* A row files claims on values of its own table.
ClaimEvent == {e \in [row : Keys, value : ClaimKeys, version : Version] :
                 TableOf[e.row] = e.value.table}

PeerState == [replica : ReplicaState, uniqueness : Registry,
              indexes : IndexManager, filed : SUBSET ClaimEvent]

NewPeer == [replica    |-> NewReplica,
            uniqueness |-> [x \in ClaimKeys |-> NoClaim],
            indexes    |-> <<>>,
            filed      |-> {}]

LiveRows(r) == {k \in Keys : Visible(r, k)}

\* Every cell of a row holds NULL or a value of its column.
InColumn(k, c, value) ==
  \/ value = Null
  \/ /\ c \in DOMAIN Schemas[TableOf[k]].columns
     /\ value \in Schemas[TableOf[k]].columns[c]

WellTyped(r) == \A k \in Keys, c \in Cols : InColumn(k, c, ValueAt(r.rows[k], c))

\* The columns among cols that hold a value.
Held(row, cols) == {c \in cols : ValueAt(row, c) # Null}

\* value_key_from_cells: no key when a column is absent or NULL.
ValueKeys(k, row) ==
  {[table |-> TableOf[k], value |-> [c \in u |-> ValueAt(row, c)]] :
     u \in {u \in Schemas[TableOf[k]].unique : Held(row, u) = u}}

\* The key of a constraint on one column.
OnOneColumn(x) == \E c \in Cols : DOMAIN x.value = {c}

-----------------------------------------------------------------------------
(***************************************************************************)
(* INSERT, UPDATE and DELETE.                                              *)
(***************************************************************************)

\* The claims a statement that assigns cols files for the row it has written:
\* on a single column only when it assigns it, on several columns always.
Filed(k, row, cols) ==
  {x \in ValueKeys(k, row) :
     DOMAIN x.value \subseteq cols \/ ~OnOneColumn(x)}

\* One row written at one tick, with its claims and its index entries.
RowWritten(s, p, k, row, cols) ==
  LET v == NextVersion(s.replica, p)
  IN  [replica    |-> Written(s.replica, p, k, row, s.replica.tombs[k]),
       uniqueness |-> [x \in ClaimKeys |->
                         IF x \in Filed(k, row, cols) THEN claim(s.uniqueness[x], k, v)
                         ELSE s.uniqueness[x]],
       indexes    |-> update_row(s.indexes, k, s.replica.rows[k], row),
       filed      |-> s.filed \cup {[row |-> k, value |-> x, version |-> v] :
                                    x \in Filed(k, row, cols)}]

\* The cells of a new row: what the statement gives, then the defaults.
NewCells(new) == Over(new.vals, Schemas[TableOf[new.key]].defaults)

\* The checks of the validation pass, made before any row is written.
Accepted(s, new) ==
  /\ \A c \in Schemas[TableOf[new.key]].notNull :
       c \in DOMAIN NewCells(new) /\ NewCells(new)[c] # Null
  /\ ~Visible(s.replica, new.key)

Inserted(s, p, new) ==
  RowWritten(s, p, new.key,
             InsertedRow(NextVersion(s.replica, p), NewCells(new)), DOMAIN NewCells(new))

exec_insert(s, p, batch) == FoldLeft(LAMBDA q, new : Inserted(q, p, new), s, batch)

\* The right-hand side of SET is a literal or the name of a column.
ASSUME LiteralAssumption == Values \cap Cols = {}

\* SET assigns literals, or columns of the row as it was.
Evaluated(row, assign) ==
  [c \in DOMAIN assign |-> IF assign[c] \in Cols THEN ValueAt(row, assign[c])
                           ELSE assign[c]]

\* Mutant of NullsRequired: NOT NULL is not checked.
NeverRejected(s, k, assign) == FALSE

NullsRequired(s, k, assign) ==
  \E c \in DOMAIN assign \cap Schemas[TableOf[k]].notNull :
    Evaluated(s.replica.rows[k], assign)[c] = Null

Updated(s, p, k, assign) ==
  LET row == s.replica.rows[k]
  IN  RowWritten(s, p, k,
                 UpdatedRow(row, NextVersion(s.replica, p), Evaluated(row, assign)),
                 DOMAIN assign)

\* UPDATE checks each row before it writes that row: one that fails ends the
\* statement, and the rows before it stay written.
BeforeFailure(s, assign, rows) ==
  LET failing == SelectInSeq(rows, LAMBDA k : NullsRequired(s, k, assign))
  IN  IF failing = 0 THEN rows ELSE SubSeq(rows, 1, failing - 1)

exec_update(s, p, S, assign) ==
  FoldLeft(LAMBDA q, k : Updated(q, p, k, assign), s,
           BeforeFailure(s, assign, InRowOrder(S)))

DeletedAt(s, p, k) ==
  LET r == DeleteRow(s.replica, p, k)
  IN  [s EXCEPT !.replica = r,
                !.indexes = update_row(@, k, s.replica.rows[k], r.rows[k])]

RowsDeleted(s, p, S) == FoldLeft(LAMBDA q, k : DeletedAt(q, p, k), s, InRowOrder(S))

-----------------------------------------------------------------------------
(***************************************************************************)
(* Conflict resolution.                                                    *)
(***************************************************************************)

\* A loser that still holds a value of the constraint, and is not the
\* effective winner of a claim whose owner is gone, is nulled.
EnforceLoser(r, p, x, c, k) ==
  LET cols == Held(r.rows[k], DOMAIN x.value)
  IN  IF /\ Visible(r, k)
         /\ ~(/\ c.owner \notin LiveRows(r)
              /\ is_effective_unique_winner(c, LiveRows(r), k))
         /\ cols # {}
      THEN WrittenRows(r, p, [j \in {k} |-> NulledRow(r.rows[k], cols, NextVersion(r, p))], <<>>)
      ELSE r

EnforceClaim(r, p, x, c) ==
  FoldLeft(LAMBDA s, l : EnforceLoser(s, p, x, c, l.row), r, c.losers)

\* The claims are visited in the order of their keys, which SetToSeq fixes.
enforce_uniqueness_tombstones(r, p, registry) ==
  FoldLeft(LAMBDA s, x : EnforceClaim(s, p, x, registry[x]), r, SetToSeq(ClaimKeys))

\* Mutant of Enforced: uniqueness is resolved before the first cascade.
EnforcedUniqueFirst(r, p, registry) ==
  enforce_fk_cascades(enforce_uniqueness_tombstones(r, p, registry), p)

\* The three passes after a DELETE and after each side of a sync.
Enforced(r, p, registry) ==
  enforce_fk_cascades(
    enforce_uniqueness_tombstones(enforce_fk_cascades(r, p), p, registry), p)

\* Row k has lost x once, and no other value in the columns of x.
LostOnly(registry, k, x) ==
  /\ \A i, j \in DOMAIN registry[x].losers :
       registry[x].losers[i].row = k /\ registry[x].losers[j].row = k => i = j
  /\ \A y \in ClaimKeys \ {x} :
       k \in LoserRows(registry[y]) => DOMAIN y.value \cap DOMAIN x.value = {}

\* What is_effective_unique_winner reads of a claim whose owner is dead.
LiveEntries(c, alive) == {l \in ToSet(c.losers) : l.row \in alive}

\* The same live rows have lost c and d; and when the owner is dead they have done so
\* by the same entries, one for each row.
SameLosers(c, d, alive) ==
  /\ LoserRows(c) \cap alive = LoserRows(d) \cap alive
  /\ c.owner \notin alive =>
       /\ LiveEntries(c, alive) = LiveEntries(d, alive)
       /\ \A l, m \in LiveEntries(c, alive) : l.row = m.row => l = m

\* The columns of table t that the passes may set to NULL, and whether they may
\* delete its rows.
Clearable(t) ==
  (UNION Schemas[t].unique) \cup
  {fk.column : fk \in {fk \in ToSet(ForeignKeyDefs) : fk.table = t /\ fk.on_delete = "Orphan"}}

Cascaded(t) == \E fk \in ToSet(ForeignKeyDefs) : fk.table = t /\ fk.on_delete = "Cascade"

\* No pass sets a NOT NULL column to NULL.
RequiredAreSpared == \A t \in Tables : Schemas[t].notNull \cap Clearable(t) = {}

\* No pass changes what an index is made from.
IndexedAreSpared ==
  \A i \in Indexes : i.columns \cap Clearable(i.table) = {} /\ ~Cascaded(i.table)

\* DELETE runs the passes on the local state, whether it found a row or not.
exec_delete(s, p, S) ==
  LET d == RowsDeleted(s, p, S)
  IN  [d EXCEPT !.replica = Enforced(@, p, d.uniqueness)]

-----------------------------------------------------------------------------
\* The rows SELECT and snapshot_state return: the visible rows that lose no
\* value of a constraint to another row.
Shown(s) ==
  {k \in LiveRows(s.replica) :
     \A x \in ValueKeys(k, s.replica.rows[k]) :
       is_effective_unique_winner(s.uniqueness[x], LiveRows(s.replica), k)}

Contents(r, S) == [k \in S |-> [c \in Cols |-> r.rows[k].cells[c].value]]

\* The rows a reader sees, with the values in them.
Result(s) == Contents(s.replica, Shown(s))

\* full_hash: the visible rows with their values, which rows have a
\* tombstone, and who owns each unique value.  No version is part of it.
Snapshot(s) ==
  [rows   |-> Contents(s.replica, LiveRows(s.replica)),
   tombs  |-> {k \in Keys : s.replica.tombs[k] # NoVersion},
   owners |-> [x \in ClaimKeys |-> s.uniqueness[x].owner]]
=============================================================================
