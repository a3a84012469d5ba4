------------------------------ MODULE Replica -------------------------------
(***************************************************************************)
(* One peer's ReplicaState (crates/replication/src/lib.rs) for a table     *)
(* without UNIQUE or FOREIGN KEY constraints, and the operations on it:    *)
(* the row writes of INSERT, UPDATE and DELETE (crates/sql/src/executor.rs)*)
(* and extract_delta and apply_delta (crates/sync/src/delta.rs).  For such *)
(* a table the registry holds no claim and the enforcement passes that     *)
(* follow a DELETE or a sync find nothing to do; module EngineHost models  *)
(* a table that has one.                                                   *)
(*                                                                         *)
(* A replica is a record:                                                  *)
(*   rows     storage: row id -> row, NoRow when there is none             *)
(*   tombs    tombstones: row id -> version, NoVersion when there is none  *)
(*   clock    the counter of its LamportClock                              *)
(*   frontier the highest counter it has seen of every peer                *)
(***************************************************************************)
EXTENDS RowMerge

CONSTANT Keys           \* the row ids (the string form of the primary key)

Tombs == [Keys -> OptVersion]

ReplicaState == [rows : [Keys -> Row], tombs : Tombs,
                 clock : Nat, frontier : Frontier]

NewReplica == [rows     |-> [k \in Keys |-> NoRow],
               tombs    |-> [k \in Keys |-> NoVersion],
               clock    |-> 0,
               frontier |-> EmptyFrontier]

\* get_visible_row(k).is_some()
Visible(r, k) == r.rows[k] # NoRow /\ ~r.rows[k].deleted

-----------------------------------------------------------------------------
(***************************************************************************)
(* Local writes.  Each row written takes one tick, and the frontier's own  *)
(* entry follows the clock.                                                *)
(***************************************************************************)
\* Mutant of NextVersion: the counter is read before the tick.
VersionBeforeTick(r, p) == [counter |-> r.clock, peer |-> p]

NextVersion(r, p) == [counter |-> Tick(r.clock), peer |-> p]

\* The replica after one tick, with row k and its tombstone replaced.
Written(r, p, k, row, tomb) ==
  [rows     |-> [r.rows EXCEPT ![k] = row],
   tombs    |-> [r.tombs EXCEPT ![k] = tomb],
   clock    |-> Tick(r.clock),
   frontier |-> frontier_update(r.frontier, p, Tick(r.clock))]

\* INSERT builds a new Row and upserts it, whatever row was stored before;
\* vals gives the columns the statement names.
InsertedRow(v, vals) ==
  [cells      |-> [c \in Cols |-> IF c \in DOMAIN vals
                                 THEN [value |-> vals[c], version |-> v]
                                 ELSE NoCell],
   deleted    |-> FALSE,
   delVersion |-> NoVersion]

InsertRow(r, p, k, vals) ==
  Written(r, p, k, InsertedRow(NextVersion(r, p), vals), r.tombs[k])

\* UPDATE overwrites the assigned cells of the stored row.
UpdatedRow(row, v, vals) ==
  [cells      |-> [c \in Cols |-> IF c \in DOMAIN vals
                                 THEN [value |-> vals[c], version |-> v]
                                 ELSE row.cells[c]],
   deleted    |-> row.deleted,
   delVersion |-> row.delVersion]

UpdateRow(r, p, k, vals) ==
  Written(r, p, k, UpdatedRow(r.rows[k], NextVersion(r, p), vals), r.tombs[k])

\* DELETE keeps the cells, marks the row and inserts a tombstone.
DeletedRow(row, v) ==
  [cells |-> row.cells, deleted |-> TRUE, delVersion |-> v]

\* Mutant of DeleteRow: no tombstone.
DeleteWithoutTombstone(r, p, k) ==
  Written(r, p, k, DeletedRow(r.rows[k], NextVersion(r, p)), r.tombs[k])

DeleteRow(r, p, k) ==
  LET v == NextVersion(r, p)
  IN  Written(r, p, k, DeletedRow(r.rows[k], v), v)

-----------------------------------------------------------------------------
(***************************************************************************)
(* Deltas.  A row or tombstone the delta does not carry is NoRow or        *)
(* NoVersion.                                                              *)
(***************************************************************************)
Payload == [rows : [Keys -> Row], tombs : Tombs, frontier : Frontier]

\* Mutant of Unseen: a row is sent only when every column of it is new.
WhollyUnseen(row, remote) ==
  \/ \A c \in Cols : ~Seen(remote, row.cells[c].version)
  \/ ~Seen(remote, row.delVersion)

\* row_needs_sending: some cell or the delete is newer than the receiver's
\* frontier.
Unseen(row, remote) ==
  \/ \E c \in Cols : ~Seen(remote, row.cells[c].version)
  \/ ~Seen(remote, row.delVersion)

extract_delta(r, remote) ==
  [rows     |-> [k \in Keys |->
                   IF Unseen(r.rows[k], remote) THEN r.rows[k] ELSE NoRow],
   tombs    |-> [k \in Keys |->
                   IF Seen(remote, r.tombs[k]) THEN NoVersion ELSE r.tombs[k]],
   frontier |-> r.frontier]

\* The delta carries no row and no tombstone (the any_new test of
\* sync_to_quiescence, for one side).
IsEmptyDelta(d) == \A k \in Keys : d.rows[k] = NoRow /\ d.tombs[k] = NoVersion

\* An incoming tombstone also marks the stored row, unless the row is deleted
\* by a later version already.
Tombstoned(row, ts) ==
  IF /\ ts # NoVersion /\ row # NoRow
     /\ row.deleted => VLess(row.delVersion, ts)
  THEN DeletedRow(row, ts)
  ELSE row

apply_delta(r, p, d) ==
  LET counter == update_from_frontier(r.clock, d.frontier)
  IN  [rows     |-> [k \in Keys |->
                       Tombstoned(Received(r.rows[k], d.rows[k]), d.tombs[k])],
       tombs    |-> [k \in Keys |->
                       IF VLess(r.tombs[k], d.tombs[k]) THEN d.tombs[k]
                       ELSE r.tombs[k]],
       clock    |-> counter,
       frontier |-> frontier_update(merge_frontiers(r.frontier, d.frontier),
                                    p, counter)]
=============================================================================
