------------------------------ MODULE RowMerge ------------------------------
(***************************************************************************)
(* The row CRDT: last-writer-wins cells under a delete-wins row            *)
(* (crates/core/src/types.rs, crates/crdt/src/merge.rs).                   *)
(*                                                                         *)
(* The cells of a row are a total function on Cols; a column missing from  *)
(* the BTreeMap is NoCell, whose version is below all others.  A row       *)
(* missing from the table is NoRow: every stored row has the cell of its   *)
(* primary key, so no stored row equals NoRow.                             *)
(***************************************************************************)
EXTENDS Versions

CONSTANTS Cols,         \* the column names of the table
          Values        \* the values a cell can hold

NoCell == [value |-> "absent", version |-> NoVersion]

Cell == [value : Values, version : Version] \cup {NoCell}

NoRow == [cells      |-> [c \in Cols |-> NoCell],
          deleted    |-> FALSE,
          delVersion |-> NoVersion]

Row == [cells : [Cols -> Cell], deleted : BOOLEAN, delVersion : OptVersion]

-----------------------------------------------------------------------------
\* Mutant of merge_cell: equal counters are not told apart by the peer.
MergeCellByCounter(a, b) == IF a.version.counter <= b.version.counter THEN b ELSE a

\* merge_cell: the second argument wins only with a strictly higher version.
merge_cell(a, b) == IF VLess(a.version, b.version) THEN b ELSE a

\* The (deleted, delete_version) pair of merge_row, in the order of the
\* match arms.
MergedDeleteVersion(a, b) ==
  CASE a.deleted /\ b.deleted /\ a.delVersion # NoVersion
                              /\ b.delVersion # NoVersion ->
         IF VLess(a.delVersion, b.delVersion) THEN b.delVersion ELSE a.delVersion
    [] a.deleted /\ ~(b.deleted /\ a.delVersion # NoVersion
                                /\ b.delVersion # NoVersion) -> a.delVersion
    [] ~a.deleted /\ b.deleted -> b.delVersion
    [] OTHER -> NoVersion

\* Mutant of merge_row: a row is deleted only when both sides say so.
MergeRowUnlessLive(a, b) ==
  [cells      |-> [c \in Cols |-> merge_cell(a.cells[c], b.cells[c])],
   deleted    |-> a.deleted /\ b.deleted,
   delVersion |-> MergedDeleteVersion(a, b)]

\* merge_row: cells merge column by column, and a row deleted on either side
\* is deleted.
merge_row(a, b) ==
  [cells      |-> [c \in Cols |-> merge_cell(a.cells[c], b.cells[c])],
   deleted    |-> a.deleted \/ b.deleted,
   delVersion |-> MergedDeleteVersion(a, b)]

\* Mutant of Received: the incoming row replaces the stored one.
ReceivedReplaces(stored, incoming) ==
  IF incoming = NoRow THEN stored ELSE incoming

\* The match of apply_delta on the stored row: None stores the incoming row.
\* A row the delta does not carry is NoRow and leaves the stored one alone.
Received(stored, incoming) ==
  IF incoming = NoRow THEN stored
  ELSE IF stored = NoRow THEN incoming
  ELSE merge_row(stored, incoming)
=============================================================================
