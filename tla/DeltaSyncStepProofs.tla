------------------------ MODULE DeltaSyncStepProofs -------------------------
(***************************************************************************)
(* What the steps of DeltaSync do, for any peers, keys, columns, values    *)
(* and bounds: no cell regresses, deletes are final, one sync leaves       *)
(* nothing to send.  All follow from the inductive invariant of            *)
(* DeltaSyncProofs.                                                        *)
(***************************************************************************)
EXTENDS DeltaSyncProofs

\* Every cell of the rows is as new as it was, every deleted row still is.
Advances(old, new) ==
  \A k \in Keys :
    /\ \A c \in Cols : VLeq(old[k].cells[c].version, new[k].cells[c].version)
    /\ old[k].deleted => new[k].deleted

LEMMA AdvancesReflexive ==
  ASSUME NEW rows
  PROVE  Advances(rows, rows)
BY DEF Advances, VLeq

\* A received delta advances the rows.
LEMMA ReceiveAdvances ==
  ASSUME IInv, NEW p \in Peers, NEW d, NEW base, NEW s, Receivable(p, d, base, s)
  PROVE  Advances(replica[p].rows, apply_delta(replica[p], p, d).rows)
<1>1. /\ d \in Payload /\ base \in Frontier
      /\ Deliverable(writes, deletes, replica[p], p, d, base, s)
  BY DEF Receivable
<1>2. replica[p] \in ReplicaState /\ deletes \in SUBSET Removal
  BY ReplicaOf DEF IInv, TypeOK
<1>3. ASSUME NEW k \in Keys
      PROVE  LET a == replica[p].rows[k]
                 n == apply_delta(replica[p], p, d).rows[k]
             IN  /\ \A c \in Cols : VLeq(a.cells[c].version, n.cells[c].version)
                 /\ a.deleted => n.deleted
  <2> DEFINE a == replica[p].rows[k]
             b == d.rows[k]
             x == Received(a, b)
  <2>1. apply_delta(replica[p], p, d).rows[k] = x
    BY <1>1, <1>2, ApplyRow
  <2>2. DeletedWithVersion(a) /\ DeletedWithVersion(b)
    BY <1>1, LoggedDeletedWithVersion DEF Deliverable, GoodReplica, GoodPayload
  <2>3. a \in Row /\ b \in Row
    BY <1>1, <1>2, ReplicaFields, PayloadFields
  <2>4. /\ x \in Row
        /\ DeletedWithVersion(x)
        /\ \A c \in Cols : VLeq(a.cells[c].version, x.cells[c].version)
        /\ VLeq(a.delVersion, x.delVersion)
    BY <2>2, <2>3, ReceivedFacts
  <2>5. a.delVersion # NoVersion => x.delVersion # NoVersion
    <3>1. a.delVersion \in OptVersion /\ VLeq(a.delVersion, x.delVersion)
      BY <2>3, <2>4, RowFields
    <3> HIDE DEF a, x
    <3> QED BY <3>1, VersionIsOpt, NoVersionIsLeast, VLeqAntisymmetric
  <2> HIDE DEF a, b, x
  <2>6. a.deleted => x.deleted
    BY <2>2, <2>3, <2>4, <2>5, RowFields DEF DeletedWithVersion
  <2> QED BY <2>1, <2>4, <2>6 DEF a
<1> QED BY <1>3 DEF Advances

\* A row written by a statement advances the rows of its peer.
LEMMA WrittenAdvances ==
  ASSUME NEW r \in ReplicaState, NEW p, NEW k \in Keys, NEW row, NEW tomb,
         \A c \in Cols : VLeq(r.rows[k].cells[c].version, row.cells[c].version),
         r.rows[k].deleted => row.deleted
  PROVE  Advances(r.rows, Written(r, p, k, row, tomb).rows)
<1>1. r.rows \in [Keys -> Row]
  BY DEF ReplicaState
<1>2. Written(r, p, k, row, tomb).rows = [r.rows EXCEPT ![k] = row]
  BY DEF Written
<1> QED BY <1>1, <1>2 DEF Advances, VLeq

\* A tick is newer than every cell its peer holds.
LEMMA TickIsNewerThanCells ==
  ASSUME IInv, NEW p \in Peers, NEW k \in Keys, NEW c \in Cols
  PROVE  VLess(replica[p].rows[k].cells[c].version, NextVersion(replica[p], p))
<1> DEFINE x == replica[p].rows[k].cells[c]
<1>1. /\ replica[p] \in ReplicaState
      /\ \A q \in Peers : replica[p].frontier[q] <= replica[p].clock
      /\ Logged(writes, deletes, replica[p].rows, replica[p].frontier)
  BY ReplicaOf DEF IInv, ClockInv, ReplicaInv, GoodReplica
<1>2. x \in Cell /\ x.version \in OptVersion
  BY <1>1, ReplicaFields, RowFields, CellVersion
<1>3. Seen(replica[p].frontier, x.version)
  <2>1. CASE x = NoCell
    BY <2>1 DEF NoCell, Seen
  <2>2. CASE x # NoCell
    BY <1>1, <2>2 DEF Logged
  <2> QED BY <2>1, <2>2
<1> QED BY <1>1, <1>2, <1>3, TickIsNewer

\* No step takes anything back from the rows of any peer.
LEMMA StepAdvances ==
  ASSUME IInv, ~ReuseKeys, [Next]_vars, NEW p \in Peers
  PROVE  Advances(replica[p].rows, replica'[p].rows)
<1>0. TypeOK /\ replica \in [Peers -> ReplicaState] /\ replica[p] \in ReplicaState
  BY DEF IInv, TypeOK
<1>1. ASSUME NEW q \in Peers, NEW k \in Keys, NEW vals \in Assignments,
             Insert(q, k, vals)
      PROVE  Advances(replica[p].rows, replica'[p].rows)
  <2>1. CASE q # p
    BY <1>0, <1>1, <2>1, AdvancesReflexive DEF Insert
  <2>2. CASE q = p
    <3> DEFINE v == NextVersion(replica[p], p)
               row == InsertedRow(v, vals)
    <3>1. replica'[p] = Written(replica[p], p, k, row, replica[p].tombs[k])
      BY <1>0, <1>1, <2>2 DEF Insert, InsertRow
    <3>2. replica[p].rows[k] = NoRow
      BY <1>1, <2>2 DEF Insert
    <3>3. ASSUME NEW c \in Cols
          PROVE  VLeq(replica[p].rows[k].cells[c].version, row.cells[c].version)
      BY <2>2, <3>2, TickIsNewerThanCells DEF InsertedRow, NoRow, VLeq
    <3>4. ~replica[p].rows[k].deleted
      BY <3>2 DEF NoRow
    <3> HIDE DEF row
    <3> QED BY <1>0, <3>1, <3>3, <3>4, WrittenAdvances
  <2> QED BY <2>1, <2>2
<1>2. ASSUME NEW q \in Peers, NEW k \in Keys, NEW vals \in Assignments,
             Update(q, k, vals)
      PROVE  Advances(replica[p].rows, replica'[p].rows)
  <2>1. CASE q # p
    BY <1>0, <1>2, <2>1, AdvancesReflexive DEF Update
  <2>2. CASE q = p
    <3> DEFINE v == NextVersion(replica[p], p)
               row == UpdatedRow(replica[p].rows[k], v, vals)
    <3>1. replica'[p] = Written(replica[p], p, k, row, replica[p].tombs[k])
      BY <1>0, <1>2, <2>2 DEF Update, UpdateRow
    <3>2. ASSUME NEW c \in Cols
          PROVE  VLeq(replica[p].rows[k].cells[c].version, row.cells[c].version)
      BY <2>2, TickIsNewerThanCells DEF UpdatedRow, VLeq
    <3>3. replica[p].rows[k].deleted => row.deleted
      BY DEF UpdatedRow
    <3> HIDE DEF row
    <3> QED BY <1>0, <3>1, <3>2, <3>3, WrittenAdvances
  <2> QED BY <2>1, <2>2
<1>3. ASSUME NEW q \in Peers, NEW k \in Keys, Delete(q, k)
      PROVE  Advances(replica[p].rows, replica'[p].rows)
  <2>1. CASE q # p
    BY <1>0, <1>3, <2>1, AdvancesReflexive DEF Delete
  <2>2. CASE q = p
    <3> DEFINE v == NextVersion(replica[p], p)
               row == DeletedRow(replica[p].rows[k], v)
    <3>1. replica'[p] = Written(replica[p], p, k, row, v)
      BY <1>0, <1>3, <2>2 DEF Delete, DeleteRow
    <3>2. \A c \in Cols : VLeq(replica[p].rows[k].cells[c].version, row.cells[c].version)
      BY DEF DeletedRow, VLeq
    <3>3. row.deleted
      BY DEF DeletedRow
    <3> HIDE DEF row
    <3> QED BY <1>0, <3>1, <3>2, <3>3, WrittenAdvances
  <2> QED BY <2>1, <2>2
<1>4. ASSUME NEW d \in net, Apply(d)
      PROVE  Advances(replica[p].rows, replica'[p].rows)
  <2>1. CASE d.to # p
    BY <1>0, <1>4, <2>1, AdvancesReflexive DEF Apply
  <2>2. CASE d.to = p
    <3>1. replica'[p] = apply_delta(replica[p], p, d.payload)
      BY <1>0, <1>4, <2>2 DEF Apply
    <3> QED BY <2>2, <3>1, NetReceivable, ReceiveAdvances
  <2> QED BY <2>1, <2>2
<1>5. ASSUME NEW a \in Peers, NEW b \in Peers, SyncPeers(a, b)
      PROVE  Advances(replica[p].rows, replica'[p].rows)
  <2>1. replica'[p] = CASE p = a -> apply_delta(replica[a], a, DeltaFor(b, a))
                        [] p = b -> apply_delta(replica[b], b, DeltaFor(a, b))
                        [] OTHER -> replica[p]
    BY <1>5, SyncPeersEffect
  <2>2. CASE p = a
    BY <2>1, <2>2, DeltaForReceivable, ReceiveAdvances
  <2>3. CASE p = b /\ p # a
    BY <2>1, <2>3, DeltaForReceivable, ReceiveAdvances
  <2>4. CASE p # a /\ p # b
    BY <2>1, <2>4, AdvancesReflexive
  <2> QED BY <2>2, <2>3, <2>4
<1>6. CASE UNCHANGED replica
  BY <1>6, AdvancesReflexive
<1> QED BY <1>1, <1>2, <1>3, <1>4, <1>5, <1>6 DEF Next, Extract, Lose, vars

\* No cell of a peer goes back to an older version, whatever deltas arrive and
\* whatever statements run (merge_cell, apply_delta).
THEOREM CellsNeverRegressHolds ==
  ASSUME ~ReuseKeys
  PROVE  Spec => CellsNeverRegress
<1>1. IInv /\ [Next]_vars =>
        [\A p \in Peers, k \in Keys, c \in Cols :
           VLeq(replica[p].rows[k].cells[c].version,
                replica'[p].rows[k].cells[c].version)]_vars
  BY StepAdvances DEF Advances
<1> QED BY Invariance, <1>1, PTL DEF Spec, CellsNeverRegress

\* Once a peer holds a row as deleted, no step brings it back there
\* (merge_row, apply_delta).
THEOREM DeletesAreFinalHolds ==
  ASSUME ~ReuseKeys
  PROVE  Spec => DeletesAreFinal
<1>1. IInv /\ [Next]_vars =>
        [\A p \in Peers, k \in Keys :
           replica[p].rows[k].deleted => replica'[p].rows[k].deleted]_vars
  BY StepAdvances DEF Advances
<1> QED BY Invariance, <1>1, PTL DEF Spec, DeletesAreFinal

-----------------------------------------------------------------------------
(***************************************************************************)
(* One sync is enough.                                                     *)
(***************************************************************************)

\* A peer has seen what it holds.
LEMMA HeldIsSeen ==
  ASSUME IInv, NEW p \in Peers, NEW k \in Keys
  PROVE  /\ \A c \in Cols :
              /\ replica[p].rows[k].cells[c].version \in OptVersion
              /\ Seen(replica[p].frontier, replica[p].rows[k].cells[c].version)
         /\ replica[p].rows[k].delVersion \in OptVersion
         /\ Seen(replica[p].frontier, replica[p].rows[k].delVersion)
<1>1. /\ replica[p] \in ReplicaState
      /\ Logged(writes, deletes, replica[p].rows, replica[p].frontier)
  BY ReplicaOf DEF IInv, ReplicaInv, GoodReplica
<1>2. replica[p].rows[k] \in Row
  BY <1>1, ReplicaFields
<1>3. ASSUME NEW c \in Cols
      PROVE  Seen(replica[p].frontier, replica[p].rows[k].cells[c].version)
  <2> DEFINE x == replica[p].rows[k].cells[c]
  <2>1. CASE x = NoCell
    BY <2>1 DEF NoCell, Seen
  <2>2. CASE x # NoCell
    BY <1>1, <2>2 DEF Logged
  <2> QED BY <2>1, <2>2
<1>4. Seen(replica[p].frontier, replica[p].rows[k].delVersion)
  <2>1. CASE replica[p].rows[k].delVersion = NoVersion
    BY <2>1 DEF Seen
  <2>2. CASE replica[p].rows[k].delVersion # NoVersion
    BY <1>1, <2>2 DEF Logged
  <2> QED BY <2>1, <2>2
<1> QED BY <1>2, <1>3, <1>4, RowFields, CellVersion

\* After p has applied the delta of q, every frontier that covers what both
\* had seen covers all that p holds.
LEMMA NothingNewAfterApply ==
  ASSUME IInv, NEW p \in Peers, NEW q \in Peers, NEW f \in Frontier,
         \A z \in Peers : replica[p].frontier[z] <= f[z] /\ replica[q].frontier[z] <= f[z]
  PROVE  IsEmptyDelta(extract_delta(apply_delta(replica[p], p, DeltaFor(q, p)), f))
<1> DEFINE d == DeltaFor(q, p)
           n == apply_delta(replica[p], p, d)
<1>1. PICK base, s : /\ d \in Payload /\ base \in Frontier
                     /\ Deliverable(writes, deletes, replica[p], p, d, base, s)
  BY DeltaForReceivable DEF Receivable
<1>2. /\ replica[p] \in ReplicaState /\ deletes \in SUBSET Removal
      /\ replica[p].frontier \in Frontier /\ replica[q].frontier \in Frontier
  BY ReplicaOf DEF IInv, TypeOK
<1> HIDE DEF d
<1>3. ASSUME NEW k \in Keys
      PROVE  ~Unseen(n.rows[k], f) /\ Seen(f, n.tombs[k])
  <2> DEFINE a == replica[p].rows[k]
             b == d.rows[k]
             x == Received(a, b)
  <2>1. n.rows[k] = x /\ n.tombs[k] = n.rows[k].delVersion
    BY <1>1, <1>2, ApplyRow
  <2>2. a \in Row /\ b \in Row
    BY <1>1, <1>2, ReplicaFields, PayloadFields
  <2>3. DeletedWithVersion(a) /\ DeletedWithVersion(b)
    BY <1>1, LoggedDeletedWithVersion DEF Deliverable, GoodReplica, GoodPayload
  <2>4. /\ \A c \in Cols : x.cells[c] \in {a.cells[c], b.cells[c]}
        /\ x.delVersion \in {a.delVersion, b.delVersion}
    BY <2>2, <2>3, ReceivedFacts
  <2>5. /\ \A c \in Cols : Seen(f, a.cells[c].version)
        /\ Seen(f, a.delVersion)
    BY <1>2, HeldIsSeen, SeenMonotone
  <2>6. b = replica[q].rows[k] \/ b = NoRow
    BY DEF d, DeltaFor, extract_delta
  <2>7. /\ \A c \in Cols : Seen(f, replica[q].rows[k].cells[c].version)
        /\ Seen(f, replica[q].rows[k].delVersion)
    BY <1>2, HeldIsSeen, SeenMonotone
  <2>8. /\ \A c \in Cols : Seen(f, NoRow.cells[c].version)
        /\ Seen(f, NoRow.delVersion)
    BY NoRowType DEF Seen, NoCell
  <2>9. /\ \A c \in Cols : Seen(f, b.cells[c].version)
        /\ Seen(f, b.delVersion)
    BY <2>6, <2>7, <2>8
  <2> HIDE DEF a, b, x
  <2>10. /\ \A c \in Cols : Seen(f, x.cells[c].version)
         /\ Seen(f, x.delVersion)
    BY <2>4, <2>5, <2>9
  <2> QED BY <2>1, <2>10 DEF Unseen
<1> HIDE DEF n
<1>4. IsEmptyDelta(extract_delta(n, f))
  BY <1>3 DEF IsEmptyDelta, extract_delta
<1> QED BY <1>4 DEF n, d

\* After sync_peers(a, b) either frontier covers what both peers had seen.
LEMMA SyncCovers ==
  ASSUME IInv, NEW a \in Peers, NEW b \in Peers, SyncPeers(a, b)
  PROVE  /\ replica'[a].frontier \in Frontier
         /\ replica'[b].frontier \in Frontier
         /\ \A z \in Peers : /\ replica[a].frontier[z] <= replica'[a].frontier[z]
                             /\ replica[b].frontier[z] <= replica'[a].frontier[z]
                             /\ replica[a].frontier[z] <= replica'[b].frontier[z]
                             /\ replica[b].frontier[z] <= replica'[b].frontier[z]
<1>1. /\ replica'[a] = apply_delta(replica[a], a, DeltaFor(b, a))
      /\ replica'[b] = apply_delta(replica[b], b, DeltaFor(a, b))
  BY SyncPeersEffect
<1>2. /\ DeltaFor(b, a).frontier = replica[b].frontier
      /\ DeltaFor(a, b).frontier = replica[a].frontier
  BY DEF DeltaFor, extract_delta
<1>3. /\ replica'[a] \in ReplicaState
      /\ \A z \in Peers : /\ replica[a].frontier[z] <= replica'[a].frontier[z]
                          /\ replica[b].frontier[z] <= replica'[a].frontier[z]
  BY <1>1, <1>2, DeltaForReceivable, Receive
<1>4. /\ replica'[b] \in ReplicaState
      /\ \A z \in Peers : /\ replica[b].frontier[z] <= replica'[b].frontier[z]
                          /\ replica[a].frontier[z] <= replica'[b].frontier[z]
  BY <1>1, <1>2, DeltaForReceivable, Receive
<1> QED BY <1>3, <1>4, ReplicaFields

\* After one sync_peers neither peer has anything to send to the other, so
\* that sync_to_quiescence stops in its second round.
THEOREM SyncQuiescesHolds ==
  ASSUME ~ReuseKeys
  PROVE  Spec => SyncQuiesces
<1>1. ASSUME IInv, NEW a \in Peers, NEW b \in Peers, SyncPeers(a, b)
      PROVE  /\ IsEmptyDelta(extract_delta(replica'[a], replica'[b].frontier))
             /\ IsEmptyDelta(extract_delta(replica'[b], replica'[a].frontier))
  <2>1. /\ replica'[a] = apply_delta(replica[a], a, DeltaFor(b, a))
        /\ replica'[b] = apply_delta(replica[b], b, DeltaFor(a, b))
    BY <1>1, SyncPeersEffect
  <2>2. IsEmptyDelta(extract_delta(apply_delta(replica[a], a, DeltaFor(b, a)),
                                   replica'[b].frontier))
    BY <1>1, SyncCovers, NothingNewAfterApply
  <2>3. IsEmptyDelta(extract_delta(apply_delta(replica[b], b, DeltaFor(a, b)),
                                   replica'[a].frontier))
    BY <1>1, SyncCovers, NothingNewAfterApply
  <2> QED BY <2>1, <2>2, <2>3
<1>2. IInv =>
        [\A a, b \in Peers : SyncPeers(a, b) =>
           /\ IsEmptyDelta(extract_delta(replica'[a], replica'[b].frontier))
           /\ IsEmptyDelta(extract_delta(replica'[b], replica'[a].frontier))]_vars
  BY <1>1
<1> QED BY Invariance, <1>2, PTL DEF SyncQuiesces
=============================================================================
