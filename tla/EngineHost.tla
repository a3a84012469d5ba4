----------------------------- MODULE EngineHost -----------------------------
(***************************************************************************)
(* The engine host (crates/adapter/src/engine.rs): it owns every peer of a *)
(* process, runs statements at them and syncs them pairwise.  A call runs  *)
(* to its end before the next one starts; what can fall in any order are   *)
(* the calls.                                                              *)
(*                                                                         *)
(* deletes is a history variable: every delete, by a statement or by a     *)
(* cascade, with the frontier of the peer that made it.                    *)
(***************************************************************************)
EXTENDS Executor

CONSTANTS MaxCounter,   \* bound: peer -> the clock its statements stop at
          MaxRows,      \* bound: rows of one statement
          CopyColumns   \* whether UPDATE may set a column to another column

ASSUME HostAssumption ==
  MaxCounter \in [Peers -> Nat] /\ MaxRows \in Nat \ {0} /\ CopyColumns \in BOOLEAN

VARIABLES peers,        \* peer -> its state (module Executor)
          deletes       \* history: rows deleted

vars == <<peers, deletes>>

Removal == [key : Keys, version : Version, seen : Frontier]

TypeOK == /\ peers \in [Peers -> PeerState]
          /\ deletes \subseteq Removal

Init == /\ peers = [p \in Peers |-> NewPeer]
        /\ deletes = {}

-----------------------------------------------------------------------------
(***************************************************************************)
(* What clients send.                                                      *)
(***************************************************************************)
CanTick(p) == peers[p].replica.clock < MaxCounter[p]

\* The VALUES lists of an INSERT into table t.
Batches(t) ==
  UNION {[1..n -> [key : RowsOf(t), vals : Assignments(t)]] : n \in 1..MaxRows}

\* The SET lists of an UPDATE of table t: values, or columns of the same kind.
SetLists(t) ==
  LET cols    == Schemas[t].columns
      like(c) == IF CopyColumns THEN {d \in DOMAIN cols \ {c} : cols[d] \subseteq cols[c]}
                 ELSE {}
  IN  UNION {{f \in [S -> Values \cup Cols] : \A c \in S : f[c] \in cols[c] \cup like(c)} :
               S \in (SUBSET DOMAIN cols) \ {{}}}

\* The rows a WHERE clause may choose.
Selections(p, t) ==
  {S \in SUBSET {k \in RowsOf(t) : Visible(peers[p].replica, k)} :
     Cardinality(S) <= MaxRows}

\* The deletes p itself has made from one state to another.
DeletedBy(p, before, after) ==
  {[key |-> k, version |-> after.tombs[k], seen |-> after.frontier] :
     k \in {j \in Keys : /\ after.tombs[j] # before.tombs[j]
                         /\ after.tombs[j].peer = p}}

-----------------------------------------------------------------------------
(***************************************************************************)
(* EngineHost::execute.  A statement that is refused before it has written *)
(* anything is a step that changes nothing.                                *)
(***************************************************************************)

\* Clients do not reuse a deleted primary key (see run delta_reuse).
Insert(p, batch) ==
  /\ CanTick(p)
  /\ \A i \in DOMAIN batch : /\ Accepted(peers[p], batch[i])
                             /\ peers[p].replica.rows[batch[i].key] = NoRow
  /\ peers' = [peers EXCEPT ![p] = exec_insert(@, p, batch)]
  /\ UNCHANGED deletes

Update(p, S, assign) ==
  /\ CanTick(p)
  /\ peers' = [peers EXCEPT ![p] = exec_update(@, p, S, assign)]
  /\ UNCHANGED deletes

Delete(p, S) ==
  /\ CanTick(p)
  /\ peers' = [peers EXCEPT ![p] = exec_delete(@, p, S)]
  /\ deletes' = deletes \cup DeletedBy(p, peers[p].replica, peers'[p].replica)

\* The new index starts empty; its table is then rebuilt, with all its indexes.
CreateIndex(p, i) ==
  /\ peers' = [peers EXCEPT ![p].indexes =
                 rebuild_table(create_index(@, i), i.table, peers[p].replica.rows)]
  /\ UNCHANGED deletes

-----------------------------------------------------------------------------
(***************************************************************************)
(* EngineHost::sync.                                                       *)
(***************************************************************************)

\* apply_delta at p, whose state is s, of the delta from a peer whose state is
\* q.  All claims travel with every delta.
Merged(s, p, q) ==
  [s EXCEPT
     !.replica    = apply_delta(@, p, extract_delta(q.replica, @.frontier)),
     !.uniqueness = [x \in ClaimKeys |-> merge(@[x], rebuilt(q.uniqueness[x]))]]

\* Mutant of Resolved: with the registry from before the merge.
ResolvedWithOldRegistry(s, merged, p) == Enforced(merged.replica, p, s.uniqueness)

\* The replica after the passes that follow the merge into s.
Resolved(s, merged, p) == Enforced(merged.replica, p, merged.uniqueness)

\* The merge, the passes, and then a rebuild of every index.
Synced(s, p, q) ==
  LET merged   == Merged(s, p, q)
      resolved == Resolved(s, merged, p)
  IN  [merged EXCEPT !.replica = resolved,
                     !.indexes = [i \in DOMAIN @ |-> Rebuilt(i, resolved.rows)]]

\* Both deltas are extracted before either is applied.
Sync(a, b) ==
  /\ a # b
  /\ peers' = [peers EXCEPT ![b] = Synced(@, b, peers[a]), ![a] = Synced(@, a, peers[b])]
  /\ deletes' = deletes \cup DeletedBy(b, peers[b].replica, peers'[b].replica)
                        \cup DeletedBy(a, peers[a].replica, peers'[a].replica)

Next ==
  \/ \E p \in Peers, t \in Tables : \E batch \in Batches(t) : Insert(p, batch)
  \/ \E p \in Peers, t \in Tables :
       \E S \in Selections(p, t), assign \in SetLists(t) : Update(p, S, assign)
  \/ \E p \in Peers, t \in Tables : \E S \in Selections(p, t) : Delete(p, S)
  \/ \E p \in Peers, i \in Indexes : CreateIndex(p, i)
  \/ \E a, b \in Peers : Sync(a, b)

Spec == Init /\ [][Next]_vars

\* What a would be after a sync with b.
AfterSync(a, b) == Synced(peers[a], a, peers[b])

\* ENABLED <<Sync(a, b)>>_vars, written out because TLC is slow at finding it.
SyncHasWork(a, b) == AfterSync(a, b) # peers[a] \/ AfterSync(b, a) # peers[b]

\* The host's callers keep syncing every pair of peers: weak fairness of
\* Sync(a, b).  Sync(b, a) has the same effect, one of them is enough.
FairSpec ==
  /\ Spec
  /\ \A a, b \in Peers : a < b =>
       []<>~SyncHasWork(a, b) \/ []<><<Sync(a, b)>>_vars
-----------------------------------------------------------------------------
(***************************************************************************)
(* What the properties speak of.                                           *)
(***************************************************************************)
Replica(p) == peers[p].replica

\* The claims on x that p has seen.
SeenClaims(p, x) ==
  {e \in UNION {peers[q].filed : q \in Peers} :
     e.value = x /\ Seen(Replica(p).frontier, e.version)}

NoDuplicates(r, S) ==
  \A j, k \in S : j # k => ValueKeys(j, r.rows[j]) \cap ValueKeys(k, r.rows[k]) = {}

\* Row j is visible and its foreign key fk refers to the row that e deleted.
Refers(r, j, fk, e) ==
  /\ TableOf[j] = fk.table /\ TableOf[e.key] = fk.ref_table
  /\ Visible(r, j)
  /\ r.rows[j].cells[fk.column].value = e.key

\* The peer that made delete e had seen that reference.
SeenBefore(r, j, fk, e) == Seen(e.seen, r.rows[j].cells[fk.column].version)

ForeignKeysOf(policies) == {fk \in ToSet(ForeignKeyDefs) : fk.on_delete \in policies}

RestoredUnique(s) == /\ NoDuplicates(s.replica, LiveRows(s.replica))
                     /\ Shown(s) = LiveRows(s.replica)

\* Who owns a value, since when, and which other rows have lost it.
Standing(c) == [owner |-> c.owner, version |-> c.version, losers |-> LoserRows(c) \ {c.owner}]

\* Row b is row a with some cells and perhaps the delete replaced by newer ones.
RowAdvances(a, b) ==
  /\ \A c \in Cols : \/ a.cells[c] = b.cells[c]
                     \/ VLess(a.cells[c].version, b.cells[c].version)
  /\ \/ a.deleted = b.deleted /\ a.delVersion = b.delVersion
     \/ b.deleted /\ VLess(a.delVersion, b.delVersion)

\* The live rows that hold x.
Holders(r, x) == {k \in LiveRows(r) : x \in ValueKeys(k, r.rows[k])}

(***************************************************************************)
(* Properties.  Any two peers can sync in any state, so that what holds of *)
(* AfterSync in every state holds after every sync.                        *)
(***************************************************************************)

\* No constraint is on several columns.  Of such a constraint the two properties
\* about uniqueness do not hold (run unique_composite_reads).
OnlySingleColumns == \A x \in ClaimKeys : OnOneColumn(x)

\* A reader never sees two rows with the same value of a constraint, not even
\* between the statement that makes the duplicate and the next sync.
ReadsAreUnique == \A p \in Peers : NoDuplicates(Replica(p), Shown(peers[p]))

\* The registry's owner of a value is the row with the latest claim the peer
\* has seen, however the claims reached it: peers agree on owners as soon as
\* they have seen the same claims ("exactly one canonical owner").
OwnerIsLatestClaim ==
  \A p \in Peers, x \in ClaimKeys :
    LET c == peers[p].uniqueness[x]
    IN  IF c = NoClaim THEN SeenClaims(p, x) = {}
        ELSE /\ [row |-> c.owner, value |-> x, version |-> c.version]
                   \in SeenClaims(p, x)
             /\ \A e \in SeenClaims(p, x) : VLeq(e.version, c.version)

\* A row that has claimed a value is kept, as its owner or among its losers
\* ("conflicting rows are preserved as losers, never silently deleted").
ClaimantsArePreserved ==
  \A p \in Peers, x \in ClaimKeys : \A e \in SeenClaims(p, x) :
    e.row = peers[p].uniqueness[x].owner \/ e.row \in LoserRows(peers[p].uniqueness[x])

\* After a sync both tables satisfy their constraints as they are stored, and
\* every live row can be read (enforce_uniqueness_tombstones: "the row remains
\* alive and visible").
SyncRestoresUniqueness ==
  \A a, b \in Peers : a # b => RestoredUnique(AfterSync(a, b))

\* A cascade is complete: no row keeps, under CASCADE or SET NULL, a reference
\* to a deleted row that the deleting peer knew of, at any depth, at any peer
\* that has seen the delete.
NoReferenceOutlivesItsDelete ==
  \A p \in Peers, e \in deletes : Seen(Replica(p).frontier, e.version) =>
    \A fk \in ForeignKeysOf({"Cascade", "Orphan"}), j \in Keys :
      Refers(Replica(p), j, fk, e) => ~SeenBefore(Replica(p), j, fk, e)

\* What a frontier vouches for is there: a peer that has seen a version of a cell
\* holds that version or a newer one, as deltas leave out what the receiver has seen.
\* Nor is a version ever used twice, for the passes of two peers tick clocks of their
\* own, and a row is deleted by the version of its tombstone.
FrontiersAreHonest ==
  \A p, q \in Peers, k \in Keys :
    /\ Replica(p).tombs[k] = Replica(p).rows[k].delVersion
    /\ \A c \in Cols :
         LET mine   == Replica(p).rows[k].cells[c]
             theirs == Replica(q).rows[k].cells[c]
         IN  /\ mine.version = theirs.version => mine = theirs
             /\ Seen(Replica(p).frontier, theirs.version) => VLeq(theirs.version, mine.version)

\* Before the passes resolve a conflict the two peers of a sync hold the same rows
\* and tombstones, have the same owners, and have the same rows waiting as losers: a
\* delta and the registry that is rebuilt from it bring over all that was missing.
MergesAgree ==
  \A a, b \in Peers : a < b =>
    LET left  == Merged(peers[a], a, peers[b])
        right == Merged(peers[b], b, peers[a])
    IN  /\ left.replica.rows = right.replica.rows
        /\ left.replica.tombs = right.replica.tombs
        /\ \A x \in ClaimKeys : Standing(left.uniqueness[x]) = Standing(right.uniqueness[x])

\* Both peers of a sync end with the same snapshot hash, although each resolves
\* the conflicts with ticks of its own ("same logical state -> same hash").  It
\* takes that the merge has left both with the same losers among the rows that the
\* first cascade spares: of a row with two entries each peer keeps its own, and with
\* the owner dead the entries decide who takes over.
SyncAgrees ==
  \A a, b \in Peers : a < b =>
    LET left  == Merged(peers[a], a, peers[b])
        right == Merged(peers[b], b, peers[a])
        alive == LiveRows(enforce_fk_cascades(left.replica, a))
    IN  (\A x \in ClaimKeys : SameLosers(left.uniqueness[x], right.uniqueness[x], alive))
          => Snapshot(AfterSync(a, b)) = Snapshot(AfterSync(b, a))

\* Where a sync between two peers has nothing left to do, they hold the same replica
\* ("converges without a coordinator"): no frontier has advanced past a change that
\* did not travel with it.  They agree on who owns a value, and show the same rows.
RestingPeersAgree ==
  \A a, b \in Peers : a < b /\ ~SyncHasWork(a, b) =>
    /\ Replica(a) = Replica(b)
    /\ \A x \in ClaimKeys : Standing(peers[a].uniqueness[x]) = Standing(peers[b].uniqueness[x])
    /\ Result(peers[a]) = Result(peers[b])

\* "If a uniqueness winner is cascade-deleted" in a sync, its value passes to a
\* loser "in the same sync cycle" (EngineHost::sync).  The losers that are left
\* must still hold the value, have lost it once, and nothing else in its columns.
CascadedWinnerIsReplaced ==
  \A a, b \in Peers : a # b =>
    LET merged   == Merged(peers[a], a, peers[b])
        cascaded == enforce_fk_cascades(merged.replica, a)
    IN  \A x \in ClaimKeys :
          LET c     == merged.uniqueness[x]
              heirs == LoserRows(c) \cap LiveRows(cascaded)
          IN  /\ c.owner \in Holders(merged.replica, x) \ LiveRows(cascaded)
              /\ heirs # {} /\ heirs \subseteq Holders(cascaded, x)
              /\ \A k \in heirs : LostOnly(merged.uniqueness, k, x)
              => heirs \cap Holders(AfterSync(a, b).replica, x) # {}

\* An index holds exactly the visible rows of its table ("purely derived
\* state", crates/index/src/lib.rs), through statements, their failures and
\* syncs.
IndexMatchesRows ==
  \A p \in Peers : \A i \in DOMAIN peers[p].indexes :
    peers[p].indexes[i] = Rebuilt(i, Replica(p).rows)

\* Every visible row holds a value in its NOT NULL columns, at every peer,
\* whatever updates were merged into it.
NotNullHolds ==
  \A p \in Peers : \A k \in LiveRows(Replica(p)) :
    Held(Replica(p).rows[k], Schemas[TableOf[k]].notNull) = Schemas[TableOf[k]].notNull

\* No call changes a cell or deletes a row without a newer version: neither a
\* statement, nor a pass, nor a delta takes anything back (merge_row), and what a
\* call has changed is newer than what its peer had seen, so that it travels.
RowsOnlyAdvance ==
  [][\A p \in Peers, k \in Keys : RowAdvances(Replica(p).rows[k], Replica(p)'.rows[k])]_vars

\* Under fair syncs, once the clients stop writing all peers show the same
\* rows with the same values.
PeersConverge == <>[](\A p, q \in Peers : Result(peers[p]) = Result(peers[q]))

(***************************************************************************)
(* Statements of comments and documents that the code does not meet.       *)
(***************************************************************************)

\* "Never record the owner as its own loser" (UniquenessRegistry::claim).
OwnerIsNotItsLoser ==
  \A p \in Peers, x \in ClaimKeys :
    peers[p].uniqueness[x].owner \notin LoserRows(peers[p].uniqueness[x])

\* Enforcement nulls "conflicting unique column(s)": a row that loses its
\* value in a sync shared it with another live row.
OnlyConflictsAreNulled ==
  \A a, b \in Peers : a # b =>
    LET before  == Merged(peers[a], a, peers[b]).replica
        after   == AfterSync(a, b).replica
        keys(k) == ValueKeys(k, before.rows[k])
    IN  \A k \in LiveRows(before) :
          ValueKeys(k, after.rows[k]) # keys(k) =>
            \E j \in LiveRows(before) \ {k} : keys(j) \cap keys(k) # {}

\* When the owner of a value is gone "the best surviving loser becomes the new
\* effective winner rather than the value disappearing entirely".
SomeLoserIsPromoted ==
  \A p \in Peers, x \in ClaimKeys :
    LET c    == peers[p].uniqueness[x]
        live == LiveRows(Replica(p))
    IN  c.owner \notin live /\ LoserRows(c) \cap live # {} =>
          \E k \in live : is_effective_unique_winner(c, live, k)

\* "Lamport metadata [is used] to avoid erasing child writes that are
\* concurrent with a parent deletion": a reference that the deleting peer did
\* not know of survives the sync that brings it and the delete together.
ConcurrentReferencesSurvive ==
  \A a, b \in Peers : a # b =>
    LET before == Merged(peers[a], a, peers[b]).replica
        after  == AfterSync(a, b).replica
    IN  \A e \in deletes, fk \in ToSet(ForeignKeyDefs), j \in Keys :
          /\ Seen(before.frontier, e.version)
          /\ Refers(before, j, fk, e)
          /\ ~SeenBefore(before, j, fk, e)
          => Refers(after, j, fk, e)

-----------------------------------------------------------------------------
(***************************************************************************)
(* The inductive invariant, of the replicas R and the deletes D.           *)
(***************************************************************************)
Replicas == [p \in Peers |-> Replica(p)]

\* A peer's clock is its own frontier entry and bounds every other entry, and
\* no frontier runs ahead of the peer it speaks of.
ClockInv(R) ==
  \A p, q \in Peers :
    /\ R[p].frontier[q] <= R[q].clock
    /\ R[p].frontier[q] <= R[p].clock
    /\ R[p].frontier[p] = R[p].clock

\* v is the version of a delete of row k that p has seen.
DeletedAs(R, D, p, k, v) ==
  Seen(R[p].frontier, v) /\ \E e \in D : e.key = k /\ e.version = v

\* A peer has seen what it holds: its cells, and the deletes that its deleted
\* rows and its tombstones record.
HeldInv(R, D) ==
  \A p \in Peers, k \in Keys :
    /\ \A c \in Cols : Seen(R[p].frontier, R[p].rows[k].cells[c].version)
    /\ R[p].rows[k].deleted <=> R[p].rows[k].delVersion # NoVersion
    /\ R[p].rows[k].deleted => DeletedAs(R, D, p, k, R[p].rows[k].delVersion)
    /\ R[p].tombs[k] # NoVersion => DeletedAs(R, D, p, k, R[p].tombs[k])

\* A peer that has seen a delete holds the row as deleted, then or later.
DeletedInv(R, D) ==
  \A p \in Peers, e \in D : Seen(R[p].frontier, e.version) =>
    R[p].rows[e.key].deleted /\ VLeq(e.version, R[p].rows[e.key].delVersion)

\* What the peer that made a delete had seen at the end of that call is older
\* than the delete, up to cells its own passes have set to NULL since.
RemovalInv(R, D) ==
  \A e \in D :
    /\ e.version.counter <= e.seen[e.version.peer]
    /\ \A q \in Peers : /\ e.seen[q] <= R[q].clock
                        /\ q # e.version.peer => e.seen[q] < e.version.counter
    /\ \A p \in Peers, k \in Keys, c \in Cols :
         LET cell == R[p].rows[k].cells[c]
         IN  /\ cell.version # NoVersion
             /\ Seen(e.seen, cell.version)
             /\ cell.version.counter >= e.version.counter
             => cell.value = Null

\* A column holds values of its own.
ColumnInv == \A p \in Peers : WellTyped(Replica(p))

\* A claim is filed by the peer of its version, which has ticked that far.
FiledInv ==
  \A p \in Peers : \A e \in peers[p].filed :
    e.version.peer = p /\ e.version.counter <= Replica(p).clock

\* A tick is for one row: a version names the row that its claims are for.
TickInv ==
  \A p \in Peers : \A e, f \in peers[p].filed : e.version = f.version => e.row = f.row

\* A peer has seen the claim of every row on every value it holds under a
\* constraint on one column.
ValueInv ==
  \A p \in Peers, k \in Keys : \A x \in ValueKeys(k, Replica(p).rows[k]) :
    OnOneColumn(x) => \E e \in SeenClaims(p, x) : e.row = k

\* Every entry of a loser list is a claim the peer has seen.
LosersHaveClaimed ==
  \A p \in Peers, x \in ClaimKeys : \A i \in DOMAIN peers[p].uniqueness[x].losers :
    LET l == peers[p].uniqueness[x].losers[i]
    IN  [row |-> l.row, value |-> x, version |-> l.version] \in SeenClaims(p, x)

IInv == /\ TypeOK
        /\ ClockInv(Replicas)
        /\ HeldInv(Replicas, deletes)
        /\ DeletedInv(Replicas, deletes)
        /\ RemovalInv(Replicas, deletes)
        /\ NoReferenceOutlivesItsDelete
        /\ ColumnInv
        /\ FiledInv
        /\ TickInv
        /\ ValueInv
        /\ LosersHaveClaimed
        /\ OwnerIsLatestClaim
        /\ ClaimantsArePreserved
=============================================================================
