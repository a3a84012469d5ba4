-------------------------------- MODULE Gc ----------------------------------
(***************************************************************************)
(* Garbage collection of stable tombstones (crates/gc/src/lib.rs) from the *)
(* frontiers a PeerRegistry has learnt (crates/metadata/src/lib.rs), among *)
(* peers that write one table and sync_peers pairwise.                     *)
(*                                                                         *)
(* The crates leave it to their caller when a frontier is learnt and when  *)
(* run_gc is called.  Here a collector may learn the frontier of any peer, *)
(* its own included, at any time, and collects only once it knows all of   *)
(* them: the safety invariant of run_gc speaks of "all known peers".       *)
(*                                                                         *)
(* INSERT accepts the key of a deleted row and leaves its tombstone, so    *)
(* that run_gc later removes the new row.  ReuseKeys says whether clients  *)
(* do that; most of what collection promises assumes that they do not.     *)
(*                                                                         *)
(* deletes is a history variable: the rows ever deleted, with the version. *)
(***************************************************************************)
EXTENDS Replica

CONSTANTS MaxCounter,   \* bound: no local write takes the clock above it
          Writers,      \* bound: the peers whose clients write
          Collectors,   \* the peers whose caller runs collection
          ReuseKeys     \* whether a client may INSERT a deleted primary key

ASSUME GcAssumption == /\ Collectors \subseteq Peers
                       /\ Writers \subseteq Peers
                       /\ MaxCounter \in Nat
                       /\ ReuseKeys \in BOOLEAN

VARIABLES replica,      \* peer -> ReplicaState
          known,        \* peer -> its PeerRegistry
          deletes       \* history: rows deleted

vars == <<replica, known, deletes>>

\* A registry: the frontiers of the peers it has heard of.
PeerRegistry == UNION {[S -> Frontier] : S \in SUBSET Peers}

Assignments == UNION {[S -> Values] : S \in (SUBSET Cols) \ {{}}}

TypeOK == /\ replica \in [Peers -> ReplicaState]
          /\ DOMAIN known = Peers
          /\ \A p \in Peers : /\ DOMAIN known[p] \subseteq Peers
                              /\ known[p] \in [DOMAIN known[p] -> Frontier]
          /\ deletes \subseteq [key : Keys, version : Version]

Init == /\ replica = [p \in Peers |-> NewReplica]
        /\ known = [p \in Peers |-> <<>>]
        /\ deletes = {}

-----------------------------------------------------------------------------
\* Mutant of update_peer_frontier: a peer not heard of before stays unknown.
UpdateKnownPeer(registry, q, f) ==
  [s \in DOMAIN registry |->
     IF s = q THEN merge_frontiers(registry[s], f) ELSE registry[s]]

\* PeerRegistry::update_peer_frontier
update_peer_frontier(registry, q, f) ==
  [s \in DOMAIN registry \cup {q} |->
     IF s # q THEN registry[s]
     ELSE IF q \in DOMAIN registry THEN merge_frontiers(registry[q], f) ELSE f]

\* Mutant of global_min_frontier: the maximum instead of the minimum.
GlobalMaxFrontier(registry) ==
  [p \in Peers |-> IF DOMAIN registry = {} THEN 0
                   ELSE Max({registry[q][p] : q \in DOMAIN registry})]

\* Mutant of global_min_frontier: peers that lack an entry are not counted.
MinOfKnownEntries(registry) ==
  LET entries(p) == {registry[q][p] : q \in DOMAIN registry} \ {0}
  IN  [p \in Peers |-> IF entries(p) = {} THEN 0 ELSE Min(entries(p))]

\* PeerRegistry::global_min_frontier: an entry that some peer lacks is
\* dropped, that is 0.
global_min_frontier(registry) ==
  [p \in Peers |-> IF DOMAIN registry = {} THEN 0
                   ELSE Min({registry[q][p] : q \in DOMAIN registry})]

\* is_tombstone_stable
is_tombstone_stable(version, f) ==
  frontier_dominates(f, frontier_update(EmptyFrontier, version.peer, version.counter))

Stable(r, f) == {k \in Keys : r.tombs[k] # NoVersion /\ is_tombstone_stable(r.tombs[k], f)}

\* run_gc: the rows with a stable tombstone are removed, then the tombstones.
run_gc(r, f) ==
  [r EXCEPT
     !.rows  = [k \in Keys |-> IF k \in Stable(r, f) THEN NoRow ELSE @[k]],
     !.tombs = [k \in Keys |-> IF k \in Stable(r, f) THEN NoVersion ELSE @[k]]]

-----------------------------------------------------------------------------
CanTick(p) == p \in Writers /\ replica[p].clock < MaxCounter

\* p has seen the row being deleted, if only by a tombstone it has collected.
SeenDead(p, k) == \E x \in deletes : x.key = k /\ Seen(replica[p].frontier, x.version)

\* INSERT is refused only while the row is visible; whether a client inserts a
\* row it has seen deleted is ReuseKeys.
Insert(p, k, vals) ==
  /\ CanTick(p)
  /\ ~Visible(replica[p], k)
  /\ ReuseKeys \/ ~SeenDead(p, k)
  /\ replica' = [replica EXCEPT ![p] = InsertRow(@, p, k, vals)]
  /\ UNCHANGED <<known, deletes>>

Update(p, k, vals) ==
  /\ CanTick(p)
  /\ Visible(replica[p], k)
  /\ replica' = [replica EXCEPT ![p] = UpdateRow(@, p, k, vals)]
  /\ UNCHANGED <<known, deletes>>

Delete(p, k) ==
  /\ CanTick(p)
  /\ Visible(replica[p], k)
  /\ replica' = [replica EXCEPT ![p] = DeleteRow(@, p, k)]
  /\ deletes' = deletes \cup
                  {[key |-> k, version |-> NextVersion(replica[p], p)]}
  /\ UNCHANGED known

DeltaFor(p, q) == extract_delta(replica[p], replica[q].frontier)

SyncPeers(a, b) ==
  /\ a # b
  /\ replica' = [replica EXCEPT ![b] = apply_delta(@, b, DeltaFor(a, b)),
                                ![a] = apply_delta(@, a, DeltaFor(b, a))]
  /\ UNCHANGED <<known, deletes>>

LearnFrontier(p, q) ==
  /\ known' = [known EXCEPT ![p] =
                 update_peer_frontier(@, q, replica[q].frontier)]
  /\ UNCHANGED <<replica, deletes>>

Collect(p) ==
  /\ DOMAIN known[p] = Peers
  /\ replica' = [replica EXCEPT ![p] = run_gc(@, global_min_frontier(known[p]))]
  /\ UNCHANGED <<known, deletes>>

Next ==
  \/ \E p \in Peers, k \in Keys, vals \in Assignments : Insert(p, k, vals)
  \/ \E p \in Peers, k \in Keys, vals \in Assignments : Update(p, k, vals)
  \/ \E p \in Peers, k \in Keys : Delete(p, k)
  \/ \E a, b \in Peers : SyncPeers(a, b)
  \/ \E p \in Collectors, q \in Peers : LearnFrontier(p, q)
  \/ \E p \in Collectors : Collect(p)

Spec == Init /\ [][Next]_vars

Neighbours(a, b) == a < b /\ \A c \in Peers : c <= a \/ b <= c

\* The caller keeps syncing neighbours, learning frontiers and collecting; that
\* every pair syncs is not needed.
FairSpec ==
  /\ Spec
  /\ \A a, b \in Peers : Neighbours(a, b) => WF_vars(SyncPeers(a, b))
  /\ \A p \in Collectors, q \in Peers : WF_vars(LearnFrontier(p, q))
  /\ \A p \in Collectors : WF_vars(Collect(p))

-----------------------------------------------------------------------------
(***************************************************************************)
(* Properties.                                                             *)
(***************************************************************************)

\* "This prevents zombie rows": a peer that has seen the delete of a row does
\* not show the row, also after the tombstone is gone.
NoZombies ==
  \A p \in Peers : \A x \in deletes :
    Seen(replica[p].frontier, x.version) => ~Visible(replica[p], x.key)

\* Collection goes unnoticed by readers: two peers with nothing left to send
\* to each other show the same rows, whichever of them has collected.
QuiescentPeersShowTheSame ==
  \A p, q \in Peers :
    IsEmptyDelta(DeltaFor(p, q)) /\ IsEmptyDelta(DeltaFor(q, p)) =>
      \A k \in Keys :
        /\ Visible(replica[p], k) <=> Visible(replica[q], k)
        /\ Visible(replica[p], k) => replica[p].rows[k] = replica[q].rows[k]

\* "A tombstone can only be reclaimed when ALL known peers have seen the delete
\* event", whatever has happened since the collector learnt their frontiers,
\* and also when clients reuse keys.
CollectsOnlyWhatAllHaveSeen ==
  [][\A p \in Peers, k \in Keys :
       replica[p].tombs[k] # NoVersion /\ replica'[p].tombs[k] = NoVersion =>
         \A q \in Peers : Seen(replica[q].frontier, replica[p].tombs[k])]_vars

\* gc_row removes "a tombstoned row": no row a reader can see is collected.
\* It holds as long as clients do not reuse keys (run gc_reuse).
CollectsOnlyDeadRows ==
  [][\A p \in Collectors : Collect(p) =>
       \A k \in Keys : Visible(replica[p], k) => Visible(replica[p], k)']_vars

\* Once the clients stop writing every tombstone of a collector is collected.
TombstonesAreCollected ==
  <>[](\A p \in Collectors, k \in Keys : replica[p].tombs[k] = NoVersion)

-----------------------------------------------------------------------------
(***************************************************************************)
(* The inductive invariant.                                                *)
(***************************************************************************)

\* A peer's clock is its own frontier entry and bounds every other entry, and
\* no frontier, stored or in a registry, runs ahead of the peer it speaks of.
ClockInv ==
  /\ \A p, q \in Peers :
       /\ replica[p].frontier[q] <= replica[q].clock
       /\ replica[p].frontier[q] <= replica[p].clock
       /\ replica[p].frontier[p] = replica[p].clock
  /\ \A p \in Peers : \A q \in DOMAIN known[p] : \A s \in Peers :
       known[p][q][s] <= replica[q].frontier[s]
  /\ \A x \in deletes : x.version.counter <= replica[x.version.peer].clock

\* v is the version of a delete of row k that p has seen.
DeletedAs(p, k, v) == /\ [key |-> k, version |-> v] \in deletes
                      /\ Seen(replica[p].frontier, v)

\* A peer has seen what it holds: its cells, and the deletes that its deleted
\* rows and its tombstones record.
HeldInv ==
  \A p \in Peers, k \in Keys :
    /\ \A c \in Cols : Seen(replica[p].frontier, replica[p].rows[k].cells[c].version)
    /\ replica[p].rows[k].deleted <=> replica[p].rows[k].delVersion # NoVersion
    /\ replica[p].rows[k].deleted => DeletedAs(p, k, replica[p].rows[k].delVersion)
    /\ replica[p].tombs[k] # NoVersion => DeletedAs(p, k, replica[p].tombs[k])

\* A peer that has seen a delete and keeps nothing of the row got there by
\* collection, its own or another's: every peer has seen a delete of the row.
CollectedInv ==
  \A p \in Peers, k \in Keys :
    SeenDead(p, k) /\ replica[p].rows[k] = NoRow =>
      \A q \in Peers : SeenDead(q, k)

\* A peer shows the cells its frontier covers, or newer ones, of every row it
\* has not seen deleted; and a version names one value of a cell.
CellInv ==
  \A p, q \in Peers, k \in Keys, c \in Cols :
    LET mine   == replica[p].rows[k].cells[c]
        theirs == replica[q].rows[k].cells[c]
    IN  /\ Seen(replica[p].frontier, theirs.version) /\ ~SeenDead(p, k) =>
             VLeq(theirs.version, mine.version)
        /\ mine.version = theirs.version => mine = theirs

\* What clients that reuse no key rely on.
DeadInv == /\ NoZombies
           /\ CollectedInv
           /\ CellInv

IInv == /\ TypeOK
        /\ ClockInv
        /\ HeldInv
        /\ ~ReuseKeys => DeadInv
=============================================================================
