----------------------------- MODULE DeltaSync ------------------------------
(***************************************************************************)
(* Peers that write one table locally and exchange deltas.                 *)
(*                                                                         *)
(* extract_delta and apply_delta are separate calls of the sync crate.     *)
(* EngineHost::sync and sync_peers run them back to back (SyncPeers);      *)
(* the ReplicationTransport trait hands a delta to a transport, so Extract *)
(* puts it in net, where it may be delayed, reordered, applied any number  *)
(* of times (Apply leaves it there) or lost (Lose).                        *)
(*                                                                         *)
(* writes and deletes are history variables: every cell ever written and   *)
(* every row ever deleted, with its version.  d.base records the frontier  *)
(* a delta was extracted against; no step reads it.                        *)
(***************************************************************************)
EXTENDS Replica

CONSTANTS MaxCounter,   \* bound: no local write takes the clock above it
          MaxNet,       \* bound: deltas in flight
          ReuseKeys     \* whether a client may INSERT a deleted primary key

ASSUME BoundsAssumption == MaxCounter \in Nat /\ MaxNet \in Nat
ASSUME ReuseAssumption  == ReuseKeys \in BOOLEAN

VARIABLES replica,      \* peer -> ReplicaState
          net,          \* deltas in flight
          writes,       \* history: cells written
          deletes       \* history: rows deleted

vars == <<replica, net, writes, deletes>>

Write   == [key : Keys, col : Cols, cell : Cell \ {NoCell}]
Removal == [key : Keys, version : Version]
Delta   == [from : Peers, to : Peers, base : Frontier, payload : Payload]

\* The column values a statement gives: at least one column.
Assignments == UNION {[S -> Values] : S \in (SUBSET Cols) \ {{}}}

TypeOK == /\ replica \in [Peers -> ReplicaState]
          /\ net \subseteq Delta
          /\ writes \subseteq Write
          /\ deletes \subseteq Removal

Init == /\ replica = [p \in Peers |-> NewReplica]
        /\ net = {}
        /\ writes = {}
        /\ deletes = {}

-----------------------------------------------------------------------------
\* The history records of one statement.
CellsWritten(k, v, vals) ==
  {[key |-> k, col |-> c, cell |-> [value |-> vals[c], version |-> v]] :
     c \in DOMAIN vals}

CanTick(p) == replica[p].clock < MaxCounter

\* INSERT: refused when a visible row has the key (PrimaryKeyViolation).
Insert(p, k, vals) ==
  /\ CanTick(p)
  /\ ~Visible(replica[p], k)
  /\ ReuseKeys \/ replica[p].rows[k] = NoRow
  /\ replica' = [replica EXCEPT ![p] = InsertRow(@, p, k, vals)]
  /\ writes' = writes \cup CellsWritten(k, NextVersion(replica[p], p), vals)
  /\ UNCHANGED <<net, deletes>>

\* UPDATE of one visible row.
Update(p, k, vals) ==
  /\ CanTick(p)
  /\ Visible(replica[p], k)
  /\ replica' = [replica EXCEPT ![p] = UpdateRow(@, p, k, vals)]
  /\ writes' = writes \cup CellsWritten(k, NextVersion(replica[p], p), vals)
  /\ UNCHANGED <<net, deletes>>

\* DELETE of one visible row.
Delete(p, k) ==
  /\ CanTick(p)
  /\ Visible(replica[p], k)
  /\ replica' = [replica EXCEPT ![p] = DeleteRow(@, p, k)]
  /\ deletes' = deletes \cup
                  {[key |-> k, version |-> NextVersion(replica[p], p)]}
  /\ UNCHANGED <<net, writes>>

\* extract_delta(source p, frontier of q)
DeltaFor(p, q) == extract_delta(replica[p], replica[q].frontier)

Extract(p, q) ==
  /\ p # q
  /\ Cardinality(net) < MaxNet
  /\ net' = net \cup {[from |-> p, to |-> q, base |-> replica[q].frontier,
                       payload |-> DeltaFor(p, q)]}
  /\ UNCHANGED <<replica, writes, deletes>>

Apply(d) ==
  /\ replica' = [replica EXCEPT ![d.to] = apply_delta(@, d.to, d.payload)]
  /\ UNCHANGED <<net, writes, deletes>>

Lose(d) ==
  /\ net' = net \ {d}
  /\ UNCHANGED <<replica, writes, deletes>>

\* sync_peers(a, b): both deltas are extracted before either is applied.
SyncPeers(a, b) ==
  /\ a # b
  /\ replica' = [replica EXCEPT ![b] = apply_delta(@, b, DeltaFor(a, b)),
                                ![a] = apply_delta(@, a, DeltaFor(b, a))]
  /\ UNCHANGED <<net, writes, deletes>>

Next ==
  \/ \E p \in Peers, k \in Keys, vals \in Assignments : Insert(p, k, vals)
  \/ \E p \in Peers, k \in Keys, vals \in Assignments : Update(p, k, vals)
  \/ \E p \in Peers, k \in Keys : Delete(p, k)
  \/ \E p, q \in Peers : Extract(p, q)
  \/ \E d \in net : Apply(d)
  \/ \E d \in net : Lose(d)
  \/ \E a, b \in Peers : SyncPeers(a, b)

Spec == Init /\ [][Next]_vars
-----------------------------------------------------------------------------
(***************************************************************************)
(* What a peer has seen: the history its frontier covers.                  *)
(***************************************************************************)
SeenWrites(p)  == {w \in writes : Seen(replica[p].frontier, w.cell.version)}
SeenDeletes(p) == {x \in deletes : Seen(replica[p].frontier, x.version)}

(***************************************************************************)
(* Properties.                                                             *)
(***************************************************************************)

\* Strong convergence ("Convergent", crates/sync/src/lib.rs): two peers whose
\* frontiers cover the same writes and deletes hold the same rows and
\* tombstones, whatever deltas, repeats and orders brought them there.
StrongConvergence ==
  \A p, q \in Peers :
    SeenWrites(p) = SeenWrites(q) /\ SeenDeletes(p) = SeenDeletes(q) =>
      /\ replica[p].rows  = replica[q].rows
      /\ replica[p].tombs = replica[q].tombs

\* Delete wins for good: once a peer holds a row as deleted, no later delta
\* or statement brings it back there (merge_row, apply_delta).
DeletesAreFinal ==
  [][\A p \in Peers, k \in Keys :
       replica[p].rows[k].deleted => replica'[p].rows[k].deleted]_vars

\* No cell of a peer ever goes back to an older version, so a delayed or
\* repeated delta cannot undo a newer write.
CellsNeverRegress ==
  [][\A p \in Peers, k \in Keys, c \in Cols :
       VLeq(replica[p].rows[k].cells[c].version,
            replica'[p].rows[k].cells[c].version)]_vars

\* After one sync_peers neither side has anything left to send to the other:
\* sync_to_quiescence stops after its second round.
SyncQuiesces ==
  [][\A a, b \in Peers : SyncPeers(a, b) =>
       /\ IsEmptyDelta(extract_delta(replica'[a], replica'[b].frontier))
       /\ IsEmptyDelta(extract_delta(replica'[b], replica'[a].frontier))]_vars

\* "Converges without a coordinator" (README.md): two peers that have nothing
\* left to send to each other hold the same rows.
QuiescentPeersAgree ==
  \A p, q \in Peers :
    IsEmptyDelta(DeltaFor(p, q)) /\ IsEmptyDelta(DeltaFor(q, p)) =>
      replica[p].rows = replica[q].rows

\* The peers implement the eventually consistent store: what a peer has seen
\* is what its frontier covers, and its rows show exactly that.
Store == INSTANCE EventualStore WITH
           seenWrites  <- [p \in Peers |-> SeenWrites(p)],
           seenDeletes <- [p \in Peers |-> SeenDeletes(p)],
           shown       <- [p \in Peers |-> replica[p].rows]

ImplementsStore == Store!Spec

-----------------------------------------------------------------------------
(***************************************************************************)
(* The inductive invariant, for clients that never reuse a deleted primary *)
(* key.                                                                    *)
(***************************************************************************)

\* A peer's clock is its own frontier entry and bounds every other entry; no
\* frontier, stored or in flight, runs ahead of the clock it speaks of.
ClockInv ==
  /\ \A p, q \in Peers :
       /\ replica[p].frontier[q] <= replica[q].clock
       /\ replica[p].frontier[q] <= replica[p].clock
       /\ replica[p].frontier[p] = replica[p].clock
  /\ \A d \in net : \A q \in Peers :
       /\ d.payload.frontier[q] <= replica[q].clock
       /\ d.payload.frontier[q] <= d.payload.frontier[d.from]
       /\ d.base[q] <= replica[d.to].frontier[q]

\* A version is taken from its peer's clock and names one value of a cell.
HistoryInv ==
  /\ \A w \in writes :
       w.cell.version.counter <= replica[w.cell.version.peer].clock
  /\ \A x \in deletes : x.version.counter <= replica[x.version.peer].clock
  /\ \A w1, w2 \in writes :
       /\ w1.key = w2.key
       /\ w1.col = w2.col
       /\ w1.cell.version = w2.cell.version
       => w1 = w2

\* The rows hold nothing that is not in the history (ws, ds), or that
\* frontier f does not cover.
Logged(ws, ds, rows, f) ==
  \A k \in Keys :
    /\ \A c \in Cols :
         rows[k].cells[c] # NoCell =>
           /\ [key |-> k, col |-> c, cell |-> rows[k].cells[c]] \in ws
           /\ Seen(f, rows[k].cells[c].version)
    /\ rows[k].delVersion # NoVersion =>
         /\ [key |-> k, version |-> rows[k].delVersion] \in ds
         /\ Seen(f, rows[k].delVersion)
    /\ rows[k].deleted <=> rows[k].delVersion # NoVersion

\* Every write and delete frontier f covers shows in the rows, unless it or a
\* newer one is covered by base: the receiver of a delta shows that one.
Honest(ws, ds, rows, f, base) ==
  /\ \A w \in ws :
       Seen(f, w.cell.version) =>
         \/ VLeq(w.cell.version, rows[w.key].cells[w.col].version)
         \/ \E w2 \in ws :
              /\ w2.key = w.key
              /\ w2.col = w.col
              /\ Seen(base, w2.cell.version)
              /\ VLeq(w.cell.version, w2.cell.version)
  /\ \A x \in ds :
       Seen(f, x.version) =>
         \/ VLeq(x.version, rows[x.key].delVersion)
         \/ \E x2 \in ds :
              /\ x2.key = x.key
              /\ Seen(base, x2.version)
              /\ VLeq(x.version, x2.version)

GoodReplica(ws, ds, r) ==
  /\ Logged(ws, ds, r.rows, r.frontier)
  /\ Honest(ws, ds, r.rows, r.frontier, EmptyFrontier)
  /\ \A k \in Keys : r.tombs[k] = r.rows[k].delVersion

GoodPayload(ws, ds, d, base) ==
  /\ Logged(ws, ds, d.rows, d.frontier)
  /\ Honest(ws, ds, d.rows, d.frontier, base)
  /\ \A k \in Keys : d.tombs[k] = IF Seen(base, d.rows[k].delVersion)
                                  THEN NoVersion ELSE d.rows[k].delVersion

ReplicaInv == \A p \in Peers : GoodReplica(writes, deletes, replica[p])

DeltaInv == \A d \in net : GoodPayload(writes, deletes, d.payload, d.base)

IInv == TypeOK /\ ClockInv /\ HistoryInv /\ ReplicaInv /\ DeltaInv
=============================================================================
