-------------------------- MODULE DeltaSyncProofs ---------------------------
(***************************************************************************)
(* IInv is inductive when clients do not reuse deleted keys, and it        *)
(* implies the properties of DeltaSync.  The lemmas about one replica and  *)
(* one payload speak of any history (ws, ds); the proof about the steps    *)
(* instantiates them.                                                      *)
(***************************************************************************)
EXTENDS DeltaSync, ReplicaProofs

\* The version of a write is a Version, that of a cell that is present too.
LEMMA WriteFields ==
  ASSUME NEW w \in Write
  PROVE  w.key \in Keys /\ w.col \in Cols /\ w.cell \in Cell /\ w.cell # NoCell
         /\ w.cell.version \in Version
BY CellVersion DEF Write, Cell, NoCell

LEMMA RemovalFields ==
  ASSUME NEW x \in Removal
  PROVE  x.key \in Keys /\ x.version \in Version
BY DEF Removal

-----------------------------------------------------------------------------
(***************************************************************************)
(* apply_delta.                                                            *)
(***************************************************************************)

\* A good payload, with a frontier led by the peer s it comes from, meant for
\* replica r of peer p, of which it presumes no more than r has seen.
Deliverable(ws, ds, r, p, d, base, s) ==
  /\ GoodReplica(ws, ds, r)
  /\ GoodPayload(ws, ds, d, base)
  /\ r.frontier[p] = r.clock
  /\ \A q \in Peers : /\ base[q] <= r.frontier[q]
                      /\ r.frontier[q] <= r.clock
                      /\ d.frontier[q] <= d.frontier[s]
  /\ \A w \in ws : w.cell.version.peer = p =>
                     w.cell.version.counter <= r.clock
  /\ \A x \in ds : x.version.peer = p => x.version.counter <= r.clock

LEMMA LoggedDeletedWithVersion ==
  ASSUME NEW ws, NEW ds, NEW rows, NEW f, Logged(ws, ds, rows, f),
         NEW k \in Keys
  PROVE  DeletedWithVersion(rows[k])
BY DEF Logged, DeletedWithVersion

\* The clock and frontier after apply_delta.
LEMMA ApplyClock ==
  ASSUME NEW ws, NEW ds, NEW r \in ReplicaState, NEW d \in Payload,
         NEW p \in Peers, NEW s \in Peers, NEW base,
         Deliverable(ws, ds, r, p, d, base, s)
  PROVE  LET n == apply_delta(r, p, d)
         IN  /\ n.clock \in Nat
             /\ n.frontier \in Frontier
             /\ r.clock <= n.clock
             /\ n.frontier[p] = n.clock
             /\ \A q \in Peers : /\ n.frontier[q] <= n.clock
                                 /\ r.frontier[q] <= n.frontier[q]
                                 /\ d.frontier[q] <= n.frontier[q]
                                 /\ q # p => n.frontier[q] \in
                                               {r.frontier[q], d.frontier[q]}
BY ApplyDeltaClock DEF Deliverable

\* Each row after apply_delta.
LEMMA ApplyRow ==
  ASSUME NEW ws, NEW ds \in SUBSET Removal,
         NEW r \in ReplicaState, NEW d \in Payload,
         NEW p, NEW s, NEW base \in Frontier,
         Deliverable(ws, ds, r, p, d, base, s), NEW k \in Keys
  PROVE  LET n == apply_delta(r, p, d)
             a == r.rows[k]
             b == d.rows[k]
         IN  /\ n.rows[k] = Received(a, b)
             /\ n.tombs[k] = n.rows[k].delVersion
             /\ n.tombs[k] \in OptVersion
<1> DEFINE a == r.rows[k]
           b == d.rows[k]
           n == apply_delta(r, p, d)
<1>1. a \in Row /\ b \in Row /\ d.tombs[k] \in OptVersion
  BY ReplicaFields, PayloadFields
<1>2. DeletedWithVersion(a) /\ DeletedWithVersion(b)
  BY LoggedDeletedWithVersion DEF Deliverable, GoodReplica, GoodPayload
<1>3. d.tombs[k] \in {NoVersion, b.delVersion} /\ r.tombs[k] = a.delVersion
  <2>1. d.tombs[k] = IF Seen(base, b.delVersion) THEN NoVersion ELSE b.delVersion
    BY DEF Deliverable, GoodPayload
  <2> QED BY <2>1 DEF Deliverable, GoodReplica
<1>4. /\ Received(a, b) \in Row
      /\ DeletedWithVersion(Received(a, b))
      /\ Received(a, b).delVersion \in {a.delVersion, b.delVersion}
      /\ VLeq(a.delVersion, Received(a, b).delVersion)
      /\ VLeq(b.delVersion, Received(a, b).delVersion)
  BY <1>1, <1>2, ReceivedFacts
<1>5. VLeq(d.tombs[k], Received(a, b).delVersion)
  BY <1>3, <1>4, NoVersionIsLeast, RowFields
<1>6. n.rows[k] = Tombstoned(Received(a, b), d.tombs[k])
  BY DEF apply_delta
<1>7. n.rows[k] = Received(a, b)
  BY <1>1, <1>4, <1>5, <1>6, TombstoneIsRedundant
<1>8. n.tombs[k] = IF VLess(a.delVersion, d.tombs[k]) THEN d.tombs[k]
                   ELSE a.delVersion
  BY <1>3 DEF apply_delta
<1>9. n.tombs[k] = Received(a, b).delVersion
  <2>. DEFINE v == a.delVersion
              w == b.delVersion
              x == Received(a, b).delVersion
  <2>1. v \in OptVersion /\ w \in OptVersion /\ x \in OptVersion
    BY <1>1, <1>4, RowFields
  <2>2. x \in {v, w} /\ VLeq(v, x) /\ VLeq(w, x)
    BY <1>4
  <2>3. VLess(v, w) => x = w
    BY <2>1, <2>2, VLessTransitive, VLessIrreflexive DEF VLeq
  <2>4. ~VLess(v, w) => x = v
    BY <2>1, <2>2, VLessTotal, VLessTransitive, VLessIrreflexive DEF VLeq
  <2>5. ~VLess(v, NoVersion)
    BY <2>1, NoVersionIsLeast, VLessTransitive, VLessIrreflexive DEF VLeq
  <2>6. CASE d.tombs[k] = w
    <3> HIDE DEF v, w, x
    <3> QED BY <1>8, <2>3, <2>4, <2>6 DEF v, w, x
  <2>7. CASE d.tombs[k] = NoVersion /\ d.tombs[k] # w
    \* The delta carries the deleted row without its tombstone only when the
    \* receiver has seen that delete.
    <3>1. Seen(base, w) /\ w # NoVersion
      BY <2>7 DEF Deliverable, GoodPayload
    <3>2. \A q \in Peers : base[q] <= r.frontier[q]
      BY DEF Deliverable
    <3>3. Seen(r.frontier, w)
      BY <2>1, <3>1, <3>2, SeenMonotone, ReplicaFields
    <3>4. [key |-> k, version |-> w] \in ds
      BY <3>1 DEF Deliverable, GoodPayload, Logged
    <3>5. VLeq(w, v)
      <4>1. Honest(ws, ds, r.rows, r.frontier, EmptyFrontier)
        BY DEF Deliverable, GoodReplica
      <4>2. \A x2 \in ds : ~Seen(EmptyFrontier, x2.version)
        BY SeenEmpty, RemovalFields
      <4> QED BY <3>3, <3>4, <4>1, <4>2 DEF Honest
    <3>6. x = v
      BY <2>1, <2>2, <3>5, VLeqAntisymmetric
    <3> HIDE DEF v, w, x
    <3> QED BY <1>8, <2>5, <2>7, <3>6 DEF v, x
  <2> QED BY <1>3, <2>6, <2>7
<1> QED BY <1>4, <1>7, <1>9, RowFields

\* What a good replica has seen, it shows.
LEMMA SeenShows ==
  ASSUME NEW ws \in SUBSET Write, NEW ds \in SUBSET Removal, NEW r,
         GoodReplica(ws, ds, r)
  PROVE  /\ \A w \in ws : Seen(r.frontier, w.cell.version) =>
              VLeq(w.cell.version, r.rows[w.key].cells[w.col].version)
         /\ \A x \in ds : Seen(r.frontier, x.version) =>
              VLeq(x.version, r.rows[x.key].delVersion)
<1>1. \A w \in ws : ~Seen(EmptyFrontier, w.cell.version)
  BY SeenEmpty, WriteFields
<1>2. \A x \in ds : ~Seen(EmptyFrontier, x.version)
  BY SeenEmpty, RemovalFields
<1> QED BY <1>1, <1>2 DEF GoodReplica, Honest

\* What apply_delta's frontier covers was covered by one of the frontiers it
\* merged, for versions not ahead of the peer's own clock.
LEMMA SeenAfterApply ==
  ASSUME NEW ws, NEW ds, NEW r \in ReplicaState, NEW d \in Payload,
         NEW p \in Peers, NEW s \in Peers, NEW base,
         Deliverable(ws, ds, r, p, d, base, s),
         NEW v \in Version,
         v.peer = p => v.counter <= r.clock,
         Seen(apply_delta(r, p, d).frontier, v)
  PROVE  Seen(r.frontier, v) \/ Seen(d.frontier, v)
<1>1. v.peer \in Peers /\ v # NoVersion
  BY VersionIsOpt DEF Version
<1>2. v.counter <= apply_delta(r, p, d).frontier[v.peer]
  BY <1>1 DEF Seen
<1>3. CASE v.peer = p
  BY <1>3 DEF Seen, Deliverable
<1>4. CASE v.peer # p
  <2>1. apply_delta(r, p, d).frontier[v.peer]
          \in {r.frontier[v.peer], d.frontier[v.peer]}
    BY <1>1, <1>4, ApplyClock
  <2> QED BY <1>2, <2>1 DEF Seen
<1> QED BY <1>3, <1>4

\* apply_delta keeps a replica good.
LEMMA ApplyGood ==
  ASSUME NEW ws \in SUBSET Write, NEW ds \in SUBSET Removal,
         NEW r \in ReplicaState, NEW d \in Payload,
         NEW p \in Peers, NEW s \in Peers, NEW base \in Frontier,
         Deliverable(ws, ds, r, p, d, base, s)
  PROVE  /\ apply_delta(r, p, d) \in ReplicaState
         /\ GoodReplica(ws, ds, apply_delta(r, p, d))
<1> DEFINE n == apply_delta(r, p, d)
<1>1. \A k \in Keys : r.rows[k] \in Row /\ d.rows[k] \in Row
  BY ReplicaFields, PayloadFields
<1>2. \A k \in Keys : DeletedWithVersion(r.rows[k]) /\ DeletedWithVersion(d.rows[k])
  BY LoggedDeletedWithVersion DEF Deliverable, GoodReplica, GoodPayload
<1>3. /\ r.frontier \in Frontier /\ d.frontier \in Frontier /\ n.frontier \in Frontier
      /\ n.clock \in Nat
      /\ \A q \in Peers : /\ r.frontier[q] <= n.frontier[q]
                          /\ d.frontier[q] <= n.frontier[q]
                          /\ base[q] <= r.frontier[q]
  BY ApplyClock, ReplicaFields, PayloadFields DEF Deliverable
<1>4. ASSUME NEW k \in Keys
      PROVE  /\ n.rows[k] = Received(r.rows[k], d.rows[k])
             /\ n.tombs[k] = n.rows[k].delVersion
             /\ n.tombs[k] \in OptVersion
  BY ApplyRow
<1>5. ASSUME NEW k \in Keys
      PROVE  /\ n.rows[k] \in Row
             /\ DeletedWithVersion(n.rows[k])
             /\ \A c \in Cols :
                  /\ n.rows[k].cells[c] \in {r.rows[k].cells[c], d.rows[k].cells[c]}
                  /\ VLeq(r.rows[k].cells[c].version, n.rows[k].cells[c].version)
                  /\ VLeq(d.rows[k].cells[c].version, n.rows[k].cells[c].version)
             /\ n.rows[k].delVersion \in {r.rows[k].delVersion, d.rows[k].delVersion}
             /\ VLeq(r.rows[k].delVersion, n.rows[k].delVersion)
             /\ VLeq(d.rows[k].delVersion, n.rows[k].delVersion)
  BY <1>1, <1>2, <1>4, ReceivedFacts
<1>6. n \in ReplicaState
  <2>1. /\ n = [rows |-> n.rows, tombs |-> n.tombs, clock |-> n.clock,
                frontier |-> n.frontier]
        /\ n.rows = [k \in Keys |-> n.rows[k]]
        /\ n.tombs = [k \in Keys |-> n.tombs[k]]
    BY DEF apply_delta
  <2>2. n.rows \in [Keys -> Row] /\ n.tombs \in [Keys -> OptVersion]
    BY <1>4, <1>5, <2>1
  <2> HIDE DEF n
  <2> QED BY <1>3, <2>1, <2>2 DEF ReplicaState, Tombs
<1> HIDE DEF n
<1>7. Logged(ws, ds, n.rows, n.frontier)
  <2>1. ASSUME NEW k \in Keys, NEW c \in Cols, n.rows[k].cells[c] # NoCell
        PROVE  /\ [key |-> k, col |-> c, cell |-> n.rows[k].cells[c]] \in ws
               /\ Seen(n.frontier, n.rows[k].cells[c].version)
    <3> DEFINE x == n.rows[k].cells[c]
    <3>1. x.version \in OptVersion
      BY <1>5, RowFields, CellVersion
    <3>2. CASE x = r.rows[k].cells[c]
      <4>1. /\ [key |-> k, col |-> c, cell |-> x] \in ws
            /\ Seen(r.frontier, x.version)
        BY <2>1, <3>2 DEF Deliverable, GoodReplica, Logged
      <4> QED BY <1>3, <3>1, <4>1, SeenMonotone
    <3>3. CASE x = d.rows[k].cells[c]
      <4>1. /\ [key |-> k, col |-> c, cell |-> x] \in ws
            /\ Seen(d.frontier, x.version)
        BY <2>1, <3>3 DEF Deliverable, GoodPayload, Logged
      <4> QED BY <1>3, <3>1, <4>1, SeenMonotone
    <3> QED BY <1>5, <3>2, <3>3
  <2>2. ASSUME NEW k \in Keys, n.rows[k].delVersion # NoVersion
        PROVE  /\ [key |-> k, version |-> n.rows[k].delVersion] \in ds
               /\ Seen(n.frontier, n.rows[k].delVersion)
    <3> DEFINE x == n.rows[k].delVersion
    <3>1. x \in OptVersion
      BY <1>5, RowFields
    <3>2. CASE x = r.rows[k].delVersion
      <4>1. [key |-> k, version |-> x] \in ds /\ Seen(r.frontier, x)
        BY <2>2, <3>2 DEF Deliverable, GoodReplica, Logged
      <4> QED BY <1>3, <3>1, <4>1, SeenMonotone
    <3>3. CASE x = d.rows[k].delVersion
      <4>1. [key |-> k, version |-> x] \in ds /\ Seen(d.frontier, x)
        BY <2>2, <3>3 DEF Deliverable, GoodPayload, Logged
      <4> QED BY <1>3, <3>1, <4>1, SeenMonotone
    <3> QED BY <1>5, <3>2, <3>3
  <2> QED BY <1>5, <2>1, <2>2 DEF Logged, DeletedWithVersion
<1>8. GoodReplica(ws, ds, r) /\ GoodPayload(ws, ds, d, base)
  BY DEF Deliverable
<1>9. ASSUME NEW w \in ws, Seen(n.frontier, w.cell.version)
      PROVE  VLeq(w.cell.version, n.rows[w.key].cells[w.col].version)
  <2> DEFINE v == w.cell.version
             a == r.rows[w.key].cells[w.col].version
             b == d.rows[w.key].cells[w.col].version
             x == n.rows[w.key].cells[w.col].version
  <2>1. w.key \in Keys /\ w.col \in Cols /\ v \in Version /\ v \in OptVersion
    BY WriteFields, VersionIsOpt
  <2>2. a \in OptVersion /\ b \in OptVersion /\ x \in OptVersion
    BY <1>1, <1>5, <2>1, RowFields, CellVersion
  <2>3. VLeq(a, x) /\ VLeq(b, x)
    BY <1>5, <2>1
  <2>4. ASSUME NEW u \in ws, u.key = w.key, u.col = w.col,
               Seen(r.frontier, u.cell.version)
        PROVE  VLeq(u.cell.version, a)
    BY <1>8, <2>4, SeenShows
  <2>5. Seen(r.frontier, v) \/ Seen(d.frontier, v)
    BY <1>9, <2>1, SeenAfterApply DEF Deliverable, n
  <2>6. CASE Seen(r.frontier, v)
    BY <2>1, <2>2, <2>3, <2>4, <2>6, VLeqTransitive
  <2>7. CASE Seen(d.frontier, v)
    <3>1. \/ VLeq(v, b)
          \/ \E u \in ws : /\ u.key = w.key /\ u.col = w.col
                           /\ Seen(base, u.cell.version)
                           /\ VLeq(v, u.cell.version)
      BY <1>8, <2>7 DEF GoodPayload, Honest
    <3>2. CASE VLeq(v, b)
      BY <2>1, <2>2, <2>3, <3>2, VLeqTransitive
    <3>3. ASSUME NEW u \in ws, u.key = w.key, u.col = w.col,
                 Seen(base, u.cell.version), VLeq(v, u.cell.version)
          PROVE  VLeq(v, x)
      <4>1. u.cell.version \in OptVersion
        BY WriteFields, VersionIsOpt
      <4>2. VLeq(u.cell.version, a)
        BY <1>3, <2>4, <3>3, <4>1, SeenMonotone
      <4>3. VLeq(v, a)
        BY <2>1, <2>2, <3>3, <4>1, <4>2, VLeqTransitive
      <4> QED BY <2>1, <2>2, <2>3, <4>3, VLeqTransitive
    <3> QED BY <3>1, <3>2, <3>3
  <2> QED BY <2>5, <2>6, <2>7
<1>10. ASSUME NEW w \in ds, Seen(n.frontier, w.version)
       PROVE  VLeq(w.version, n.rows[w.key].delVersion)
  <2> DEFINE v == w.version
             a == r.rows[w.key].delVersion
             b == d.rows[w.key].delVersion
             x == n.rows[w.key].delVersion
  <2>1. w.key \in Keys /\ v \in Version /\ v \in OptVersion
    BY RemovalFields, VersionIsOpt
  <2>2. a \in OptVersion /\ b \in OptVersion /\ x \in OptVersion
    BY <1>1, <1>5, <2>1, RowFields
  <2>3. VLeq(a, x) /\ VLeq(b, x)
    BY <1>5, <2>1
  <2>4. ASSUME NEW u \in ds, u.key = w.key, Seen(r.frontier, u.version)
        PROVE  VLeq(u.version, a)
    BY <1>8, <2>4, SeenShows
  <2>5. Seen(r.frontier, v) \/ Seen(d.frontier, v)
    BY <1>10, <2>1, SeenAfterApply DEF Deliverable, n
  <2>6. CASE Seen(r.frontier, v)
    BY <2>1, <2>2, <2>3, <2>4, <2>6, VLeqTransitive
  <2>7. CASE Seen(d.frontier, v)
    <3>1. \/ VLeq(v, b)
          \/ \E u \in ds : /\ u.key = w.key
                           /\ Seen(base, u.version)
                           /\ VLeq(v, u.version)
      BY <1>8, <2>7 DEF GoodPayload, Honest
    <3>2. CASE VLeq(v, b)
      BY <2>1, <2>2, <2>3, <3>2, VLeqTransitive
    <3>3. ASSUME NEW u \in ds, u.key = w.key,
                 Seen(base, u.version), VLeq(v, u.version)
          PROVE  VLeq(v, x)
      <4>1. u.version \in OptVersion
        BY RemovalFields, VersionIsOpt
      <4>2. VLeq(u.version, a)
        BY <1>3, <2>4, <3>3, <4>1, SeenMonotone
      <4>3. VLeq(v, a)
        BY <2>1, <2>2, <3>3, <4>1, <4>2, VLeqTransitive
      <4> QED BY <2>1, <2>2, <2>3, <4>3, VLeqTransitive
    <3> QED BY <3>1, <3>2, <3>3
  <2> QED BY <2>5, <2>6, <2>7
<1>11. Honest(ws, ds, n.rows, n.frontier, EmptyFrontier)
  BY <1>9, <1>10 DEF Honest
<1>12. \A k \in Keys : n.tombs[k] = n.rows[k].delVersion
  BY <1>4
<1> QED BY <1>6, <1>7, <1>11, <1>12 DEF GoodReplica, n

-----------------------------------------------------------------------------
(***************************************************************************)
(* extract_delta.                                                          *)
(***************************************************************************)

\* A delta shows its receiver everything the sender has seen: what it leaves
\* out, the receiver has seen already, or something newer.
LEMMA ExtractGood ==
  ASSUME NEW ws \in SUBSET Write, NEW ds \in SUBSET Removal,
         NEW r \in ReplicaState, NEW base \in Frontier,
         GoodReplica(ws, ds, r)
  PROVE  /\ extract_delta(r, base) \in Payload
         /\ GoodPayload(ws, ds, extract_delta(r, base), base)
<1> DEFINE d == extract_delta(r, base)
<1>1. ASSUME NEW k \in Keys
      PROVE  /\ d.rows[k] = IF Unseen(r.rows[k], base) THEN r.rows[k] ELSE NoRow
             /\ d.tombs[k] = IF Seen(base, r.tombs[k]) THEN NoVersion ELSE r.tombs[k]
             /\ r.rows[k] \in Row
             /\ r.tombs[k] \in OptVersion
             /\ d.rows[k] \in Row
             /\ d.tombs[k] \in OptVersion
  BY ReplicaFields, NoRowType, VersionIsOpt DEF extract_delta
<1>2. d \in Payload
  <2>1. /\ d = [rows |-> d.rows, tombs |-> d.tombs, frontier |-> d.frontier]
        /\ d.rows = [k \in Keys |-> d.rows[k]]
        /\ d.tombs = [k \in Keys |-> d.tombs[k]]
        /\ d.frontier = r.frontier
    BY DEF extract_delta
  <2> HIDE DEF d
  <2>2. d.rows \in [Keys -> Row] /\ d.tombs \in [Keys -> OptVersion]
    BY <1>1, <2>1
  <2> QED BY <2>1, <2>2, ReplicaFields DEF Payload, Tombs
<1>3. d.frontier = r.frontier
  BY DEF extract_delta
<1> HIDE DEF d
<1>4. Logged(ws, ds, d.rows, d.frontier)
  <2>1. Logged(ws, ds, r.rows, r.frontier)
    BY DEF GoodReplica
  <2>2. ASSUME NEW k \in Keys
        PROVE  /\ \A c \in Cols :
                    d.rows[k].cells[c] # NoCell =>
                      /\ [key |-> k, col |-> c, cell |-> d.rows[k].cells[c]] \in ws
                      /\ Seen(d.frontier, d.rows[k].cells[c].version)
               /\ d.rows[k].delVersion # NoVersion =>
                    /\ [key |-> k, version |-> d.rows[k].delVersion] \in ds
                    /\ Seen(d.frontier, d.rows[k].delVersion)
               /\ d.rows[k].deleted <=> d.rows[k].delVersion # NoVersion
    <3>1. CASE d.rows[k] = NoRow
      BY <3>1, NoRowType DEF DeletedWithVersion
    <3>2. CASE d.rows[k] = r.rows[k]
      BY <1>3, <2>1, <3>2 DEF Logged
    <3> QED BY <1>1, <3>1, <3>2
  <2> QED BY <2>2 DEF Logged
<1>5. ASSUME NEW w \in ws, Seen(d.frontier, w.cell.version)
      PROVE  \/ VLeq(w.cell.version, d.rows[w.key].cells[w.col].version)
             \/ \E w2 \in ws :
                  /\ w2.key = w.key
                  /\ w2.col = w.col
                  /\ Seen(base, w2.cell.version)
                  /\ VLeq(w.cell.version, w2.cell.version)
  <2> DEFINE x == r.rows[w.key].cells[w.col]
  <2>1. w.key \in Keys /\ w.col \in Cols /\ w.cell.version \in Version
    BY WriteFields
  <2>2. VLeq(w.cell.version, x.version)
    BY <1>3, <1>5, SeenShows
  <2>3. CASE Unseen(r.rows[w.key], base)
    BY <1>1, <2>1, <2>2, <2>3
  <2>4. CASE ~Unseen(r.rows[w.key], base)
    <3>1. Seen(base, x.version)
      BY <2>1, <2>4 DEF Unseen
    <3>2. x # NoCell
      BY <2>1, <2>2, VersionIsOpt, NoVersionIsLeast DEF NoCell
    <3>3. [key |-> w.key, col |-> w.col, cell |-> x] \in ws
      BY <2>1, <3>2 DEF GoodReplica, Logged
    <3> HIDE DEF x
    <3> QED BY <2>2, <3>1, <3>3
  <2> QED BY <2>3, <2>4
<1>6. ASSUME NEW w \in ds, Seen(d.frontier, w.version)
      PROVE  \/ VLeq(w.version, d.rows[w.key].delVersion)
             \/ \E w2 \in ds :
                  /\ w2.key = w.key
                  /\ Seen(base, w2.version)
                  /\ VLeq(w.version, w2.version)
  <2> DEFINE x == r.rows[w.key].delVersion
  <2>1. w.key \in Keys /\ w.version \in Version
    BY RemovalFields
  <2>2. VLeq(w.version, x)
    BY <1>3, <1>6, SeenShows
  <2>3. CASE Unseen(r.rows[w.key], base)
    BY <1>1, <2>1, <2>2, <2>3
  <2>4. CASE ~Unseen(r.rows[w.key], base)
    <3>1. Seen(base, x)
      BY <2>1, <2>4 DEF Unseen
    <3>2. x # NoVersion
      BY <2>1, <2>2, VersionIsOpt, NoVersionIsLeast
    <3>3. [key |-> w.key, version |-> x] \in ds
      BY <2>1, <3>2 DEF GoodReplica, Logged
    <3> HIDE DEF x
    <3> QED BY <2>2, <3>1, <3>3
  <2> QED BY <2>3, <2>4
<1>7. ASSUME NEW k \in Keys
      PROVE  d.tombs[k] = IF Seen(base, d.rows[k].delVersion)
                          THEN NoVersion ELSE d.rows[k].delVersion
  <2>1. r.tombs[k] = r.rows[k].delVersion
    BY DEF GoodReplica
  <2>2. Seen(base, NoVersion)
    BY DEF Seen
  <2>3. CASE Unseen(r.rows[k], base)
    BY <1>1, <2>1, <2>3
  <2>4. CASE ~Unseen(r.rows[k], base)
    <3>1. Seen(base, r.rows[k].delVersion)
      BY <2>4 DEF Unseen
    <3>2. d.rows[k].delVersion = NoVersion
      BY <1>1, <2>4, NoRowType
    <3> QED BY <1>1, <2>1, <2>2, <3>1, <3>2
  <2> QED BY <2>3, <2>4
<1>8. Honest(ws, ds, d.rows, d.frontier, base)
  BY <1>5, <1>6 DEF Honest
<1> QED BY <1>2, <1>4, <1>7, <1>8 DEF GoodPayload, d

-----------------------------------------------------------------------------
(***************************************************************************)
(* Local writes.                                                           *)
(***************************************************************************)

\* History that a frontier does not cover does not concern who holds it.
LEMMA GoodReplicaExtends ==
  ASSUME NEW ws, NEW ds, NEW ws2, NEW ds2, NEW r,
         ws \subseteq ws2, ds \subseteq ds2,
         \A w \in ws2 \ ws : ~Seen(r.frontier, w.cell.version),
         \A x \in ds2 \ ds : ~Seen(r.frontier, x.version),
         GoodReplica(ws, ds, r)
  PROVE  GoodReplica(ws2, ds2, r)
<1>1. Logged(ws2, ds2, r.rows, r.frontier)
  BY DEF GoodReplica, Logged
<1>2. Honest(ws2, ds2, r.rows, r.frontier, EmptyFrontier)
  BY DEF GoodReplica, Honest
<1> QED BY <1>1, <1>2 DEF GoodReplica

LEMMA GoodPayloadExtends ==
  ASSUME NEW ws, NEW ds, NEW ws2, NEW ds2, NEW d, NEW base,
         ws \subseteq ws2, ds \subseteq ds2,
         \A w \in ws2 \ ws : ~Seen(d.frontier, w.cell.version),
         \A x \in ds2 \ ds : ~Seen(d.frontier, x.version),
         GoodPayload(ws, ds, d, base)
  PROVE  GoodPayload(ws2, ds2, d, base)
<1>1. Logged(ws2, ds2, d.rows, d.frontier)
  BY DEF GoodPayload, Logged
<1>2. Honest(ws2, ds2, d.rows, d.frontier, base)
  BY DEF GoodPayload, Honest
<1> QED BY <1>1, <1>2 DEF GoodPayload

\* The statement wrote row with version v: each cell of row is v's or is left
\* from the stored row, and likewise its delete; the history grew by exactly
\* what v wrote.
Writes(ws, ds, ws2, ds2, r, k, row, v) ==
  /\ ws \subseteq ws2
  /\ ds \subseteq ds2
  /\ \A w \in ws2 \ ws : /\ w.key = k
                         /\ w.cell.version = v
                         /\ row.cells[w.col] = w.cell
  /\ \A x \in ds2 \ ds : /\ x.key = k
                         /\ x.version = v
                         /\ row.delVersion = v
  /\ \A c \in Cols : \/ row.cells[c] = r.rows[k].cells[c]
                     \/ /\ row.cells[c].version = v
                        /\ [key |-> k, col |-> c, cell |-> row.cells[c]] \in ws2
  /\ \/ row.delVersion = r.rows[k].delVersion
     \/ /\ row.delVersion = v
        /\ [key |-> k, version |-> v] \in ds2
  /\ DeletedWithVersion(row)

\* A local write keeps the writing replica good.
LEMMA WrittenGood ==
  ASSUME NEW ws \in SUBSET Write, NEW ds \in SUBSET Removal,
         NEW ws2 \in SUBSET Write, NEW ds2 \in SUBSET Removal,
         NEW r \in ReplicaState, NEW p \in Peers, NEW k \in Keys,
         NEW row \in Row,
         GoodReplica(ws, ds, r),
         \A q \in Peers : r.frontier[q] <= r.clock,
         r.frontier[p] = r.clock,
         \A w \in ws : w.cell.version.peer = p => w.cell.version.counter <= r.clock,
         \A x \in ds : x.version.peer = p => x.version.counter <= r.clock,
         Writes(ws, ds, ws2, ds2, r, k, row, NextVersion(r, p))
  PROVE  /\ Written(r, p, k, row, row.delVersion) \in ReplicaState
         /\ GoodReplica(ws2, ds2, Written(r, p, k, row, row.delVersion))
<1> DEFINE n == Written(r, p, k, row, row.delVersion)
           v == NextVersion(r, p)
           old == r.rows[k]
<1>1. /\ n.clock \in Nat
      /\ n.frontier \in Frontier
      /\ \A q \in Peers : n.frontier[q] = IF q = p THEN r.clock + 1
                                          ELSE r.frontier[q]
  BY WrittenClock
<1>2. /\ r.clock \in Nat /\ r.frontier \in Frontier /\ old \in Row
      /\ \A q \in Peers : r.frontier[q] \in Nat
  BY ReplicaFields DEF Frontier
<1>3. /\ n.rows = [r.rows EXCEPT ![k] = row]
      /\ n.tombs = [r.tombs EXCEPT ![k] = row.delVersion]
      /\ n = [rows |-> n.rows, tombs |-> n.tombs, clock |-> n.clock,
              frontier |-> n.frontier]
  BY DEF Written
<1>4. r.rows \in [Keys -> Row] /\ r.tombs \in [Keys -> OptVersion]
  BY DEF ReplicaState, Tombs
<1> HIDE DEF n
<1>5. n \in ReplicaState
  <2>1. n.rows \in [Keys -> Row] /\ n.tombs \in [Keys -> OptVersion]
    BY <1>3, <1>4, RowFields
  <2> QED BY <1>1, <1>3, <2>1 DEF ReplicaState, Tombs
<1>6. \A j \in Keys : /\ n.rows[j] = IF j = k THEN row ELSE r.rows[j]
                      /\ n.tombs[j] = IF j = k THEN row.delVersion ELSE r.tombs[j]
  BY <1>3, <1>4
<1>7. v \in Version /\ v \in OptVersion /\ v.peer = p /\ v.counter = r.clock + 1
      /\ Seen(n.frontier, v)
  BY <1>1, <1>2, VersionIsOpt DEF NextVersion, Tick, Version, Seen
<1>8. ASSUME NEW u \in OptVersion, Seen(r.frontier, u)
      PROVE  Seen(n.frontier, u) /\ VLess(u, v)
  <2>1. \A q \in Peers : r.frontier[q] <= n.frontier[q]
    BY <1>1, <1>2
  <2> QED BY <1>1, <1>2, <1>8, <2>1, SeenMonotone, TickIsNewer
<1>9. ASSUME NEW u \in Version, u.peer = p => u.counter <= r.clock,
             Seen(n.frontier, u)
      PROVE  Seen(r.frontier, u)
  <2>1. u.peer \in Peers /\ u # NoVersion
    BY VersionIsOpt DEF Version
  <2>2. u.counter <= n.frontier[u.peer]
    BY <1>9, <2>1 DEF Seen
  <2>3. CASE u.peer = p
    BY <1>9, <2>1, <2>3 DEF Seen
  <2>4. CASE u.peer # p
    BY <1>1, <2>1, <2>2, <2>4 DEF Seen
  <2> QED BY <2>3, <2>4
<1> HIDE DEF v
<1>10. Writes(ws, ds, ws2, ds2, r, k, row, v)
  BY DEF v
<1>11. Logged(ws, ds, r.rows, r.frontier)
  BY DEF GoodReplica
<1>12. Logged(ws2, ds2, n.rows, n.frontier)
  <2>1. ASSUME NEW j \in Keys, NEW c \in Cols, n.rows[j].cells[c] # NoCell
        PROVE  /\ [key |-> j, col |-> c, cell |-> n.rows[j].cells[c]] \in ws2
               /\ Seen(n.frontier, n.rows[j].cells[c].version)
    <3>1. CASE n.rows[j].cells[c] = r.rows[j].cells[c]
      <4>1. /\ [key |-> j, col |-> c, cell |-> r.rows[j].cells[c]] \in ws
            /\ Seen(r.frontier, r.rows[j].cells[c].version)
        BY <1>11, <2>1, <3>1 DEF Logged
      <4>2. r.rows[j].cells[c].version \in OptVersion
        BY ReplicaFields, RowFields, CellVersion
      <4> QED BY <1>8, <1>10, <3>1, <4>1, <4>2 DEF Writes
    <3>2. CASE j = k /\ row.cells[c] # r.rows[k].cells[c]
      BY <1>6, <1>7, <1>10, <3>2 DEF Writes
    <3> QED BY <1>6, <3>1, <3>2
  <2>2. ASSUME NEW j \in Keys, n.rows[j].delVersion # NoVersion
        PROVE  /\ [key |-> j, version |-> n.rows[j].delVersion] \in ds2
               /\ Seen(n.frontier, n.rows[j].delVersion)
    <3>1. CASE n.rows[j].delVersion = r.rows[j].delVersion
      <4>1. /\ [key |-> j, version |-> r.rows[j].delVersion] \in ds
            /\ Seen(r.frontier, r.rows[j].delVersion)
        BY <1>11, <2>2, <3>1 DEF Logged
      <4>2. r.rows[j].delVersion \in OptVersion
        BY ReplicaFields, RowFields
      <4> QED BY <1>8, <1>10, <3>1, <4>1, <4>2 DEF Writes
    <3>2. CASE j = k /\ row.delVersion # r.rows[k].delVersion
      BY <1>6, <1>7, <1>10, <3>2 DEF Writes
    <3> QED BY <1>6, <3>1, <3>2
  <2>3. ASSUME NEW j \in Keys PROVE DeletedWithVersion(n.rows[j])
    BY <1>6, <1>10, <1>11, LoggedDeletedWithVersion DEF Writes
  <2> QED BY <2>1, <2>2, <2>3 DEF Logged, DeletedWithVersion
<1>13. \A c \in Cols : \/ row.cells[c] = old.cells[c]
                       \/ /\ row.cells[c].version = v
                          /\ VLess(old.cells[c].version, v)
  <2>1. ASSUME NEW c \in Cols PROVE VLess(old.cells[c].version, v)
    <3>1. old.cells[c].version \in OptVersion
      BY <1>2, RowFields, CellVersion
    <3>2. old.cells[c] # NoCell => Seen(r.frontier, old.cells[c].version)
      BY <1>11 DEF Logged
    <3>3. old.cells[c] = NoCell => Seen(r.frontier, old.cells[c].version)
      BY DEF Seen, NoCell
    <3> QED BY <1>8, <3>1, <3>2, <3>3
  <2> QED BY <1>10, <2>1 DEF Writes
<1>14. \/ row.delVersion = old.delVersion
       \/ row.delVersion = v /\ VLess(old.delVersion, v)
  <2>1. Seen(r.frontier, old.delVersion) /\ old.delVersion \in OptVersion
    BY <1>2, <1>11, RowFields DEF Logged, Seen
  <2> QED BY <1>8, <1>10, <2>1 DEF Writes
<1>15. ASSUME NEW w \in ws2, Seen(n.frontier, w.cell.version)
       PROVE  VLeq(w.cell.version, n.rows[w.key].cells[w.col].version)
  <2>1. w.key \in Keys /\ w.col \in Cols /\ w.cell.version \in Version
        /\ w.cell.version \in OptVersion
    BY WriteFields, VersionIsOpt
  <2>2. CASE w \in ws
    <3>1. Seen(r.frontier, w.cell.version)
      BY <1>9, <1>15, <2>1, <2>2
    <3>2. VLeq(w.cell.version, r.rows[w.key].cells[w.col].version)
      BY <2>2, <3>1, SeenShows
    <3>3. CASE w.key # k
      BY <1>6, <2>1, <3>2, <3>3
    <3>4. CASE w.key = k
      <4>1. old.cells[w.col].version \in OptVersion
        BY <1>2, <2>1, RowFields, CellVersion
      <4>2. CASE row.cells[w.col] = old.cells[w.col]
        BY <1>6, <2>1, <3>2, <3>4, <4>2
      <4>3. CASE row.cells[w.col].version = v /\ VLess(old.cells[w.col].version, v)
        <5>1. VLeq(w.cell.version, v)
          BY <1>7, <2>1, <3>2, <3>4, <4>1, <4>3, VLeqTransitive DEF VLeq
        <5> QED BY <1>6, <2>1, <3>4, <4>3, <5>1
      <4> QED BY <1>13, <2>1, <4>2, <4>3
    <3> QED BY <3>3, <3>4
  <2>3. CASE w \notin ws
    <3>1. w.key = k /\ row.cells[w.col] = w.cell
      BY <1>10, <1>15, <2>3 DEF Writes
    <3> QED BY <1>6, <2>1, <3>1 DEF VLeq
  <2> QED BY <2>2, <2>3
<1>16. ASSUME NEW w \in ds2, Seen(n.frontier, w.version)
       PROVE  VLeq(w.version, n.rows[w.key].delVersion)
  <2>1. w.key \in Keys /\ w.version \in Version /\ w.version \in OptVersion
    BY RemovalFields, VersionIsOpt
  <2>2. CASE w \in ds
    <3>1. Seen(r.frontier, w.version)
      BY <1>9, <1>16, <2>1, <2>2
    <3>2. VLeq(w.version, r.rows[w.key].delVersion)
      BY <2>2, <3>1, SeenShows
    <3>3. CASE w.key # k \/ row.delVersion = old.delVersion
      BY <1>6, <2>1, <3>2, <3>3
    <3>4. CASE w.key = k /\ row.delVersion = v /\ VLess(old.delVersion, v)
      <4>1. old.delVersion \in OptVersion
        BY <1>2, RowFields
      <4>2. VLeq(w.version, v)
        BY <1>7, <2>1, <3>2, <3>4, <4>1, VLeqTransitive DEF VLeq
      <4> QED BY <1>6, <2>1, <3>4, <4>2
    <3> QED BY <1>14, <3>3, <3>4
  <2>3. CASE w \notin ds
    <3>1. w.key = k /\ row.delVersion = w.version
      BY <1>10, <1>16, <2>3 DEF Writes
    <3> QED BY <1>6, <2>1, <3>1 DEF VLeq
  <2> QED BY <2>2, <2>3
<1>17. Honest(ws2, ds2, n.rows, n.frontier, EmptyFrontier)
  BY <1>15, <1>16 DEF Honest
<1>18. \A j \in Keys : n.tombs[j] = n.rows[j].delVersion
  BY <1>6 DEF GoodReplica
<1> QED BY <1>5, <1>12, <1>17, <1>18 DEF GoodReplica, n

-----------------------------------------------------------------------------
(***************************************************************************)
(* The steps.                                                              *)
(***************************************************************************)
LEMMA ReplicaOf ==
  ASSUME TypeOK, NEW p \in Peers
  PROVE  /\ replica[p] \in ReplicaState
         /\ replica[p].clock \in Nat
         /\ replica[p].frontier \in Frontier
         /\ \A q \in Peers : replica[p].frontier[q] \in Nat
BY ReplicaFields DEF TypeOK, Frontier

LEMMA NewReplicaGood ==
  /\ NewReplica \in ReplicaState
  /\ GoodReplica({}, {}, NewReplica)
<1>1. NewReplica \in ReplicaState
  BY NoRowType, VersionIsOpt, EmptyFrontierType DEF NewReplica, ReplicaState, Tombs
<1>2. Logged({}, {}, NewReplica.rows, NewReplica.frontier)
  BY NoRowType DEF Logged, NewReplica, DeletedWithVersion
<1>3. Honest({}, {}, NewReplica.rows, NewReplica.frontier, EmptyFrontier)
  BY DEF Honest
<1> QED BY <1>1, <1>2, <1>3, NoRowType DEF GoodReplica, NewReplica

LEMMA InitIInv == Init => IInv
<1> SUFFICES ASSUME Init PROVE IInv
  OBVIOUS
<1>1. TypeOK
  BY NewReplicaGood DEF Init, TypeOK
<1>2. ClockInv
  BY DEF Init, ClockInv, NewReplica, EmptyFrontier
<1>3. HistoryInv
  BY DEF Init, HistoryInv
<1>4. ReplicaInv
  BY NewReplicaGood DEF Init, ReplicaInv
<1>5. DeltaInv
  BY DEF Init, DeltaInv
<1> QED BY <1>1, <1>2, <1>3, <1>4, <1>5 DEF IInv

\* A statement at p that writes row k.
LEMMA LocalStep ==
  ASSUME IInv, NEW p \in Peers, NEW k \in Keys, NEW row \in Row,
         writes' \subseteq Write, deletes' \subseteq Removal, net' = net,
         Writes(writes, deletes, writes', deletes', replica[p], k, row,
                NextVersion(replica[p], p)),
         replica' = [replica EXCEPT ![p] =
                       Written(replica[p], p, k, row, row.delVersion)]
  PROVE  IInv'
<1> DEFINE r == replica[p]
           n == Written(r, p, k, row, row.delVersion)
           v == NextVersion(r, p)
<1>0. TypeOK /\ ClockInv /\ HistoryInv /\ ReplicaInv /\ DeltaInv
  BY DEF IInv
<1>1. r \in ReplicaState /\ r.clock \in Nat /\ GoodReplica(writes, deletes, r)
  BY <1>0, ReplicaOf DEF ReplicaInv
<1>2. /\ \A q \in Peers : r.frontier[q] <= r.clock
      /\ r.frontier[p] = r.clock
  BY <1>0 DEF ClockInv
<1>3. /\ \A w \in writes : w.cell.version.peer = p => w.cell.version.counter <= r.clock
      /\ \A x \in deletes : x.version.peer = p => x.version.counter <= r.clock
  BY <1>0 DEF HistoryInv
<1>4. writes \subseteq Write /\ deletes \subseteq Removal
      /\ replica \in [Peers -> ReplicaState] /\ net \subseteq Delta
  BY <1>0 DEF TypeOK
<1>5. n \in ReplicaState /\ GoodReplica(writes', deletes', n)
  BY <1>1, <1>2, <1>3, <1>4, WrittenGood
<1>6. /\ n.clock = r.clock + 1
      /\ \A q \in Peers : n.frontier[q] = IF q = p THEN r.clock + 1
                                          ELSE r.frontier[q]
  BY <1>1, <1>2, WrittenClock
<1>7. v \in Version /\ v.peer = p /\ v.counter = r.clock + 1
  BY <1>1 DEF NextVersion, Tick, Version
<1>8. /\ writes \subseteq writes' /\ deletes \subseteq deletes'
      /\ \A w \in writes' \ writes : /\ w.key = k
                                     /\ w.cell.version = v
                                     /\ row.cells[w.col] = w.cell
      /\ \A x \in deletes' \ deletes : x.version = v
  BY DEF Writes
<1>9. \A q \in Peers : replica'[q] = IF q = p THEN n ELSE replica[q]
  BY <1>4
<1> HIDE DEF n, v
<1>10. TypeOK'
  BY <1>4, <1>5 DEF TypeOK, n
<1>11. ASSUME NEW f \in Frontier, f[p] <= r.clock
       PROVE  ~Seen(f, v)
  <2>1. f[p] \in Nat /\ v # NoVersion
    BY <1>7, VersionIsOpt DEF Frontier
  <2> QED BY <1>1, <1>7, <1>11, <2>1 DEF Seen
<1>12. ClockInv'
  <2>1. ASSUME NEW q \in Peers
        PROVE  replica[q].clock <= replica'[q].clock /\ replica[q].clock \in Nat
               /\ replica'[q].clock \in Nat
    BY <1>0, <1>1, <1>6, <1>9, ReplicaOf
  <2>2. ASSUME NEW a \in Peers, NEW q \in Peers
        PROVE  /\ replica'[a].frontier[q] <= replica'[q].clock
               /\ replica'[a].frontier[q] <= replica'[a].clock
               /\ replica'[a].frontier[a] = replica'[a].clock
    <3>1. /\ replica[a].frontier[q] <= replica[q].clock
          /\ replica[a].frontier[q] <= replica[a].clock
          /\ replica[a].frontier[a] = replica[a].clock
          /\ replica[a].frontier[q] \in Nat
      BY <1>0, ReplicaOf DEF ClockInv
    <3>2. CASE a = p
      BY <1>1, <1>6, <1>9, <2>1, <3>1, <3>2
    <3>3. CASE a # p
      BY <1>9, <2>1, <3>1, <3>3
    <3> QED BY <3>2, <3>3
  <2>3. ASSUME NEW d \in net, NEW q \in Peers
        PROVE  /\ d.payload.frontier[q] <= replica'[q].clock
               /\ d.payload.frontier[q] <= d.payload.frontier[d.from]
               /\ d.base[q] <= replica'[d.to].frontier[q]
    <3>1. /\ d.payload.frontier \in Frontier /\ d.base \in Frontier /\ d.to \in Peers
      BY <1>4, PayloadFields DEF Delta
    <3>2. /\ d.payload.frontier[q] <= replica[q].clock
          /\ d.payload.frontier[q] <= d.payload.frontier[d.from]
          /\ d.base[q] <= replica[d.to].frontier[q]
      BY <1>0 DEF ClockInv
    <3>3. d.payload.frontier[q] \in Nat /\ d.base[q] \in Nat
      BY <3>1 DEF Frontier
    <3>4. replica[d.to].frontier[q] <= replica'[d.to].frontier[q]
          /\ replica[d.to].frontier[q] \in Nat
          /\ replica'[d.to].frontier[q] \in Nat
      <4>1. replica[d.to].frontier[q] \in Nat
        BY <1>0, <3>1, ReplicaOf
      <4>2. CASE d.to = p /\ q = p
        BY <1>1, <1>2, <1>6, <1>9, <3>1, <4>1, <4>2
      <4>3. CASE ~(d.to = p /\ q = p)
        <5>1. replica'[d.to].frontier[q] = replica[d.to].frontier[q]
          BY <1>6, <1>9, <3>1, <4>3
        <5> QED BY <4>1, <5>1
      <4> QED BY <4>2, <4>3
    <3>5. d.payload.frontier[q] <= replica'[q].clock
      BY <2>1, <3>2, <3>3
    <3>6. d.base[q] <= replica'[d.to].frontier[q]
      BY <3>2, <3>3, <3>4
    <3> QED BY <3>2, <3>5, <3>6
  <2> QED BY <2>2, <2>3 DEF ClockInv
<1>13. HistoryInv'
  <2>1. ASSUME NEW w \in writes'
        PROVE  w.cell.version.counter <= replica'[w.cell.version.peer].clock
    <3>1. w.cell.version \in Version
      BY WriteFields
    <3>2. CASE w \in writes
      <4>1. w.cell.version.peer \in Peers /\ w.cell.version.counter \in Nat
        BY <3>1 DEF Version
      <4>2. w.cell.version.counter <= replica[w.cell.version.peer].clock
        BY <1>0, <3>2 DEF HistoryInv
      <4>3. /\ replica[w.cell.version.peer].clock \in Nat
            /\ replica[w.cell.version.peer].clock <= replica'[w.cell.version.peer].clock
            /\ replica'[w.cell.version.peer].clock \in Nat
        BY <1>0, <1>1, <1>6, <1>9, <4>1, ReplicaOf
      <4> QED BY <4>1, <4>2, <4>3
    <3>3. CASE w \notin writes
      BY <1>1, <1>6, <1>7, <1>8, <1>9, <3>3
    <3> QED BY <3>2, <3>3
  <2>2. ASSUME NEW x \in deletes'
        PROVE  x.version.counter <= replica'[x.version.peer].clock
    <3>1. CASE x \in deletes
      <4>1. x.version.peer \in Peers /\ x.version.counter \in Nat
        BY RemovalFields DEF Version
      <4>2. x.version.counter <= replica[x.version.peer].clock
        BY <1>0, <3>1 DEF HistoryInv
      <4>3. /\ replica[x.version.peer].clock \in Nat
            /\ replica[x.version.peer].clock <= replica'[x.version.peer].clock
            /\ replica'[x.version.peer].clock \in Nat
        BY <1>0, <1>1, <1>6, <1>9, <4>1, ReplicaOf
      <4> QED BY <4>1, <4>2, <4>3
    <3>2. CASE x \notin deletes
      BY <1>1, <1>6, <1>7, <1>8, <1>9, <3>2
    <3> QED BY <3>1, <3>2
  <2>3. ASSUME NEW w1 \in writes', NEW w2 \in writes',
               w1.key = w2.key, w1.col = w2.col,
               w1.cell.version = w2.cell.version
        PROVE  w1 = w2
    <3>1. \A w \in writes : w.cell.version # v
      BY <1>1, <1>3, <1>4, <1>7, WriteFields DEF Version
    <3>2. CASE w1 \in writes /\ w2 \in writes
      BY <1>0, <2>3, <3>2 DEF HistoryInv
    <3>3. CASE w1 \notin writes /\ w2 \notin writes
      <4>1. w1.cell = w2.cell
        BY <1>8, <2>3, <3>3
      <4>2. w1 \in [key : Keys, col : Cols, cell : Cell \ {NoCell}]
            /\ w2 \in [key : Keys, col : Cols, cell : Cell \ {NoCell}]
        BY DEF Write
      <4> QED BY <2>3, <4>1, <4>2
    <3> QED BY <1>8, <2>3, <3>1, <3>2, <3>3
  <2> QED BY <2>1, <2>2, <2>3 DEF HistoryInv
<1>14. ReplicaInv'
  <2>1. ASSUME NEW q \in Peers
        PROVE  GoodReplica(writes', deletes', replica'[q])
    <3>1. CASE q = p
      BY <1>5, <1>9, <3>1
    <3>2. CASE q # p
      <4>1. ~Seen(replica[q].frontier, v)
        BY <1>0, <1>11, ReplicaOf DEF ClockInv
      <4>2. GoodReplica(writes, deletes, replica[q])
        BY <1>0 DEF ReplicaInv
      <4>3. GoodReplica(writes', deletes', replica[q])
        BY <1>8, <4>1, <4>2, GoodReplicaExtends
      <4> QED BY <1>9, <3>2, <4>3
    <3> QED BY <3>1, <3>2
  <2> QED BY <2>1 DEF ReplicaInv
<1>15. DeltaInv'
  <2>1. ASSUME NEW d \in net
        PROVE  GoodPayload(writes', deletes', d.payload, d.base)
    <3>1. d.payload.frontier \in Frontier
      BY <1>4, PayloadFields DEF Delta
    <3>2. ~Seen(d.payload.frontier, v)
      BY <1>0, <1>11, <3>1 DEF ClockInv
    <3>3. GoodPayload(writes, deletes, d.payload, d.base)
      BY <1>0 DEF DeltaInv
    <3> QED BY <1>8, <3>2, <3>3, GoodPayloadExtends
  <2> QED BY <2>1 DEF DeltaInv
<1> QED BY <1>10, <1>12, <1>13, <1>14, <1>15 DEF IInv

\* Replicas that only learn: the history and what is in flight stay.
LEMMA LearnStep ==
  ASSUME IInv, UNCHANGED <<net, writes, deletes>>,
         replica' \in [Peers -> ReplicaState],
         \A p \in Peers :
           /\ GoodReplica(writes, deletes, replica'[p])
           /\ replica[p].clock <= replica'[p].clock
           /\ replica'[p].frontier[p] = replica'[p].clock
           /\ \A q \in Peers :
                /\ replica'[p].frontier[q] <= replica'[p].clock
                /\ replica[p].frontier[q] <= replica'[p].frontier[q]
                /\ replica'[p].frontier[q] <= replica'[q].clock
  PROVE  IInv'
<1>0. TypeOK /\ ClockInv /\ HistoryInv /\ ReplicaInv /\ DeltaInv
  BY DEF IInv
<1>1. TypeOK'
  BY <1>0 DEF TypeOK
<1>2. \A p, q \in Peers : /\ replica'[p].clock \in Nat
                          /\ replica'[p].frontier[q] \in Nat
                          /\ replica[p].clock \in Nat
                          /\ replica[p].frontier[q] \in Nat
  BY <1>0, ReplicaOf, ReplicaFields DEF Frontier
<1>3. ClockInv'
  <2>1. ASSUME NEW d \in net, NEW q \in Peers
        PROVE  /\ d.payload.frontier[q] <= replica'[q].clock
               /\ d.payload.frontier[q] <= d.payload.frontier[d.from]
               /\ d.base[q] <= replica'[d.to].frontier[q]
    <3>1. /\ d.payload.frontier \in Frontier /\ d.base \in Frontier /\ d.to \in Peers
      BY <1>0, PayloadFields DEF Delta, TypeOK
    <3>2. d.payload.frontier[q] \in Nat /\ d.base[q] \in Nat
      BY <3>1 DEF Frontier
    <3>3. /\ d.payload.frontier[q] <= replica[q].clock
          /\ d.payload.frontier[q] <= d.payload.frontier[d.from]
          /\ d.base[q] <= replica[d.to].frontier[q]
      BY <1>0 DEF ClockInv
    <3>4. replica[q].clock <= replica'[q].clock
          /\ replica[d.to].frontier[q] <= replica'[d.to].frontier[q]
      BY <3>1
    <3> QED BY <1>2, <3>1, <3>2, <3>3, <3>4
  <2> QED BY <2>1 DEF ClockInv
<1>4. HistoryInv'
  <2>1. ASSUME NEW w \in writes
        PROVE  w.cell.version.counter <= replica'[w.cell.version.peer].clock
    <3>1. w.cell.version.peer \in Peers /\ w.cell.version.counter \in Nat
      BY <1>0, WriteFields DEF Version, TypeOK
    <3>2. w.cell.version.counter <= replica[w.cell.version.peer].clock
      BY <1>0 DEF HistoryInv
    <3> QED BY <1>2, <3>1, <3>2
  <2>2. ASSUME NEW x \in deletes
        PROVE  x.version.counter <= replica'[x.version.peer].clock
    <3>1. x.version.peer \in Peers /\ x.version.counter \in Nat
      BY <1>0, RemovalFields DEF Version, TypeOK
    <3>2. x.version.counter <= replica[x.version.peer].clock
      BY <1>0 DEF HistoryInv
    <3> QED BY <1>2, <3>1, <3>2
  <2> QED BY <1>0, <2>1, <2>2 DEF HistoryInv
<1>5. ReplicaInv' /\ DeltaInv'
  BY <1>0 DEF ReplicaInv, DeltaInv
<1> QED BY <1>1, <1>3, <1>4, <1>5 DEF IInv

\* A payload that replica p can receive, and that no clock lags behind.
Receivable(p, d, base, s) ==
  /\ d \in Payload
  /\ base \in Frontier
  /\ s \in Peers
  /\ Deliverable(writes, deletes, replica[p], p, d, base, s)
  /\ \A q \in Peers : d.frontier[q] <= replica[q].clock

LEMMA NetReceivable ==
  ASSUME IInv, NEW d \in net
  PROVE  d.to \in Peers /\ Receivable(d.to, d.payload, d.base, d.from)
<1>0. TypeOK /\ ClockInv /\ HistoryInv /\ ReplicaInv /\ DeltaInv
  BY DEF IInv
<1>1. d \in Delta
  BY <1>0 DEF TypeOK
<1>2. d.to \in Peers /\ d.from \in Peers /\ d.payload \in Payload /\ d.base \in Frontier
  BY <1>1 DEF Delta
<1>3. Deliverable(writes, deletes, replica[d.to], d.to, d.payload, d.base, d.from)
  BY <1>0, <1>2 DEF Deliverable, ReplicaInv, DeltaInv, ClockInv, HistoryInv
<1> QED BY <1>0, <1>2, <1>3 DEF Receivable, ClockInv

LEMMA DeltaForReceivable ==
  ASSUME IInv, NEW p \in Peers, NEW q \in Peers
  PROVE  Receivable(q, DeltaFor(p, q), replica[q].frontier, p)
<1>0. TypeOK /\ ClockInv /\ HistoryInv /\ ReplicaInv
  BY DEF IInv
<1>1. /\ replica[p] \in ReplicaState /\ replica[q].frontier \in Frontier
      /\ \A z \in Peers : replica[q].frontier[z] \in Nat
  BY <1>0, ReplicaOf
<1>2. writes \in SUBSET Write /\ deletes \in SUBSET Removal
  BY <1>0 DEF TypeOK
<1>3. /\ GoodReplica(writes, deletes, replica[p])
      /\ GoodReplica(writes, deletes, replica[q])
  BY <1>0 DEF ReplicaInv
<1>4. /\ DeltaFor(p, q) \in Payload
      /\ GoodPayload(writes, deletes, DeltaFor(p, q), replica[q].frontier)
  BY <1>1, <1>2, <1>3, ExtractGood DEF DeltaFor
<1>5. DeltaFor(p, q).frontier = replica[p].frontier
  BY DEF DeltaFor, extract_delta
<1>6. \A z \in Peers : /\ replica[p].frontier[z] <= replica[p].frontier[p]
                       /\ replica[p].frontier[z] <= replica[z].clock
                       /\ replica[q].frontier[z] <= replica[q].clock
                       /\ replica[q].frontier[z] <= replica[q].frontier[z]
      /\ replica[q].frontier[q] = replica[q].clock
  BY <1>0, <1>1 DEF ClockInv
<1>7. /\ \A w \in writes : w.cell.version.peer = q =>
                             w.cell.version.counter <= replica[q].clock
      /\ \A x \in deletes : x.version.peer = q =>
                              x.version.counter <= replica[q].clock
  BY <1>0 DEF HistoryInv
<1>8. Deliverable(writes, deletes, replica[q], q, DeltaFor(p, q),
                  replica[q].frontier, p)
  BY <1>3, <1>4, <1>5, <1>6, <1>7 DEF Deliverable
<1> QED BY <1>1, <1>4, <1>5, <1>6, <1>8 DEF Receivable

\* Receiving a payload leaves the replica good and its clocks ahead.
LEMMA Receive ==
  ASSUME IInv, NEW p \in Peers, NEW d, NEW base, NEW s, Receivable(p, d, base, s)
  PROVE  LET n == apply_delta(replica[p], p, d)
         IN  /\ n \in ReplicaState
             /\ GoodReplica(writes, deletes, n)
             /\ n.clock \in Nat
             /\ replica[p].clock <= n.clock
             /\ n.frontier[p] = n.clock
             /\ \A q \in Peers :
                  /\ n.frontier[q] <= n.clock
                  /\ replica[p].frontier[q] <= n.frontier[q]
                  /\ d.frontier[q] <= n.frontier[q]
                  /\ q # p => n.frontier[q] <= replica[q].clock
<1>1. /\ d \in Payload /\ base \in Frontier /\ s \in Peers
      /\ Deliverable(writes, deletes, replica[p], p, d, base, s)
      /\ \A q \in Peers : d.frontier[q] <= replica[q].clock
  BY DEF Receivable
<1>2. /\ TypeOK /\ writes \in SUBSET Write /\ deletes \in SUBSET Removal
      /\ replica[p] \in ReplicaState
      /\ \A q \in Peers : replica[p].frontier[q] <= replica[q].clock
  BY ReplicaOf DEF IInv, TypeOK, ClockInv
<1>3. /\ apply_delta(replica[p], p, d) \in ReplicaState
      /\ GoodReplica(writes, deletes, apply_delta(replica[p], p, d))
  BY <1>1, <1>2, ApplyGood
<1> DEFINE n == apply_delta(replica[p], p, d)
<1>4. /\ n.clock \in Nat
      /\ replica[p].clock <= n.clock
      /\ n.frontier[p] = n.clock
      /\ \A q \in Peers : /\ n.frontier[q] <= n.clock
                          /\ replica[p].frontier[q] <= n.frontier[q]
                          /\ d.frontier[q] <= n.frontier[q]
                          /\ q # p => n.frontier[q] \in
                                        {replica[p].frontier[q], d.frontier[q]}
  <2>1. replica[p] \in ReplicaState
    BY <1>2
  <2> HIDE DEF n
  <2> QED BY <1>1, <2>1, ApplyClock DEF n
<1>5. \A q \in Peers : q # p => n.frontier[q] <= replica[q].clock
  BY <1>1, <1>2, <1>4
<1> HIDE DEF n
<1> QED BY <1>3, <1>4, <1>5 DEF n

\* One or two replicas receive what they can receive.
LEMMA ReceiveStep ==
  ASSUME IInv, UNCHANGED <<net, writes, deletes>>,
         NEW n \in [Peers -> ReplicaState], replica' = n,
         \A p \in Peers :
           \/ n[p] = replica[p]
           \/ \E d, base, s : /\ Receivable(p, d, base, s)
                              /\ n[p] = apply_delta(replica[p], p, d)
  PROVE  IInv'
<1>0. TypeOK /\ ClockInv /\ ReplicaInv
  BY DEF IInv
<1>1. \A p \in Peers : /\ replica[p].clock \in Nat
                       /\ n[p].clock \in Nat
                       /\ \A q \in Peers : /\ replica[p].frontier[q] \in Nat
                                           /\ n[p].frontier[q] \in Nat
  BY <1>0, ReplicaOf, ReplicaFields DEF Frontier
<1>2. ASSUME NEW p \in Peers
      PROVE  /\ GoodReplica(writes, deletes, n[p])
             /\ replica[p].clock <= n[p].clock
             /\ n[p].frontier[p] = n[p].clock
             /\ \A q \in Peers :
                  /\ n[p].frontier[q] <= n[p].clock
                  /\ replica[p].frontier[q] <= n[p].frontier[q]
                  /\ q # p => n[p].frontier[q] <= replica[q].clock
  <2>1. CASE n[p] = replica[p]
    BY <1>0, <1>1, <2>1 DEF ClockInv, ReplicaInv
  <2>2. ASSUME NEW d, NEW base, NEW s, Receivable(p, d, base, s),
               n[p] = apply_delta(replica[p], p, d)
        PROVE  <1>2!2
    BY <2>2, Receive
  <2> QED BY <2>1, <2>2
<1>3. \A p, q \in Peers : n[p].frontier[q] <= n[q].clock
  <2> SUFFICES ASSUME NEW p \in Peers, NEW q \in Peers
               PROVE  n[p].frontier[q] <= n[q].clock
    OBVIOUS
  <2>1. CASE q = p
    BY <1>2, <2>1
  <2>2. CASE q # p
    <3>1. n[p].frontier[q] <= replica[q].clock /\ replica[q].clock <= n[q].clock
      BY <1>2, <2>2
    <3> QED BY <1>1, <3>1
  <2> QED BY <2>1, <2>2
<1> QED BY <1>2, <1>3, LearnStep

LEMMA InsertStep ==
  ASSUME IInv, ~ReuseKeys, NEW p \in Peers, NEW k \in Keys,
         NEW vals \in Assignments, Insert(p, k, vals)
  PROVE  IInv'
<1> DEFINE r == replica[p]
           v == NextVersion(r, p)
           row == InsertedRow(v, vals)
<1>1. r \in ReplicaState /\ v \in Version /\ GoodReplica(writes, deletes, r)
      /\ writes \subseteq Write /\ deletes \subseteq Removal
  BY ReplicaOf DEF IInv, TypeOK, ReplicaInv, NextVersion, Tick, Version
<1>2. r.rows[k] = NoRow /\ r.tombs[k] = NoVersion
  BY <1>1, NoRowType DEF Insert, GoodReplica
<1>3. \A c \in DOMAIN vals : c \in Cols /\ vals[c] \in Values
  BY DEF Assignments
<1>4. /\ row = [cells |-> row.cells, deleted |-> FALSE, delVersion |-> NoVersion]
      /\ row.cells = [c \in Cols |-> IF c \in DOMAIN vals
                                     THEN [value |-> vals[c], version |-> v]
                                     ELSE NoCell]
  BY DEF InsertedRow
<1> HIDE DEF row
<1>5. row \in Row
  <2>1. row.cells \in [Cols -> Cell]
    BY <1>1, <1>3, <1>4 DEF Cell
  <2>2. [cells |-> row.cells, deleted |-> FALSE, delVersion |-> NoVersion] \in Row
    BY <2>1, VersionIsOpt DEF Row
  <2> QED BY <1>4, <2>2
<1>6. CellsWritten(k, v, vals) \subseteq Write
  BY <1>1, <1>3, VersionIsOpt DEF CellsWritten, Write, Cell, NoCell
<1>7. writes' = writes \cup CellsWritten(k, v, vals) /\ UNCHANGED <<net, deletes>>
  BY DEF Insert
<1>8. Writes(writes, deletes, writes', deletes', r, k, row, v)
  <2>1. \A w \in writes' \ writes : /\ w.key = k
                                    /\ w.cell.version = v
                                    /\ row.cells[w.col] = w.cell
    BY <1>3, <1>4, <1>7 DEF CellsWritten
  <2>2. \A c \in Cols : \/ row.cells[c] = r.rows[k].cells[c]
                        \/ /\ row.cells[c].version = v
                           /\ [key |-> k, col |-> c, cell |-> row.cells[c]] \in writes'
    BY <1>2, <1>4, <1>7, NoRowType DEF CellsWritten
  <2>3. DeletedWithVersion(row) /\ row.delVersion = r.rows[k].delVersion
    BY <1>2, <1>4, NoRowType DEF DeletedWithVersion
  <2> QED BY <1>7, <2>1, <2>2, <2>3 DEF Writes
<1>9. replica' = [replica EXCEPT ![p] = Written(r, p, k, row, row.delVersion)]
  <2>1. row.delVersion = r.tombs[k]
    BY <1>2, <1>4
  <2>2. replica' = [replica EXCEPT ![p] = Written(r, p, k, row, r.tombs[k])]
    BY DEF Insert, InsertRow, row
  <2> QED BY <2>1, <2>2
<1> QED BY <1>1, <1>5, <1>6, <1>7, <1>8, <1>9, LocalStep

LEMMA UpdateStep ==
  ASSUME IInv, NEW p \in Peers, NEW k \in Keys,
         NEW vals \in Assignments, Update(p, k, vals)
  PROVE  IInv'
<1> DEFINE r == replica[p]
           v == NextVersion(r, p)
           old == r.rows[k]
           row == UpdatedRow(old, v, vals)
<1>1. r \in ReplicaState /\ v \in Version /\ GoodReplica(writes, deletes, r)
      /\ writes \subseteq Write /\ deletes \subseteq Removal
  BY ReplicaOf DEF IInv, TypeOK, ReplicaInv, NextVersion, Tick, Version
<1>2. old \in Row /\ DeletedWithVersion(old) /\ r.tombs[k] = old.delVersion
  BY <1>1, ReplicaFields, LoggedDeletedWithVersion DEF GoodReplica
<1>3. \A c \in DOMAIN vals : c \in Cols /\ vals[c] \in Values
  BY DEF Assignments
<1>4. /\ row = [cells |-> row.cells, deleted |-> old.deleted,
                delVersion |-> old.delVersion]
      /\ row.cells = [c \in Cols |-> IF c \in DOMAIN vals
                                     THEN [value |-> vals[c], version |-> v]
                                     ELSE old.cells[c]]
  BY DEF UpdatedRow
<1> HIDE DEF row
<1>5. row \in Row
  <2>1. \A c \in Cols : old.cells[c] \in Cell
    BY <1>2, RowFields
  <2>2. \A c \in Cols : row.cells[c] \in Cell
    BY <1>1, <1>3, <1>4, <2>1 DEF Cell
  <2>3. row.cells \in [Cols -> Cell]
    BY <1>4, <2>2
  <2> QED BY <1>2, <1>4, <2>3, RowFields DEF Row
<1>6. CellsWritten(k, v, vals) \subseteq Write
  BY <1>1, <1>3, VersionIsOpt DEF CellsWritten, Write, Cell, NoCell
<1>7. writes' = writes \cup CellsWritten(k, v, vals) /\ UNCHANGED <<net, deletes>>
  BY DEF Update
<1>8. Writes(writes, deletes, writes', deletes', r, k, row, v)
  <2>1. \A w \in writes' \ writes : /\ w.key = k
                                    /\ w.cell.version = v
                                    /\ row.cells[w.col] = w.cell
    BY <1>3, <1>4, <1>7 DEF CellsWritten
  <2>2. \A c \in Cols : \/ row.cells[c] = r.rows[k].cells[c]
                        \/ /\ row.cells[c].version = v
                           /\ [key |-> k, col |-> c, cell |-> row.cells[c]] \in writes'
    BY <1>4, <1>7 DEF CellsWritten
  <2>3. DeletedWithVersion(row) /\ row.delVersion = r.rows[k].delVersion
    BY <1>2, <1>4 DEF DeletedWithVersion
  <2> QED BY <1>7, <2>1, <2>2, <2>3 DEF Writes
<1>9. replica' = [replica EXCEPT ![p] = Written(r, p, k, row, row.delVersion)]
  <2>1. row.delVersion = r.tombs[k]
    BY <1>2, <1>4
  <2>2. replica' = [replica EXCEPT ![p] = Written(r, p, k, row, r.tombs[k])]
    BY DEF Update, UpdateRow, row
  <2> QED BY <2>1, <2>2
<1> QED BY <1>1, <1>5, <1>6, <1>7, <1>8, <1>9, LocalStep

LEMMA DeleteStep ==
  ASSUME IInv, NEW p \in Peers, NEW k \in Keys, Delete(p, k)
  PROVE  IInv'
<1> DEFINE r == replica[p]
           v == NextVersion(r, p)
           old == r.rows[k]
           row == DeletedRow(old, v)
<1>1. r \in ReplicaState /\ v \in Version /\ GoodReplica(writes, deletes, r)
      /\ writes \subseteq Write /\ deletes \subseteq Removal
  BY ReplicaOf DEF IInv, TypeOK, ReplicaInv, NextVersion, Tick, Version
<1>2. old \in Row
  BY <1>1, ReplicaFields
<1>3. /\ row = [cells |-> old.cells, deleted |-> TRUE, delVersion |-> v]
      /\ row \in Row
  BY <1>1, <1>2, VersionIsOpt, RowFields DEF Row, DeletedRow
<1>4. deletes' = deletes \cup {[key |-> k, version |-> v]} /\ UNCHANGED <<net, writes>>
  BY DEF Delete
<1>5. deletes' \subseteq Removal
  BY <1>1, <1>4 DEF Removal
<1>6. replica' = [replica EXCEPT ![p] = Written(r, p, k, row, row.delVersion)]
  BY <1>3 DEF Delete, DeleteRow
<1> HIDE DEF row
<1>7. Writes(writes, deletes, writes', deletes', r, k, row, v)
  BY <1>1, <1>3, <1>4, VersionIsOpt DEF Writes, DeletedWithVersion
<1> QED BY <1>1, <1>3, <1>4, <1>5, <1>6, <1>7, LocalStep

LEMMA ExtractStep ==
  ASSUME IInv, NEW p \in Peers, NEW q \in Peers, Extract(p, q)
  PROVE  IInv'
<1>0. TypeOK /\ ClockInv /\ HistoryInv /\ ReplicaInv /\ DeltaInv
  BY DEF IInv
<1> DEFINE e == [from |-> p, to |-> q, base |-> replica[q].frontier,
                 payload |-> DeltaFor(p, q)]
<1>1. /\ DeltaFor(p, q) \in Payload /\ replica[q].frontier \in Frontier
      /\ Deliverable(writes, deletes, replica[q], q, DeltaFor(p, q),
                     replica[q].frontier, p)
      /\ \A z \in Peers : DeltaFor(p, q).frontier[z] <= replica[z].clock
  BY DeltaForReceivable DEF Receivable
<1>2. e \in Delta
  BY <1>1 DEF Delta
<1>3. net' = net \cup {e} /\ UNCHANGED <<replica, writes, deletes>>
  BY DEF Extract
<1>4. /\ GoodPayload(writes, deletes, e.payload, e.base)
      /\ \A z \in Peers : /\ e.payload.frontier[z] <= replica[z].clock
                          /\ e.payload.frontier[z] <= e.payload.frontier[e.from]
                          /\ e.base[z] <= replica[e.to].frontier[z]
  BY <1>1 DEF Deliverable
<1> HIDE DEF e
<1>5. TypeOK'
  BY <1>0, <1>2, <1>3 DEF TypeOK
<1>6. ClockInv'
  BY <1>0, <1>3, <1>4 DEF ClockInv
<1>7. HistoryInv' /\ ReplicaInv'
  BY <1>0, <1>3 DEF HistoryInv, ReplicaInv
<1>8. DeltaInv'
  BY <1>0, <1>3, <1>4 DEF DeltaInv
<1> QED BY <1>5, <1>6, <1>7, <1>8 DEF IInv

LEMMA ApplyStep ==
  ASSUME IInv, NEW d \in net, Apply(d)
  PROVE  IInv'
<1>1. d.to \in Peers /\ Receivable(d.to, d.payload, d.base, d.from)
  BY NetReceivable
<1>2. apply_delta(replica[d.to], d.to, d.payload) \in ReplicaState
  BY <1>1, Receive
<1>3. replica \in [Peers -> ReplicaState]
  BY DEF IInv, TypeOK
<1>4. /\ replica' = [replica EXCEPT ![d.to] =
                       apply_delta(replica[d.to], d.to, d.payload)]
      /\ UNCHANGED <<net, writes, deletes>>
  BY DEF Apply
<1>5. /\ replica' \in [Peers -> ReplicaState]
      /\ \A p \in Peers : replica'[p] = IF p = d.to
                                        THEN apply_delta(replica[p], p, d.payload)
                                        ELSE replica[p]
  BY <1>1, <1>2, <1>3, <1>4
<1>6. \A p \in Peers :
        \/ replica'[p] = replica[p]
        \/ \E pl, base, s : /\ Receivable(p, pl, base, s)
                            /\ replica'[p] = apply_delta(replica[p], p, pl)
  BY <1>1, <1>5
<1> QED BY <1>4, <1>5, <1>6, ReceiveStep

\* Both sides of sync_peers apply a delta that was extracted beforehand.
LEMMA SyncPeersEffect ==
  ASSUME IInv, NEW a \in Peers, NEW b \in Peers, SyncPeers(a, b)
  PROVE  /\ a # b
         /\ UNCHANGED <<net, writes, deletes>>
         /\ replica' \in [Peers -> ReplicaState]
         /\ \A p \in Peers :
              replica'[p] = CASE p = a -> apply_delta(replica[a], a, DeltaFor(b, a))
                              [] p = b -> apply_delta(replica[b], b, DeltaFor(a, b))
                              [] OTHER -> replica[p]
<1>1. /\ apply_delta(replica[a], a, DeltaFor(b, a)) \in ReplicaState
      /\ apply_delta(replica[b], b, DeltaFor(a, b)) \in ReplicaState
  BY DeltaForReceivable, Receive
<1>2. replica \in [Peers -> ReplicaState]
  BY DEF IInv, TypeOK
<1> QED BY <1>1, <1>2 DEF SyncPeers

LEMMA SyncPeersStep ==
  ASSUME IInv, NEW a \in Peers, NEW b \in Peers, SyncPeers(a, b)
  PROVE  IInv'
<1>1. /\ Receivable(a, DeltaFor(b, a), replica[a].frontier, b)
      /\ Receivable(b, DeltaFor(a, b), replica[b].frontier, a)
  BY DeltaForReceivable
<1>2. \A p \in Peers :
        \/ replica'[p] = replica[p]
        \/ \E d, base, s : /\ Receivable(p, d, base, s)
                           /\ replica'[p] = apply_delta(replica[p], p, d)
  BY <1>1, SyncPeersEffect
<1> QED BY <1>2, SyncPeersEffect, ReceiveStep

\* No step leaves the inductive invariant.
LEMMA NextIInv ==
  ASSUME IInv, ~ReuseKeys, [Next]_vars
  PROVE  IInv'
<1>1. ASSUME NEW p \in Peers, NEW k \in Keys, NEW vals \in Assignments,
             Insert(p, k, vals)
      PROVE  IInv'
  BY <1>1, InsertStep
<1>2. ASSUME NEW p \in Peers, NEW k \in Keys, NEW vals \in Assignments,
             Update(p, k, vals)
      PROVE  IInv'
  BY <1>2, UpdateStep
<1>3. ASSUME NEW p \in Peers, NEW k \in Keys, Delete(p, k)
      PROVE  IInv'
  BY <1>3, DeleteStep
<1>4. ASSUME NEW p \in Peers, NEW q \in Peers, Extract(p, q)
      PROVE  IInv'
  BY <1>4, ExtractStep
<1>5. ASSUME NEW d \in net, Apply(d)
      PROVE  IInv'
  BY <1>5, ApplyStep
<1>6. ASSUME NEW d \in net, Lose(d)
      PROVE  IInv'
  BY <1>6 DEF Lose, IInv, TypeOK, ClockInv, HistoryInv, ReplicaInv, DeltaInv
<1>7. ASSUME NEW a \in Peers, NEW b \in Peers, SyncPeers(a, b)
      PROVE  IInv'
  BY <1>7, SyncPeersStep
<1>8. CASE UNCHANGED vars
  BY <1>8 DEF vars, IInv, TypeOK, ClockInv, HistoryInv, ReplicaInv, DeltaInv
<1> QED BY <1>1, <1>2, <1>3, <1>4, <1>5, <1>6, <1>7, <1>8 DEF Next

-----------------------------------------------------------------------------
(***************************************************************************)
(* The theorems.                                                           *)
(***************************************************************************)

\* The invariant that ties every replica and every delta in flight to the
\* history holds, whatever the peers, keys, columns, values and bounds.
THEOREM Invariance ==
  ASSUME ~ReuseKeys
  PROVE  Spec => []IInv
<1>1. IInv /\ [Next]_vars => IInv'
  BY NextIInv
<1> QED BY InitIInv, <1>1, PTL DEF Spec

\* b has seen every version a shows.
ShownIsSeen(a, b) ==
  \A k \in Keys :
    /\ \A c \in Cols : Seen(replica[b].frontier, replica[a].rows[k].cells[c].version)
    /\ Seen(replica[b].frontier, replica[a].rows[k].delVersion)

LEMMA GoodReplicas ==
  ASSUME IInv
  PROVE  /\ writes \in SUBSET Write /\ deletes \in SUBSET Removal
         /\ \A a \in Peers : /\ replica[a] \in ReplicaState
                             /\ GoodReplica(writes, deletes, replica[a])
BY ReplicaOf DEF IInv, TypeOK, ReplicaInv

\* Then b shows nothing older than a does.
LEMMA ShownIsNotNewer ==
  ASSUME IInv, NEW a \in Peers, NEW b \in Peers, ShownIsSeen(a, b), NEW k \in Keys
  PROVE  /\ \A c \in Cols : VLeq(replica[a].rows[k].cells[c].version,
                                 replica[b].rows[k].cells[c].version)
         /\ VLeq(replica[a].rows[k].delVersion, replica[b].rows[k].delVersion)
<1>0. /\ writes \in SUBSET Write /\ deletes \in SUBSET Removal
      /\ GoodReplica(writes, deletes, replica[a])
      /\ GoodReplica(writes, deletes, replica[b])
      /\ replica[a] \in ReplicaState /\ replica[b] \in ReplicaState
  BY GoodReplicas
<1>1. /\ Logged(writes, deletes, replica[a].rows, replica[a].frontier)
      /\ replica[a].rows[k] \in Row /\ replica[b].rows[k] \in Row
  BY <1>0, ReplicaFields DEF GoodReplica
<1>2. ASSUME NEW c \in Cols
      PROVE  VLeq(replica[a].rows[k].cells[c].version,
                  replica[b].rows[k].cells[c].version)
  <2> DEFINE x == replica[a].rows[k].cells[c]
             y == replica[b].rows[k].cells[c]
             w == [key |-> k, col |-> c, cell |-> x]
  <2>1. x \in Cell /\ y \in Cell
    BY <1>1, RowFields
  <2>2. CASE x = NoCell
    BY <2>1, <2>2, CellVersion, NoVersionIsLeast DEF NoCell
  <2>3. CASE x # NoCell
    <3>1. w \in writes /\ Seen(replica[b].frontier, w.cell.version)
      BY <1>1, <2>3 DEF Logged, ShownIsSeen
    <3> QED BY <1>0, <3>1, SeenShows
  <2> QED BY <2>2, <2>3
<1>3. VLeq(replica[a].rows[k].delVersion, replica[b].rows[k].delVersion)
  <2> DEFINE x == replica[a].rows[k].delVersion
             y == replica[b].rows[k].delVersion
             w == [key |-> k, version |-> x]
  <2>1. x \in OptVersion /\ y \in OptVersion
    BY <1>1, RowFields
  <2>2. CASE x = NoVersion
    BY <2>1, <2>2, NoVersionIsLeast
  <2>3. CASE x # NoVersion
    <3>1. w \in deletes /\ Seen(replica[b].frontier, w.version)
      BY <1>1, <2>3 DEF Logged, ShownIsSeen
    <3> QED BY <1>0, <3>1, SeenShows
  <2> QED BY <2>2, <2>3
<1> QED BY <1>2, <1>3

\* Peers that have each seen what the other shows hold the same rows.
LEMMA SameRows ==
  ASSUME IInv, NEW p \in Peers, NEW q \in Peers,
         ShownIsSeen(p, q), ShownIsSeen(q, p)
  PROVE  /\ replica[p].rows = replica[q].rows
         /\ replica[p].tombs = replica[q].tombs
<1>0. /\ replica[p] \in ReplicaState /\ replica[q] \in ReplicaState
      /\ GoodReplica(writes, deletes, replica[p])
      /\ GoodReplica(writes, deletes, replica[q])
  BY GoodReplicas
<1>1. ASSUME NEW k \in Keys
      PROVE  /\ replica[p].rows[k] = replica[q].rows[k]
             /\ replica[p].tombs[k] = replica[q].tombs[k]
  <2> DEFINE a == replica[p].rows[k]
             b == replica[q].rows[k]
  <2>1. a \in Row /\ b \in Row
    BY <1>0, ReplicaFields
  <2>2. a.delVersion = b.delVersion
    <3>1. a.delVersion \in OptVersion /\ b.delVersion \in OptVersion
      BY <2>1, RowFields
    <3>2. VLeq(a.delVersion, b.delVersion) /\ VLeq(b.delVersion, a.delVersion)
      BY ShownIsNotNewer
    <3> HIDE DEF a, b
    <3> QED BY <3>1, <3>2, VLeqAntisymmetric
  <2>3. a.deleted = b.deleted
    <3>1. DeletedWithVersion(a) /\ DeletedWithVersion(b)
      BY <1>0, LoggedDeletedWithVersion DEF GoodReplica
    <3>2. a.deleted \in BOOLEAN /\ b.deleted \in BOOLEAN
      BY <2>1, RowFields
    <3> HIDE DEF a, b
    <3> QED BY <2>2, <3>1, <3>2 DEF DeletedWithVersion
  <2>4. ASSUME NEW c \in Cols PROVE a.cells[c] = b.cells[c]
    <3>1. a.cells[c] \in Cell /\ b.cells[c] \in Cell
      BY <2>1, RowFields
    <3>2. a.cells[c].version = b.cells[c].version
      BY <3>1, ShownIsNotNewer, CellVersion, VLeqAntisymmetric
    <3>3. CASE a.cells[c] = NoCell
      BY <3>1, <3>2, <3>3, CellVersion
    <3>4. CASE a.cells[c] # NoCell
      <4>1. b.cells[c] # NoCell
        BY <3>1, <3>2, <3>4, CellVersion
      <4>2. /\ [key |-> k, col |-> c, cell |-> a.cells[c]] \in writes
            /\ [key |-> k, col |-> c, cell |-> b.cells[c]] \in writes
        BY <1>0, <3>4, <4>1 DEF GoodReplica, Logged
      <4>3. HistoryInv
        BY DEF IInv
      <4>4. [key |-> k, col |-> c, cell |-> a.cells[c]]
              = [key |-> k, col |-> c, cell |-> b.cells[c]]
        BY <3>2, <4>2, <4>3 DEF HistoryInv
      <4> QED BY <4>4
    <3> QED BY <3>3, <3>4
  <2>5. a.cells = b.cells
    <3>1. a.cells = [c \in Cols |-> a.cells[c]] /\ b.cells = [c \in Cols |-> b.cells[c]]
      BY <2>1, RowFields
    <3> QED BY <2>4, <3>1
  <2>6. a = b
    BY <2>1, <2>2, <2>3, <2>5, RowFields
  <2> QED BY <1>0, <2>2, <2>6 DEF GoodReplica
<1>2. /\ replica[p].rows \in [Keys -> Row] /\ replica[q].rows \in [Keys -> Row]
      /\ replica[p].tombs \in [Keys -> OptVersion]
      /\ replica[q].tombs \in [Keys -> OptVersion]
  BY <1>0 DEF ReplicaState, Tombs
<1> QED BY <1>1, <1>2

\* Peers that have seen the same history have seen what the other shows.
LEMMA SameHistoryShownIsSeen ==
  ASSUME IInv, NEW p \in Peers, NEW q \in Peers,
         SeenWrites(p) = SeenWrites(q), SeenDeletes(p) = SeenDeletes(q)
  PROVE  ShownIsSeen(p, q)
<1>1. Logged(writes, deletes, replica[p].rows, replica[p].frontier)
  BY GoodReplicas DEF GoodReplica
<1>2. ASSUME NEW k \in Keys, NEW c \in Cols
      PROVE  Seen(replica[q].frontier, replica[p].rows[k].cells[c].version)
  <2> DEFINE x == replica[p].rows[k].cells[c]
             w == [key |-> k, col |-> c, cell |-> x]
  <2>1. CASE x = NoCell
    BY <2>1 DEF NoCell, Seen
  <2>2. CASE x # NoCell
    <3>1. w \in SeenWrites(p)
      BY <1>1, <2>2 DEF Logged, SeenWrites
    <3> QED BY <3>1 DEF SeenWrites
  <2> QED BY <2>1, <2>2
<1>3. ASSUME NEW k \in Keys
      PROVE  Seen(replica[q].frontier, replica[p].rows[k].delVersion)
  <2> DEFINE x == replica[p].rows[k].delVersion
             w == [key |-> k, version |-> x]
  <2>1. CASE x = NoVersion
    BY <2>1 DEF Seen
  <2>2. CASE x # NoVersion
    <3>1. w \in SeenDeletes(p)
      BY <1>1, <2>2 DEF Logged, SeenDeletes
    <3> QED BY <3>1 DEF SeenDeletes
  <2> QED BY <2>1, <2>2
<1> QED BY <1>2, <1>3 DEF ShownIsSeen

\* Peers whose frontiers cover the same history hold the same rows and
\* tombstones (apply_delta, "Convergent" of crates/sync/src/lib.rs).
THEOREM ConvergenceHolds ==
  ASSUME ~ReuseKeys
  PROVE  Spec => []StrongConvergence
<1>1. IInv => StrongConvergence
  BY SameHistoryShownIsSeen, SameRows DEF StrongConvergence
<1> QED BY Invariance, <1>1, PTL

\* An empty delta means that the receiver has seen all the sender shows.
LEMMA EmptyDelta ==
  ASSUME NEW p \in Peers, NEW q \in Peers
  PROVE  IsEmptyDelta(DeltaFor(p, q)) => ShownIsSeen(p, q)
<1> SUFFICES ASSUME IsEmptyDelta(DeltaFor(p, q)), NEW k \in Keys
             PROVE  ~Unseen(replica[p].rows[k], replica[q].frontier)
  BY DEF ShownIsSeen, Unseen
<1>1. ~Unseen(NoRow, replica[q].frontier)
  BY NoRowType DEF Unseen, Seen, NoCell
<1> QED BY <1>1 DEF IsEmptyDelta, DeltaFor, extract_delta

\* Two peers with nothing left to send to each other hold the same rows
\* (extract_delta; "converges without a coordinator", README.md).
THEOREM QuiescenceIsAgreement ==
  ASSUME ~ReuseKeys
  PROVE  Spec => []QuiescentPeersAgree
<1>1. IInv => QuiescentPeersAgree
  BY EmptyDelta, SameRows DEF QuiescentPeersAgree
<1> QED BY Invariance, <1>1, PTL
=============================================================================
