------------------------ MODULE DeltaSyncRefinement -------------------------
(***************************************************************************)
(* DeltaSync implements EventualStore: what a peer has seen is what its    *)
(* frontier covers, and its rows show exactly the newest of that.  A local *)
(* statement is a Change of the store, every other step is a Learn, which  *)
(* may teach nothing.                                                      *)
(***************************************************************************)
EXTENDS DeltaSyncProofs

\* The versions of the store are those of the peers.
LEMMA StoreVersions ==
  /\ Store!NoVersion = NoVersion
  /\ \A v, w : Store!VLess(v, w) <=> VLess(v, w)
  /\ \A v, w : Store!VLeq(v, w) <=> VLeq(v, w)
BY DEF Store!NoVersion, NoVersion, Store!VLess, VLess, Store!VLeq, VLeq

\* Every peer shows the newest of what it has seen.
Views == \A p \in Peers :
           Store!IsView(replica[p].rows, SeenWrites(p), SeenDeletes(p))

LEMMA ViewOfCell ==
  ASSUME IInv, NEW p \in Peers, NEW k \in Keys, NEW c \in Cols
  PROVE  LET x    == replica[p].rows[k].cells[c]
             here == {w \in SeenWrites(p) : w.key = k /\ w.col = c}
         IN  /\ Store!IsNewest(x.version, {w.cell.version : w \in here})
             /\ x \in {NoCell} \cup {w.cell : w \in here}
<1> DEFINE x == replica[p].rows[k].cells[c]
           here == {w \in SeenWrites(p) : w.key = k /\ w.col = c}
<1>1. /\ writes \in SUBSET Write /\ deletes \in SUBSET Removal
      /\ replica[p] \in ReplicaState
      /\ GoodReplica(writes, deletes, replica[p])
      /\ Logged(writes, deletes, replica[p].rows, replica[p].frontier)
  BY ReplicaOf DEF IInv, TypeOK, ReplicaInv, GoodReplica
<1>2. \A w \in here : /\ w.cell.version \in Version
                      /\ VLeq(w.cell.version, x.version)
  <2>1. \A w \in here : w \in writes /\ Seen(replica[p].frontier, w.cell.version)
                        /\ w.key = k /\ w.col = c
    BY DEF SeenWrites
  <2> QED BY <1>1, <2>1, SeenShows, WriteFields
<1>3. CASE x = NoCell
  <2>1. x.version = NoVersion
    BY <1>3 DEF NoCell
  <2>2. here = {}
    BY <1>2, <2>1, VersionIsOpt, NoVersionIsLeast, VLeqAntisymmetric
  <2> HIDE DEF here, x
  <2>3. {w.cell.version : w \in here} = {}
    BY <2>2
  <2>4. Store!IsNewest(x.version, {w.cell.version : w \in here})
    BY <2>1, <2>3, StoreVersions DEF Store!IsNewest
  <2> QED BY <1>3, <2>4 DEF here, x
<1>4. CASE x # NoCell
  <2> DEFINE e == [key |-> k, col |-> c, cell |-> x]
  <2>1. e \in here
    BY <1>1, <1>4 DEF Logged, SeenWrites
  <2>2. e.cell = x
    OBVIOUS
  <2> HIDE DEF e, here, x
  <2>3. x.version \in {w.cell.version : w \in here} /\ x \in {w.cell : w \in here}
    BY <2>1, <2>2
  <2>4. Store!IsNewest(x.version, {w.cell.version : w \in here})
    BY <1>2, <2>3, StoreVersions DEF Store!IsNewest
  <2> QED BY <2>3, <2>4 DEF here, x
<1> QED BY <1>3, <1>4

LEMMA ViewOfDelete ==
  ASSUME IInv, NEW p \in Peers, NEW k \in Keys
  PROVE  LET row  == replica[p].rows[k]
             here == {x \in SeenDeletes(p) : x.key = k}
         IN  /\ Store!IsNewest(row.delVersion, {x.version : x \in here})
             /\ row.deleted <=> here # {}
<1> DEFINE row == replica[p].rows[k]
           v == row.delVersion
           here == {x \in SeenDeletes(p) : x.key = k}
<1>1. /\ writes \in SUBSET Write /\ deletes \in SUBSET Removal
      /\ replica[p] \in ReplicaState
      /\ GoodReplica(writes, deletes, replica[p])
      /\ Logged(writes, deletes, replica[p].rows, replica[p].frontier)
  BY ReplicaOf DEF IInv, TypeOK, ReplicaInv, GoodReplica
<1>2. \A x \in here : x.version \in Version /\ VLeq(x.version, v)
  <2>1. \A x \in here : /\ x \in deletes /\ x.key = k
                        /\ Seen(replica[p].frontier, x.version)
    BY DEF SeenDeletes
  <2> QED BY <1>1, <2>1, SeenShows, RemovalFields
<1>3. row.deleted <=> v # NoVersion
  BY <1>1 DEF Logged
<1>4. CASE v = NoVersion
  <2>1. here = {}
    BY <1>2, <1>4, VersionIsOpt, NoVersionIsLeast, VLeqAntisymmetric
  <2> HIDE DEF here, v, row
  <2>2. {x.version : x \in here} = {}
    BY <2>1
  <2>3. Store!IsNewest(v, {x.version : x \in here})
    BY <1>4, <2>2, StoreVersions DEF Store!IsNewest
  <2> QED BY <1>3, <1>4, <2>1, <2>3 DEF here, v, row
<1>5. CASE v # NoVersion
  <2> DEFINE e == [key |-> k, version |-> v]
  <2>1. e \in here
    BY <1>1, <1>5 DEF Logged, SeenDeletes
  <2>2. e.version = v
    OBVIOUS
  <2> HIDE DEF e, here, v, row
  <2>3. v \in {x.version : x \in here} /\ here # {}
    BY <2>1, <2>2
  <2>4. Store!IsNewest(v, {x.version : x \in here})
    BY <1>2, <2>3, StoreVersions DEF Store!IsNewest
  <2> QED BY <1>3, <1>5, <2>3, <2>4 DEF here, v, row
<1> QED BY <1>4, <1>5

LEMMA ViewsHold == IInv => Views
<1> SUFFICES ASSUME IInv, NEW p \in Peers
             PROVE  Store!IsView(replica[p].rows, SeenWrites(p), SeenDeletes(p))
  BY DEF Views
<1> QED BY ViewOfCell, ViewOfDelete DEF Store!IsView

-----------------------------------------------------------------------------
(***************************************************************************)
(* Local statements.                                                       *)
(***************************************************************************)

\* A tick is seen by its peer and by nobody else, and changes nothing about
\* what was seen before.
LEMMA TickIsSeenHere ==
  ASSUME IInv, NEW p \in Peers, NEW k, NEW row, NEW tomb,
         replica' = [replica EXCEPT ![p] = Written(@, p, k, row, tomb)],
         NEW q \in Peers
  PROVE  /\ Seen(replica'[q].frontier, NextVersion(replica[p], p)) <=> q = p
         /\ \A v \in Version : v.counter <= replica[v.peer].clock =>
              (Seen(replica'[q].frontier, v) <=> Seen(replica[q].frontier, v))
<1> DEFINE r == replica[p]
           n == Written(r, p, k, row, tomb)
           t == NextVersion(r, p)
<1>1. /\ TypeOK /\ replica \in [Peers -> ReplicaState]
      /\ r \in ReplicaState /\ r.clock \in Nat
      /\ \A z \in Peers : replica[q].frontier[z] \in Nat
      /\ \A z \in Peers : r.frontier[z] <= r.clock
      /\ r.frontier[p] = r.clock
      /\ replica[q].frontier[p] <= r.clock
  BY ReplicaOf DEF IInv, TypeOK, ClockInv
<1>2. \A z \in Peers : n.frontier[z] = IF z = p THEN r.clock + 1 ELSE r.frontier[z]
  BY <1>1, WrittenClock
<1>3. replica'[q] = IF q = p THEN n ELSE replica[q]
  BY <1>1
<1>4. t.counter = r.clock + 1 /\ t.peer = p
  BY DEF NextVersion, Tick
<1>5. t # NoVersion
  BY <1>1, <1>4 DEF NoVersion
<1> HIDE DEF n, t
<1>6. Seen(replica'[q].frontier, t) <=> q = p
  BY <1>1, <1>2, <1>3, <1>4, <1>5 DEF Seen
<1>7. ASSUME NEW v \in Version, v.counter <= replica[v.peer].clock
      PROVE  Seen(replica'[q].frontier, v) <=> Seen(replica[q].frontier, v)
  <2>1. v.peer \in Peers /\ v.counter \in Nat
    BY DEF Version
  <2>2. CASE q # p
    BY <1>3, <2>2
  <2>3. CASE q = p /\ v.peer # p
    BY <1>2, <1>3, <2>1, <2>3 DEF Seen
  <2>4. CASE q = p /\ v.peer = p
    BY <1>1, <1>2, <1>3, <1>7, <2>1, <2>4 DEF Seen
  <2> QED BY <2>2, <2>3, <2>4
<1> QED BY <1>6, <1>7 DEF t

\* What the peers have seen after a statement at p.
LEMMA SeenAfterStatement ==
  ASSUME IInv, NEW p \in Peers, NEW k, NEW row, NEW tomb,
         replica' = [replica EXCEPT ![p] = Written(@, p, k, row, tomb)],
         writes \subseteq writes', deletes \subseteq deletes',
         \A w \in writes' \ writes : w.cell.version = NextVersion(replica[p], p),
         \A x \in deletes' \ deletes : x.version = NextVersion(replica[p], p),
         NEW q \in Peers
  PROVE  /\ SeenWrites(q)' = IF q = p THEN SeenWrites(q) \cup (writes' \ writes)
                             ELSE SeenWrites(q)
         /\ SeenDeletes(q)' = IF q = p THEN SeenDeletes(q) \cup (deletes' \ deletes)
                              ELSE SeenDeletes(q)
<1>1. /\ writes \in SUBSET Write /\ deletes \in SUBSET Removal
      /\ \A w \in writes : w.cell.version.counter <= replica[w.cell.version.peer].clock
      /\ \A x \in deletes : x.version.counter <= replica[x.version.peer].clock
  BY DEF IInv, TypeOK, HistoryInv
<1>0. /\ Seen(replica'[q].frontier, NextVersion(replica[p], p)) <=> q = p
      /\ \A v \in Version : v.counter <= replica[v.peer].clock =>
           (Seen(replica'[q].frontier, v) <=> Seen(replica[q].frontier, v))
  BY TickIsSeenHere
<1>2. \A w \in writes : Seen(replica'[q].frontier, w.cell.version)
                        <=> Seen(replica[q].frontier, w.cell.version)
  BY <1>0, <1>1, WriteFields
<1>3. \A x \in deletes : Seen(replica'[q].frontier, x.version)
                         <=> Seen(replica[q].frontier, x.version)
  BY <1>0, <1>1, RemovalFields
<1>4. /\ \A w \in writes' \ writes :
           Seen(replica'[q].frontier, w.cell.version) <=> q = p
      /\ \A x \in deletes' \ deletes :
           Seen(replica'[q].frontier, x.version) <=> q = p
  BY <1>0
<1>5. SeenWrites(q)' = IF q = p THEN SeenWrites(q) \cup (writes' \ writes)
                       ELSE SeenWrites(q)
  BY <1>2, <1>4 DEF SeenWrites
<1>6. SeenDeletes(q)' = IF q = p THEN SeenDeletes(q) \cup (deletes' \ deletes)
                        ELSE SeenDeletes(q)
  BY <1>3, <1>4 DEF SeenDeletes
<1> QED BY <1>5, <1>6

\* A tick is newer than all that its peer has seen.
LEMMA TickIsNewAt ==
  ASSUME IInv, NEW p \in Peers
  PROVE  Store!NewAt(p, NextVersion(replica[p], p))
<1>1. /\ writes \in SUBSET Write /\ deletes \in SUBSET Removal
      /\ replica[p] \in ReplicaState
      /\ \A q \in Peers : replica[p].frontier[q] <= replica[p].clock
  BY ReplicaOf DEF IInv, TypeOK, ClockInv
<1>2. NextVersion(replica[p], p).peer = p
  BY DEF NextVersion
<1>3. \A w \in SeenWrites(p) : VLess(w.cell.version, NextVersion(replica[p], p))
  BY <1>1, WriteFields, VersionIsOpt, TickIsNewer DEF SeenWrites
<1>4. \A x \in SeenDeletes(p) : VLess(x.version, NextVersion(replica[p], p))
  BY <1>1, RemovalFields, VersionIsOpt, TickIsNewer DEF SeenDeletes
<1> QED BY <1>2, <1>3, <1>4, StoreVersions DEF Store!NewAt

\* The statement at p is a Change of the store.
LEMMA StatementIsChange ==
  ASSUME IInv, NEW p \in Peers, NEW k \in Keys, NEW row, NEW tomb,
         ~replica[p].rows[k].deleted,
         replica' = [replica EXCEPT ![p] = Written(@, p, k, row, tomb)],
         writes \subseteq writes', deletes \subseteq deletes',
         writes' = writes \/ deletes' = deletes,
         \A w \in writes' \ writes :
           w.key = k /\ w.cell.version = NextVersion(replica[p], p),
         \A x \in deletes' \ deletes :
           x.key = k /\ x.version = NextVersion(replica[p], p)
  PROVE  Store!Change(p)
<1>1. \A w \in writes' \ writes : w.key = k /\ Store!NewAt(p, w.cell.version)
  BY TickIsNewAt
<1>2. \A x \in deletes' \ deletes : x.key = k /\ Store!NewAt(p, x.version)
  BY TickIsNewAt
<1>3. \A q \in Peers :
        /\ SeenWrites(q)' = IF q = p THEN SeenWrites(q) \cup (writes' \ writes)
                            ELSE SeenWrites(q)
        /\ SeenDeletes(q)' = IF q = p THEN SeenDeletes(q) \cup (deletes' \ deletes)
                             ELSE SeenDeletes(q)
  BY SeenAfterStatement
<1>4. [q \in Peers |-> SeenWrites(q)]' =
        [[q \in Peers |-> SeenWrites(q)] EXCEPT ![p] = @ \cup (writes' \ writes)]
  BY <1>3
<1>5. [q \in Peers |-> SeenDeletes(q)]' =
        [[q \in Peers |-> SeenDeletes(q)] EXCEPT ![p] = @ \cup (deletes' \ deletes)]
  BY <1>3
<1>6. ~[q \in Peers |-> replica[q].rows][p][k].deleted
  OBVIOUS
<1> QED BY <1>1, <1>2, <1>4, <1>5, <1>6 DEF Store!Change

-----------------------------------------------------------------------------
(***************************************************************************)
(* All other steps.                                                        *)
(***************************************************************************)

\* Where frontiers only grow and nothing is written, the store learns.
LEMMA GrowthIsLearn ==
  ASSUME IInv, UNCHANGED <<writes, deletes>>,
         \A q \in Peers : /\ replica'[q].frontier \in Frontier
                          /\ \A z \in Peers :
                               replica[q].frontier[z] <= replica'[q].frontier[z]
  PROVE  Store!Learn
<1>1. writes \in SUBSET Write /\ deletes \in SUBSET Removal
      /\ \A q \in Peers : replica[q].frontier \in Frontier
  BY ReplicaOf DEF IInv, TypeOK
<1>2. ASSUME NEW q \in Peers
      PROVE  /\ SeenWrites(q) \subseteq SeenWrites(q)'
             /\ SeenWrites(q)' \subseteq writes
             /\ SeenDeletes(q) \subseteq SeenDeletes(q)'
             /\ SeenDeletes(q)' \subseteq deletes
  <2>1. \A w \in writes : Seen(replica[q].frontier, w.cell.version) =>
                            Seen(replica'[q].frontier, w.cell.version)
    BY <1>1, SeenMonotone, WriteFields, VersionIsOpt
  <2>2. \A x \in deletes : Seen(replica[q].frontier, x.version) =>
                             Seen(replica'[q].frontier, x.version)
    BY <1>1, SeenMonotone, RemovalFields, VersionIsOpt
  <2> QED BY <2>1, <2>2 DEF SeenWrites, SeenDeletes
<1>3. \A q \in Peers :
        /\ [z \in Peers |-> SeenWrites(z)][q] = SeenWrites(q)
        /\ [z \in Peers |-> SeenWrites(z)]'[q] = SeenWrites(q)'
        /\ [z \in Peers |-> SeenDeletes(z)][q] = SeenDeletes(q)
        /\ [z \in Peers |-> SeenDeletes(z)]'[q] = SeenDeletes(q)'
  OBVIOUS
<1> QED BY <1>2, <1>3 DEF Store!Learn

LEMMA FrontiersOf ==
  ASSUME IInv, NEW q \in Peers
  PROVE  replica[q].frontier \in Frontier
         /\ \A z \in Peers : replica[q].frontier[z] <= replica[q].frontier[z]
BY ReplicaOf DEF IInv

LEMMA ReceiveGrows ==
  ASSUME IInv, NEW p \in Peers, NEW d, NEW base, NEW s, Receivable(p, d, base, s)
  PROVE  /\ apply_delta(replica[p], p, d).frontier \in Frontier
         /\ \A z \in Peers : replica[p].frontier[z] <=
                               apply_delta(replica[p], p, d).frontier[z]
<1>1. /\ apply_delta(replica[p], p, d) \in ReplicaState
      /\ \A z \in Peers : replica[p].frontier[z] <=
                            apply_delta(replica[p], p, d).frontier[z]
  BY Receive
<1> QED BY <1>1, ReplicaFields

LEMMA ApplyIsLearn ==
  ASSUME IInv, NEW d \in net, Apply(d)
  PROVE  Store!Learn
<1>1. d.to \in Peers /\ replica \in [Peers -> ReplicaState]
  BY NetReceivable DEF IInv, TypeOK
<1>2. ASSUME NEW q \in Peers
      PROVE  /\ replica'[q].frontier \in Frontier
             /\ \A z \in Peers : replica[q].frontier[z] <= replica'[q].frontier[z]
  <2>1. CASE q = d.to
    <3>1. replica'[q] = apply_delta(replica[q], q, d.payload)
      BY <1>1, <2>1 DEF Apply
    <3> QED BY <2>1, <3>1, NetReceivable, ReceiveGrows
  <2>2. CASE q # d.to
    BY <1>1, <2>2, FrontiersOf DEF Apply
  <2> QED BY <2>1, <2>2
<1> QED BY <1>2, GrowthIsLearn DEF Apply

LEMMA SyncPeersIsLearn ==
  ASSUME IInv, NEW a \in Peers, NEW b \in Peers, SyncPeers(a, b)
  PROVE  Store!Learn
<1>1. ASSUME NEW q \in Peers
      PROVE  /\ replica'[q].frontier \in Frontier
             /\ \A z \in Peers : replica[q].frontier[z] <= replica'[q].frontier[z]
  <2>1. replica'[q] = CASE q = a -> apply_delta(replica[a], a, DeltaFor(b, a))
                        [] q = b -> apply_delta(replica[b], b, DeltaFor(a, b))
                        [] OTHER -> replica[q]
    BY SyncPeersEffect
  <2>2. CASE q = a
    BY <2>1, <2>2, DeltaForReceivable, ReceiveGrows
  <2>3. CASE q = b /\ q # a
    BY <2>1, <2>3, DeltaForReceivable, ReceiveGrows
  <2>4. CASE q # a /\ q # b
    BY <2>1, <2>4, FrontiersOf
  <2> QED BY <2>2, <2>3, <2>4
<1> QED BY <1>1, SyncPeersEffect, GrowthIsLearn

LEMMA StutterIsLearn ==
  ASSUME IInv, UNCHANGED <<replica, writes, deletes>>
  PROVE  Store!Learn
<1>1. \A q \in Peers : replica'[q].frontier = replica[q].frontier
  OBVIOUS
<1> QED BY <1>1, FrontiersOf, GrowthIsLearn

\* Every step is a Change or a Learn.
LEMMA StepIsChangeOrLearn ==
  ASSUME IInv, ~ReuseKeys, [Next]_vars
  PROVE  (\E p \in Peers : Store!Change(p)) \/ Store!Learn
<1>1. ASSUME NEW p \in Peers, NEW k \in Keys, NEW vals \in Assignments,
             Insert(p, k, vals)
      PROVE  Store!Change(p)
  <2> DEFINE v == NextVersion(replica[p], p)
  <2>1. /\ replica' = [replica EXCEPT ![p] =
                          Written(@, p, k, InsertedRow(v, vals), replica[p].tombs[k])]
        /\ ~replica[p].rows[k].deleted
    BY <1>1 DEF Insert, InsertRow, NoRow
  <2>2. writes' = writes \cup CellsWritten(k, v, vals) /\ deletes' = deletes
    BY <1>1 DEF Insert
  <2>3. \A w \in writes' \ writes : w.key = k /\ w.cell.version = v
    BY <2>2 DEF CellsWritten
  <2> QED BY <2>1, <2>2, <2>3, StatementIsChange
<1>2. ASSUME NEW p \in Peers, NEW k \in Keys, NEW vals \in Assignments,
             Update(p, k, vals)
      PROVE  Store!Change(p)
  <2> DEFINE v == NextVersion(replica[p], p)
  <2>1. /\ replica' = [replica EXCEPT ![p] =
                          Written(@, p, k, UpdatedRow(replica[p].rows[k], v, vals),
                                  replica[p].tombs[k])]
        /\ ~replica[p].rows[k].deleted
    BY <1>2 DEF Update, UpdateRow, Visible
  <2>2. writes' = writes \cup CellsWritten(k, v, vals) /\ deletes' = deletes
    BY <1>2 DEF Update
  <2>3. \A w \in writes' \ writes : w.key = k /\ w.cell.version = v
    BY <2>2 DEF CellsWritten
  <2> QED BY <2>1, <2>2, <2>3, StatementIsChange
<1>3. ASSUME NEW p \in Peers, NEW k \in Keys, Delete(p, k)
      PROVE  Store!Change(p)
  <2> DEFINE v == NextVersion(replica[p], p)
  <2>1. /\ replica' = [replica EXCEPT ![p] =
                          Written(@, p, k, DeletedRow(replica[p].rows[k], v), v)]
        /\ ~replica[p].rows[k].deleted
    BY <1>3 DEF Delete, DeleteRow, Visible
  <2>2. deletes' = deletes \cup {[key |-> k, version |-> v]} /\ writes' = writes
    BY <1>3 DEF Delete
  <2>3. \A x \in deletes' \ deletes : x.key = k /\ x.version = v
    BY <2>2
  <2> QED BY <2>1, <2>2, <2>3, StatementIsChange
<1>4. CASE UNCHANGED <<replica, writes, deletes>>
  BY <1>4, StutterIsLearn
<1> QED BY <1>1, <1>2, <1>3, <1>4, ApplyIsLearn, SyncPeersIsLearn
        DEF Next, Extract, Lose, vars

-----------------------------------------------------------------------------
LEMMA InitImplements == Init => Store!Init
<1> SUFFICES ASSUME Init PROVE Store!Init
  OBVIOUS
<1>1. \A p \in Peers : SeenWrites(p) = {} /\ SeenDeletes(p) = {}
  BY DEF Init, SeenWrites, SeenDeletes
<1>2. /\ [p \in Peers |-> SeenWrites(p)] = [p \in Peers |-> {}]
      /\ [p \in Peers |-> SeenDeletes(p)] = [p \in Peers |-> {}]
  BY <1>1
<1>3. \A p \in Peers : Store!IsView(replica[p].rows, {}, {})
  BY <1>1, InitIInv, ViewsHold DEF Views
<1>4. \A p \in Peers : Store!IsView([q \in Peers |-> replica[q].rows][p], {}, {})
  BY <1>3
<1>5. writes = {} /\ deletes = {}
  BY DEF Init
<1> QED BY <1>2, <1>4, <1>5 DEF Store!Init

LEMMA NextImplements ==
  ASSUME IInv, Views', ~ReuseKeys, [Next]_vars
  PROVE  Store!Next
<1>1. \A p \in Peers :
        Store!IsView(replica'[p].rows, SeenWrites(p)', SeenDeletes(p)')
  BY DEF Views
<1>2. \A p \in Peers :
        Store!IsView([q \in Peers |-> replica[q].rows]'[p],
                     [q \in Peers |-> SeenWrites(q)]'[p],
                     [q \in Peers |-> SeenDeletes(q)]'[p])
  BY <1>1
<1> QED BY <1>2, StepIsChangeOrLearn DEF Store!Next

\* The peers implement the eventually consistent store (extract_delta,
\* apply_delta, merge_row): what a peer shows is determined by the part of the
\* common history it has seen, and that part only grows.
THEOREM Implements ==
  ASSUME ~ReuseKeys
  PROVE  Spec => ImplementsStore
<1>1. IInv /\ Views' /\ [Next]_vars => [Store!Next]_Store!esvars
  BY NextImplements
<1> QED BY Invariance, InitImplements, ViewsHold, <1>1, PTL
        DEF Spec, ImplementsStore, Store!Spec
=============================================================================
