------------------------------ MODULE GcProofs ------------------------------
(***************************************************************************)
(* IInv of Gc is inductive, and it implies what run_gc promises: what it   *)
(* collects every peer has seen deleted and, as long as clients reuse no   *)
(* key, no zombie rows, no row a reader can see collected, and no reader   *)
(* who could tell which of two quiescent peers has collected.              *)
(*                                                                         *)
(* The steps are taken in three groups: a statement writes one row of one  *)
(* peer (WriteStep), peers join what others hold (JoinStep, for            *)
(* sync_peers), and a peer drops rows that every peer has seen deleted     *)
(* (CollectStep).                                                          *)
(***************************************************************************)
EXTENDS Gc, ReplicaProofs

LEMMA ReplicaOf ==
  ASSUME TypeOK, NEW p \in Peers
  PROVE  /\ replica[p] \in ReplicaState
         /\ replica[p].clock \in Nat
         /\ replica[p].frontier \in Frontier
         /\ \A q \in Peers : replica[p].frontier[q] \in Nat
         /\ \A k \in Keys : /\ replica[p].rows[k] \in Row
                            /\ replica[p].tombs[k] \in OptVersion
                            /\ \A c \in Cols : replica[p].rows[k].cells[c] \in Cell
<1>1. replica[p] \in ReplicaState
  BY DEF TypeOK
<1>2. /\ replica[p].clock \in Nat /\ replica[p].frontier \in Frontier
      /\ \A k \in Keys : replica[p].rows[k] \in Row /\ replica[p].tombs[k] \in OptVersion
  BY <1>1, ReplicaFields
<1>3. \A q \in Peers : replica[p].frontier[q] \in Nat
  BY <1>2 DEF Frontier
<1>4. \A k \in Keys, c \in Cols : replica[p].rows[k].cells[c] \in Cell
  BY <1>2, RowFields
<1> QED BY <1>1, <1>2, <1>3, <1>4

LEMMA DeleteFields ==
  ASSUME TypeOK, NEW x \in deletes
  PROVE  /\ x.key \in Keys /\ x.version \in Version
         /\ x = [key |-> x.key, version |-> x.version]
         /\ x.version.peer \in Peers /\ x.version.counter \in Nat
BY DEF TypeOK, Version

LEMMA NewReplicaType == NewReplica \in ReplicaState
BY NoRowType, VersionIsOpt, EmptyFrontierType DEF NewReplica, ReplicaState, Tombs

LEMMA InitIInv == Init => IInv
<1> SUFFICES ASSUME Init PROVE IInv
  OBVIOUS
<1>1. /\ \A p \in Peers : /\ replica[p] = NewReplica
                          /\ known[p] = <<>>
                          /\ \A q \in Peers : replica[p].frontier[q] = 0
                          /\ replica[p].clock = 0
                          /\ \A k \in Keys : /\ replica[p].rows[k] = NoRow
                                             /\ replica[p].tombs[k] = NoVersion
      /\ deletes = {}
      /\ DOMAIN known = Peers
  BY DEF Init, NewReplica, EmptyFrontier
<1>2. \A p \in Peers : DOMAIN known[p] = {}
  BY <1>1
<1>3. TypeOK
  <2>1. replica \in [Peers -> ReplicaState]
    BY NewReplicaType DEF Init
  <2>2. <<>> \in [{} -> Frontier]
    OBVIOUS
  <2> QED BY <1>1, <1>2, <2>1, <2>2 DEF TypeOK
<1>4. ClockInv
  BY <1>1, <1>2 DEF ClockInv
<1>5. HeldInv
  <2>1. /\ NoRow.deleted = FALSE /\ NoRow.delVersion = NoVersion
        /\ \A c \in Cols : NoRow.cells[c].version = NoVersion
    BY NoRowType DEF NoRow, NoCell
  <2> QED BY <1>1, <2>1 DEF HeldInv, Seen
<1>6. NoZombies /\ CollectedInv
  BY <1>1 DEF NoZombies, CollectedInv, SeenDead
<1>7. CellInv
  BY <1>1, NoRowType DEF CellInv, VLeq
<1> QED BY <1>3, <1>4, <1>5, <1>6, <1>7 DEF IInv, DeadInv

-----------------------------------------------------------------------------
(***************************************************************************)
(* Versions and what has been seen.                                        *)
(***************************************************************************)

\* v is the version of a write that has happened when the replicas are R, or
\* no version.
Past(R, v) == v \in OptVersion /\ (v # NoVersion => v.counter <= R[v.peer].clock)

LEMMA SeenIsPast ==
  ASSUME TypeOK, ClockInv, NEW p \in Peers, NEW v \in OptVersion,
         Seen(replica[p].frontier, v)
  PROVE  Past(replica, v)
<1> SUFFICES ASSUME v # NoVersion
             PROVE  v.counter <= replica[v.peer].clock
  BY DEF Past
<1>1. v.peer \in Peers /\ v.counter \in Nat
  BY DEF OptVersion, Version
<1>2. v.counter <= replica[p].frontier[v.peer]
  BY DEF Seen
<1>3. replica[p].frontier[v.peer] <= replica[v.peer].clock
  BY <1>1 DEF ClockInv
<1> QED BY <1>1, <1>2, <1>3, ReplicaOf

LEMMA HeldIsPast ==
  ASSUME IInv, NEW p \in Peers, NEW k \in Keys, NEW c \in Cols
  PROVE  /\ Past(replica, replica[p].rows[k].cells[c].version)
         /\ replica[p].rows[k].cells[c].version \in OptVersion
<1>1. replica[p].rows[k].cells[c].version \in OptVersion
  BY ReplicaOf, CellVersion DEF IInv
<1>2. Seen(replica[p].frontier, replica[p].rows[k].cells[c].version)
  BY DEF IInv, HeldInv
<1>3. TypeOK /\ ClockInv
  BY DEF IInv
<1> QED BY <1>1, <1>2, <1>3, SeenIsPast

LEMMA DeleteIsPast ==
  ASSUME IInv, NEW x \in deletes
  PROVE  Past(replica, x.version)
BY DeleteFields, VersionIsOpt DEF IInv, ClockInv, Past

\* A deleted row or a tombstone means that the delete of the row was seen.
LEMMA DeadIsSeenDead ==
  ASSUME IInv, NEW p \in Peers, NEW k \in Keys,
         replica[p].rows[k].deleted \/ replica[p].tombs[k] # NoVersion
  PROVE  SeenDead(p, k)
<1>1. \E v : DeletedAs(p, k, v)
  BY DEF IInv, HeldInv
<1> QED BY <1>1 DEF DeletedAs, SeenDead

\* NoZombies of one row.
LEMMA SeenDeadIsInvisible ==
  ASSUME IInv, ~ReuseKeys, NEW p \in Peers, NEW k \in Keys, SeenDead(p, k)
  PROVE  ~Visible(replica[p], k)
BY DEF IInv, DeadInv, NoZombies, SeenDead

\* A row that was not seen deleted is live or missing.
LEMMA NotSeenDead ==
  ASSUME IInv, NEW p \in Peers, NEW k \in Keys, ~SeenDead(p, k)
  PROVE  /\ replica[p].rows[k].deleted = FALSE
         /\ replica[p].rows[k].delVersion = NoVersion
         /\ replica[p].tombs[k] = NoVersion
<1>1. replica[p].rows[k].deleted \in BOOLEAN
  BY ReplicaOf, RowFields DEF IInv
<1> QED BY <1>1, DeadIsSeenDead DEF IInv, HeldInv

-----------------------------------------------------------------------------
(***************************************************************************)
(* A statement at p that writes row k, which p has not seen deleted unless *)
(* clients reuse keys.                                                     *)
(***************************************************************************)

\* The row's cells are the stored ones or carry the statement's version v; an
\* INSERT that replaces a deleted row empties the others.
WritesCells(p, k, row, v) ==
  \A c \in Cols : \/ row.cells[c] = replica[p].rows[k].cells[c]
                  \/ row.cells[c].version = v
                  \/ ReuseKeys /\ row.cells[c] = NoCell

\* INSERT and UPDATE leave a live row and the stored tombstone.
KeepsAlive(p, k, row, tomb) ==
  /\ deletes' = deletes
  /\ row.deleted = FALSE
  /\ row.delVersion = NoVersion
  /\ tomb = replica[p].tombs[k]

\* DELETE leaves a deleted row and its tombstone.
Removes(k, row, tomb, v) ==
  /\ deletes' = deletes \cup {[key |-> k, version |-> v]}
  /\ row.deleted = TRUE
  /\ row.delVersion = v
  /\ tomb = v

WriteStep(p, k, row, tomb) ==
  LET v == NextVersion(replica[p], p)
  IN  /\ ReuseKeys \/ ~SeenDead(p, k)
      /\ row \in Row
      /\ WritesCells(p, k, row, v)
      /\ KeepsAlive(p, k, row, tomb) \/ Removes(k, row, tomb, v)
      /\ replica' = [replica EXCEPT ![p] = Written(replica[p], p, k, row, tomb)]
      /\ known' = known

\* The version a statement takes is new to everyone, and seen by its writer.
LEMMA TickIsFresh ==
  ASSUME IInv, NEW p \in Peers
  PROVE  LET v == NextVersion(replica[p], p)
         IN  /\ v \in Version /\ v # NoVersion
             /\ v.peer = p /\ v.counter = replica[p].clock + 1
             /\ ~Past(replica, v)
             /\ \A q \in Peers : ~Seen(replica[q].frontier, v)
<1> DEFINE v == NextVersion(replica[p], p)
<1>1. replica[p].clock \in Nat
  BY ReplicaOf DEF IInv
<1>2. v \in Version /\ v.peer = p /\ v.counter = replica[p].clock + 1
  BY <1>1 DEF NextVersion, Tick, Version
<1>3. v # NoVersion /\ v \in OptVersion
  BY <1>2, VersionIsOpt
<1>4. ~Past(replica, v)
  BY <1>1, <1>2, <1>3 DEF Past
<1> HIDE DEF v
<1>5. \A q \in Peers : ~Seen(replica[q].frontier, v)
  BY <1>3, <1>4, SeenIsPast DEF IInv
<1> QED BY <1>2, <1>3, <1>4, <1>5 DEF v

\* What every peer has after the statement.
LEMMA WriteEffect ==
  ASSUME IInv, NEW p \in Peers, NEW k \in Keys, NEW row, NEW tomb,
         WriteStep(p, k, row, tomb)
  PROVE  LET r == replica[p]
             v == NextVersion(r, p)
         IN  /\ replica' \in [Peers -> ReplicaState]
             /\ \A q \in Peers : q # p => replica'[q] = replica[q]
             /\ replica'[p].clock = r.clock + 1
             /\ \A q \in Peers : replica'[p].frontier[q] =
                                   IF q = p THEN r.clock + 1 ELSE r.frontier[q]
             /\ \A j \in Keys : replica'[p].rows[j] = IF j = k THEN row ELSE r.rows[j]
             /\ \A j \in Keys : replica'[p].tombs[j] = IF j = k THEN tomb ELSE r.tombs[j]
<1> DEFINE r == replica[p]
           n == Written(r, p, k, row, tomb)
           v == NextVersion(r, p)
<1>1. replica \in [Peers -> ReplicaState] /\ r \in ReplicaState
  BY DEF IInv, TypeOK
<1>2. \A q \in Peers : r.frontier[q] <= r.clock
  BY DEF IInv, ClockInv
<1>3. /\ n.clock \in Nat
      /\ n.clock = r.clock + 1
      /\ n.frontier \in Frontier
      /\ \A q \in Peers : n.frontier[q] = IF q = p THEN r.clock + 1
                                          ELSE r.frontier[q]
  BY <1>1, <1>2, WrittenClock
<1>4. row \in Row /\ tomb \in OptVersion
  BY <1>1, TickIsFresh, ReplicaFields, VersionIsOpt DEF WriteStep, KeepsAlive, Removes
<1>5. /\ n.rows = [r.rows EXCEPT ![k] = row]
      /\ n.tombs = [r.tombs EXCEPT ![k] = tomb]
      /\ n = [rows |-> n.rows, tombs |-> n.tombs, clock |-> n.clock,
              frontier |-> n.frontier]
  BY DEF Written
<1>6. r.rows \in [Keys -> Row] /\ r.tombs \in [Keys -> OptVersion]
  BY <1>1 DEF ReplicaState, Tombs
<1>7. n.rows \in [Keys -> Row] /\ n.tombs \in [Keys -> OptVersion]
  BY <1>4, <1>5, <1>6
<1>8. n \in ReplicaState
  BY <1>3, <1>5, <1>7 DEF ReplicaState, Tombs
<1>9. replica' = [replica EXCEPT ![p] = n]
  BY DEF WriteStep
<1> HIDE DEF n
<1>10. replica' \in [Peers -> ReplicaState] /\ replica'[p] = n
       /\ \A q \in Peers : q # p => replica'[q] = replica[q]
  BY <1>1, <1>8, <1>9
<1> QED BY <1>3, <1>5, <1>6, <1>10

\* Only the writer sees more than before, and only the statement itself.
LEMMA WriteSeen ==
  ASSUME IInv, NEW p \in Peers, NEW k \in Keys, NEW row, NEW tomb,
         WriteStep(p, k, row, tomb)
  PROVE  LET v == NextVersion(replica[p], p)
         IN  /\ \A q \in Peers : \A w :
                  Past(replica, w) => (Seen(replica'[q].frontier, w) <=> Seen(replica[q].frontier, w))
             /\ \A q \in Peers : Seen(replica'[q].frontier, v) <=> q = p
             /\ \A w : Past(replica, w) => Past(replica', w)
             /\ Past(replica', v)
<1> DEFINE r == replica[p]
           v == NextVersion(r, p)
<1>1. /\ replica' \in [Peers -> ReplicaState]
      /\ \A q \in Peers : q # p => replica'[q] = replica[q]
      /\ replica'[p].clock = r.clock + 1
      /\ \A q \in Peers : replica'[p].frontier[q] =
                            IF q = p THEN r.clock + 1 ELSE r.frontier[q]
  BY WriteEffect
<1>2. /\ v \in Version /\ v # NoVersion /\ v \in OptVersion
      /\ v.peer = p /\ v.counter = r.clock + 1
      /\ \A q \in Peers : ~Seen(replica[q].frontier, v)
  BY TickIsFresh, VersionIsOpt
<1>3. r.clock \in Nat /\ r.frontier[p] = r.clock
  BY ReplicaOf DEF IInv, ClockInv
<1> HIDE DEF v
<1>4. ASSUME NEW q \in Peers, NEW w, Past(replica, w)
      PROVE  Seen(replica'[q].frontier, w) <=> Seen(replica[q].frontier, w)
  <2>1. w # NoVersion => w.peer \in Peers /\ w.counter \in Nat
                         /\ w.counter <= replica[w.peer].clock
    BY <1>4 DEF Past, OptVersion, Version
  <2>2. CASE q # p \/ w = NoVersion
    BY <1>1, <2>2 DEF Seen
  <2>3. CASE q = p /\ w # NoVersion /\ w.peer # p
    BY <1>1, <2>1, <2>3 DEF Seen
  <2>4. CASE q = p /\ w # NoVersion /\ w.peer = p
    BY <1>1, <1>3, <2>1, <2>4 DEF Seen
  <2> QED BY <2>2, <2>3, <2>4
<1>5. ASSUME NEW q \in Peers
      PROVE  Seen(replica'[q].frontier, v) <=> q = p
  <2>1. CASE q = p
    BY <1>1, <1>2, <1>3, <2>1 DEF Seen
  <2>2. CASE q # p
    BY <1>1, <1>2, <2>2
  <2> QED BY <2>1, <2>2
<1>6. ASSUME NEW w, Past(replica, w)
      PROVE  Past(replica', w)
  <2>1. CASE w = NoVersion
    BY <1>6, <2>1 DEF Past
  <2>2. CASE w # NoVersion
    <3>1. w.peer \in Peers /\ w.counter \in Nat
      BY <1>6, <2>2 DEF Past, OptVersion, Version
    <3>2. w.counter <= replica[w.peer].clock /\ w \in OptVersion
      BY <1>6, <2>2 DEF Past
    <3>3. w.counter <= replica'[w.peer].clock
      BY <1>1, <1>3, <3>1, <3>2
    <3> QED BY <3>2, <3>3 DEF Past
  <2> QED BY <2>1, <2>2
<1>7. Past(replica', v)
  BY <1>1, <1>2, <1>3 DEF Past
<1> QED BY <1>4, <1>5, <1>6, <1>7 DEF v

\* The statement changes what was seen deleted only for its row at its peer,
\* and only when it is a DELETE.
LEMMA WriteSeenDead ==
  ASSUME IInv, NEW p \in Peers, NEW k \in Keys, NEW row, NEW tomb,
         WriteStep(p, k, row, tomb)
  PROVE  /\ \A q \in Peers, j \in Keys :
              SeenDead(q, j) => SeenDead(q, j)'
         /\ \A q \in Peers, j \in Keys :
              SeenDead(q, j)' => \/ SeenDead(q, j)
                                 \/ q = p /\ j = k /\ row.deleted
<1> DEFINE v == NextVersion(replica[p], p)
<1>1. /\ \A x \in deletes : Past(replica, x.version)
      /\ deletes \subseteq deletes'
      /\ \A x \in deletes' \ deletes : x.key = k /\ x.version = v /\ row.deleted
  BY DeleteIsPast DEF WriteStep, KeepsAlive, Removes
<1>2. /\ \A q \in Peers : \A w :
           Past(replica, w) => (Seen(replica'[q].frontier, w) <=> Seen(replica[q].frontier, w))
      /\ \A q \in Peers : Seen(replica'[q].frontier, v) <=> q = p
  BY WriteSeen
<1> HIDE DEF v
<1>3. ASSUME NEW q \in Peers, NEW j \in Keys, SeenDead(q, j)
      PROVE  SeenDead(q, j)'
  BY <1>1, <1>2, <1>3 DEF SeenDead
<1>4. ASSUME NEW q \in Peers, NEW j \in Keys, SeenDead(q, j)'
      PROVE  SeenDead(q, j) \/ (q = p /\ j = k /\ row.deleted)
  <2>1. PICK x \in deletes' : x.key = j /\ Seen(replica'[q].frontier, x.version)
    BY <1>4 DEF SeenDead
  <2>2. CASE x \in deletes
    BY <1>1, <1>2, <2>1, <2>2 DEF SeenDead
  <2>3. CASE x \notin deletes
    BY <1>1, <1>2, <2>1, <2>3
  <2> QED BY <2>2, <2>3
<1> QED BY <1>3, <1>4

LEMMA WriteTypeAndClock ==
  ASSUME IInv, NEW p \in Peers, NEW k \in Keys, NEW row, NEW tomb,
         WriteStep(p, k, row, tomb)
  PROVE  TypeOK' /\ ClockInv'
<1> DEFINE r == replica[p]
           v == NextVersion(r, p)
<1>0. TypeOK /\ ClockInv
  BY DEF IInv
<1>1. /\ replica' \in [Peers -> ReplicaState]
      /\ \A q \in Peers : q # p => replica'[q] = replica[q]
      /\ replica'[p].clock = r.clock + 1
      /\ \A q \in Peers : replica'[p].frontier[q] =
                            IF q = p THEN r.clock + 1 ELSE r.frontier[q]
  BY WriteEffect
<1>2. v \in Version
  BY TickIsFresh
<1>3. known' = known
  BY DEF WriteStep
<1>4. deletes' \subseteq [key : Keys, version : Version]
  BY <1>0, <1>2 DEF WriteStep, KeepsAlive, Removes, TypeOK
<1>5. TypeOK'
  BY <1>0, <1>1, <1>3, <1>4 DEF TypeOK
<1>6. ASSUME NEW a \in Peers
      PROVE  /\ replica[a].clock \in Nat
             /\ replica[a].clock <= replica'[a].clock
             /\ replica'[a].clock \in Nat
             /\ \A s \in Peers : /\ replica[a].frontier[s] \in Nat
                                 /\ replica'[a].frontier[s] \in Nat
                                 /\ replica[a].frontier[s] <= replica'[a].frontier[s]
  <2>1. /\ replica[a].clock \in Nat
        /\ \A s \in Peers : replica[a].frontier[s] \in Nat
        /\ replica[a].frontier[a] = replica[a].clock
    BY <1>0, ReplicaOf DEF ClockInv
  <2> QED BY <1>1, <2>1
<1>7. ASSUME NEW a \in Peers, NEW q \in Peers
      PROVE  /\ replica'[a].frontier[q] <= replica'[q].clock
             /\ replica'[a].frontier[q] <= replica'[a].clock
             /\ replica'[a].frontier[a] = replica'[a].clock
  <2>1. /\ replica[a].frontier[q] <= replica[q].clock
        /\ replica[a].frontier[q] <= replica[a].clock
        /\ replica[a].frontier[a] = replica[a].clock
    BY <1>0 DEF ClockInv
  <2>2. CASE a = p
    BY <1>1, <1>6, <2>1, <2>2
  <2>3. CASE a # p
    BY <1>1, <1>6, <2>1, <2>3
  <2> QED BY <2>2, <2>3
<1>8. ASSUME NEW a \in Peers, NEW q \in DOMAIN known[a], NEW s \in Peers
      PROVE  known[a][q][s] <= replica'[q].frontier[s]
  <2>1. q \in Peers /\ known[a][q][s] \in Nat
    BY <1>0 DEF TypeOK, Frontier
  <2>2. known[a][q][s] <= replica[q].frontier[s]
    BY <1>0 DEF ClockInv
  <2> QED BY <1>6, <2>1, <2>2
<1>9. ASSUME NEW x \in deletes'
      PROVE  x.version.counter <= replica'[x.version.peer].clock
  <2>1. Past(replica', x.version)
    <3>1. x \in deletes \/ x.version = v
      BY DEF WriteStep, KeepsAlive, Removes
    <3>2. Past(replica', v) /\ \A w : Past(replica, w) => Past(replica', w)
      BY WriteSeen
    <3> HIDE DEF v
    <3> QED BY <3>1, <3>2, DeleteIsPast
  <2>2. x.version \in Version
    BY <1>4
  <2> QED BY <2>1, <2>2, VersionIsOpt DEF Past
<1>10. ClockInv'
  BY <1>3, <1>7, <1>8, <1>9 DEF ClockInv
<1> QED BY <1>5, <1>10

LEMMA WriteHeld ==
  ASSUME IInv, NEW p \in Peers, NEW k \in Keys, NEW row, NEW tomb,
         WriteStep(p, k, row, tomb)
  PROVE  HeldInv'
<1> DEFINE v == NextVersion(replica[p], p)
<1>1. /\ \A q \in Peers : q # p => replica'[q] = replica[q]
      /\ \A j \in Keys : replica'[p].rows[j] = IF j = k THEN row ELSE replica[p].rows[j]
      /\ \A j \in Keys : replica'[p].tombs[j] = IF j = k THEN tomb ELSE replica[p].tombs[j]
  BY WriteEffect
<1>2. /\ \A q \in Peers : \A w :
           Past(replica, w) => (Seen(replica'[q].frontier, w) <=> Seen(replica[q].frontier, w))
      /\ \A q \in Peers : Seen(replica'[q].frontier, v) <=> q = p
      /\ v # NoVersion
  BY WriteSeen, TickIsFresh
<1>3. /\ WritesCells(p, k, row, v)
      /\ KeepsAlive(p, k, row, tomb) \/ Removes(k, row, tomb, v)
  BY DEF WriteStep
<1> HIDE DEF v
<1>4. ASSUME NEW q \in Peers, NEW j \in Keys, NEW c \in Cols
      PROVE  Seen(replica'[q].frontier, replica'[q].rows[j].cells[c].version)
  <2>1. /\ Past(replica, replica[q].rows[j].cells[c].version)
        /\ Seen(replica[q].frontier, replica[q].rows[j].cells[c].version)
    BY HeldIsPast DEF IInv, HeldInv
  <2>2. \/ replica'[q].rows[j].cells[c] = replica[q].rows[j].cells[c]
        \/ q = p /\ replica'[q].rows[j].cells[c].version = v
        \/ replica'[q].rows[j].cells[c] = NoCell
    BY <1>1, <1>3 DEF WritesCells
  <2>3. Seen(replica'[q].frontier, NoCell.version)
    BY DEF Seen, NoCell
  <2> QED BY <1>2, <2>1, <2>2, <2>3
<1>5. ASSUME NEW q \in Peers, NEW j \in Keys, NEW w, DeletedAs(q, j, w)
      PROVE  DeletedAs(q, j, w)'
  <2>1. [key |-> j, version |-> w] \in deletes /\ Seen(replica[q].frontier, w)
    BY <1>5 DEF DeletedAs
  <2>2. Past(replica, w)
    BY <2>1, DeleteIsPast
  <2>3. deletes \subseteq deletes'
    BY <1>3 DEF KeepsAlive, Removes
  <2> QED BY <1>2, <2>1, <2>2, <2>3 DEF DeletedAs
<1>6. ASSUME NEW q \in Peers, NEW j \in Keys
      PROVE  LET mine == replica'[q].rows[j]
             IN  /\ mine.deleted <=> mine.delVersion # NoVersion
                 /\ mine.deleted => /\ [key |-> j, version |-> mine.delVersion] \in deletes'
                                    /\ Seen(replica'[q].frontier, mine.delVersion)
                 /\ replica'[q].tombs[j] # NoVersion =>
                      /\ [key |-> j, version |-> replica'[q].tombs[j]] \in deletes'
                      /\ Seen(replica'[q].frontier, replica'[q].tombs[j])
  <2>1. CASE q # p \/ j # k
    <3>1. /\ replica'[q].rows[j] = replica[q].rows[j]
          /\ replica'[q].tombs[j] = replica[q].tombs[j]
      BY <1>1, <2>1
    <3>2. /\ replica[q].rows[j].deleted <=> replica[q].rows[j].delVersion # NoVersion
          /\ replica[q].rows[j].deleted => DeletedAs(q, j, replica[q].rows[j].delVersion)
          /\ replica[q].tombs[j] # NoVersion => DeletedAs(q, j, replica[q].tombs[j])
      BY DEF IInv, HeldInv
    <3> QED BY <1>5, <3>1, <3>2 DEF DeletedAs
  <2>2. CASE q = p /\ j = k /\ KeepsAlive(p, k, row, tomb)
    <3>1. replica[q].tombs[j] # NoVersion => DeletedAs(q, j, replica[q].tombs[j])
      BY DEF IInv, HeldInv
    <3>2. replica'[q].tombs[j] = replica[q].tombs[j]
      BY <1>1, <2>2 DEF KeepsAlive
    <3>3. /\ replica'[q].rows[j].deleted = FALSE
          /\ replica'[q].rows[j].delVersion = NoVersion
      BY <1>1, <2>2 DEF KeepsAlive
    <3> QED BY <1>5, <3>1, <3>2, <3>3 DEF DeletedAs
  <2>3. CASE q = p /\ j = k /\ Removes(k, row, tomb, v)
    BY <1>1, <1>2, <2>3 DEF Removes
  <2> QED BY <1>3, <2>1, <2>2, <2>3
<1> QED BY <1>4, <1>6 DEF HeldInv, DeletedAs

LEMMA WriteZombies ==
  ASSUME IInv, ~ReuseKeys, NEW p \in Peers, NEW k \in Keys, NEW row, NEW tomb,
         WriteStep(p, k, row, tomb)
  PROVE  NoZombies' /\ CollectedInv'
<1>1. /\ \A q \in Peers : q # p => replica'[q] = replica[q]
      /\ \A j \in Keys : replica'[p].rows[j] = IF j = k THEN row ELSE replica[p].rows[j]
  BY WriteEffect
<1>2. /\ \A q \in Peers, j \in Keys : SeenDead(q, j) => SeenDead(q, j)'
      /\ \A q \in Peers, j \in Keys :
           SeenDead(q, j)' => SeenDead(q, j) \/ (q = p /\ j = k /\ row.deleted)
      /\ ~SeenDead(p, k)
  BY WriteSeenDead DEF WriteStep
<1>3. ASSUME NEW q \in Peers, NEW j \in Keys, SeenDead(q, j)'
      PROVE  ~Visible(replica'[q], j)
  <2>1. CASE SeenDead(q, j)
    <3>1. ~Visible(replica[q], j)
      BY <2>1, SeenDeadIsInvisible
    <3>2. replica'[q].rows[j] = replica[q].rows[j]
      BY <1>1, <1>2, <2>1
    <3> QED BY <3>1, <3>2 DEF Visible
  <2>2. CASE q = p /\ j = k /\ row.deleted
    BY <1>1, <2>2 DEF Visible
  <2> QED BY <1>2, <1>3, <2>1, <2>2
<1>4. NoZombies'
  <2>1. TypeOK'
    BY WriteTypeAndClock
  <2>2. \A x \in deletes' : x.key \in Keys
    BY <2>1 DEF TypeOK
  <2> QED BY <1>3, <2>2 DEF NoZombies, SeenDead
<1>5. ASSUME NEW q \in Peers, NEW j \in Keys, SeenDead(q, j)',
             replica'[q].rows[j] = NoRow, NEW a \in Peers
      PROVE  SeenDead(a, j)'
  <2>1. CASE q = p /\ j = k
    <3>1. row.deleted /\ row = NoRow
      BY <1>1, <1>2, <1>5, <2>1
    <3> QED BY <3>1 DEF NoRow
  <2>2. CASE q # p \/ j # k
    <3>1. replica[q].rows[j] = NoRow /\ SeenDead(q, j)
      BY <1>1, <1>2, <1>5, <2>2
    <3> QED BY <1>2, <3>1 DEF IInv, DeadInv, CollectedInv
  <2> QED BY <2>1, <2>2
<1> QED BY <1>4, <1>5 DEF CollectedInv

LEMMA WriteCells ==
  ASSUME IInv, ~ReuseKeys, NEW p \in Peers, NEW k \in Keys, NEW row, NEW tomb,
         WriteStep(p, k, row, tomb)
  PROVE  CellInv'
<1> DEFINE v == NextVersion(replica[p], p)
<1>1. /\ \A q \in Peers : q # p => replica'[q] = replica[q]
      /\ \A j \in Keys : replica'[p].rows[j] = IF j = k THEN row ELSE replica[p].rows[j]
  BY WriteEffect
<1>0. WritesCells(p, k, row, v)
  BY DEF WriteStep
<1>2. /\ \A q \in Peers : \A w :
           Past(replica, w) => (Seen(replica'[q].frontier, w) <=> Seen(replica[q].frontier, w))
      /\ \A q \in Peers : Seen(replica'[q].frontier, v) <=> q = p
      /\ \A q \in Peers, j \in Keys : SeenDead(q, j) => SeenDead(q, j)'
  BY WriteSeen, WriteSeenDead
<1>3. v \in OptVersion /\ ~Past(replica, v)
  BY TickIsFresh, VersionIsOpt
<1>4. ASSUME NEW j \in Keys, NEW c \in Cols
      PROVE  VLess(replica[p].rows[j].cells[c].version, v)
  <2>1. replica[p] \in ReplicaState /\ \A q \in Peers : replica[p].frontier[q] <= replica[p].clock
    BY DEF IInv, TypeOK, ClockInv
  <2>2. Seen(replica[p].frontier, replica[p].rows[j].cells[c].version)
    BY DEF IInv, HeldInv
  <2> QED BY <2>1, <2>2, HeldIsPast, TickIsNewer
<1> HIDE DEF v
<1>5. ASSUME NEW q \in Peers, NEW j \in Keys, NEW c \in Cols
      PROVE  LET old == replica[q].rows[j].cells[c]
                 new == replica'[q].rows[j].cells[c]
             IN  /\ new = old \/ (q = p /\ new.version = v)
                 /\ new.version \in OptVersion
                 /\ VLeq(old.version, new.version)
  <2>1. replica[q].rows[j].cells[c].version \in OptVersion
    BY HeldIsPast
  <2>2. \/ replica'[q].rows[j].cells[c] = replica[q].rows[j].cells[c]
        \/ q = p /\ replica'[q].rows[j].cells[c].version = v
    BY <1>0, <1>1 DEF WritesCells
  <2>3. CASE replica'[q].rows[j].cells[c] = replica[q].rows[j].cells[c]
    BY <2>1, <2>3 DEF VLeq
  <2>4. CASE q = p /\ replica'[q].rows[j].cells[c].version = v
    <3>1. VLess(replica[q].rows[j].cells[c].version, v)
      BY <1>4, <2>4
    <3> QED BY <1>3, <2>4, <3>1 DEF VLeq
  <2> QED BY <2>2, <2>3, <2>4
<1>6. ASSUME NEW a \in Peers, NEW b \in Peers, NEW j \in Keys, NEW c \in Cols
      PROVE  LET mine   == replica'[a].rows[j].cells[c]
                 theirs == replica'[b].rows[j].cells[c]
             IN  /\ Seen(replica'[a].frontier, theirs.version) /\ ~SeenDead(a, j)' =>
                      VLeq(theirs.version, mine.version)
                 /\ mine.version = theirs.version => mine = theirs
  <2> DEFINE mine   == replica'[a].rows[j].cells[c]
             theirs == replica'[b].rows[j].cells[c]
             mine0   == replica[a].rows[j].cells[c]
             theirs0 == replica[b].rows[j].cells[c]
  <2>1. /\ Past(replica, mine0.version) /\ Past(replica, theirs0.version)
        /\ mine0.version \in OptVersion /\ theirs0.version \in OptVersion
    BY HeldIsPast
  <2>2. /\ Seen(replica[a].frontier, theirs0.version) /\ ~SeenDead(a, j) =>
             VLeq(theirs0.version, mine0.version)
        /\ mine0.version = theirs0.version => mine0 = theirs0
    BY DEF IInv, DeadInv, CellInv
  <2>3. /\ mine = mine0 \/ (a = p /\ mine.version = v)
        /\ theirs = theirs0 \/ (b = p /\ theirs.version = v)
        /\ mine.version \in OptVersion
        /\ VLeq(mine0.version, mine.version)
    BY <1>5
  <2>4. a = b => mine = theirs
    OBVIOUS
  <2> HIDE DEF mine, theirs, mine0, theirs0
  <2>5. ASSUME Seen(replica'[a].frontier, theirs.version), ~SeenDead(a, j)'
        PROVE  VLeq(theirs.version, mine.version)
    <3>1. CASE a = b
      BY <2>4, <3>1 DEF VLeq
    <3>2. CASE a # b /\ theirs = theirs0
      <4>1. VLeq(theirs0.version, mine0.version)
        BY <1>2, <2>1, <2>2, <2>5, <3>2
      <4> QED BY <2>1, <2>3, <3>2, <4>1, VLeqTransitive
    <3>3. CASE a # b /\ b = p /\ theirs.version = v
      BY <1>2, <2>5, <3>3
    <3> QED BY <2>3, <3>1, <3>2, <3>3
  <2>6. ASSUME mine.version = theirs.version
        PROVE  mine = theirs
    BY <1>3, <2>1, <2>2, <2>3, <2>4, <2>6
  <2> QED BY <2>5, <2>6 DEF mine, theirs
<1> QED BY <1>6 DEF CellInv

LEMMA WriteStepIInv ==
  ASSUME IInv, NEW p \in Peers, NEW k \in Keys, NEW row, NEW tomb,
         WriteStep(p, k, row, tomb)
  PROVE  IInv'
<1>1. ~ReuseKeys => DeadInv'
  BY WriteZombies, WriteCells DEF DeadInv
<1> QED BY <1>1, WriteTypeAndClock, WriteHeld DEF IInv

-----------------------------------------------------------------------------
(***************************************************************************)
(* The statements are such steps.                                          *)
(***************************************************************************)
LEMMA AssignmentFields ==
  ASSUME NEW vals \in Assignments
  PROVE  DOMAIN vals \subseteq Cols /\ \A c \in DOMAIN vals : vals[c] \in Values
BY DEF Assignments

\* A cell written with a version of this peer is a cell.
LEMMA WrittenCellType ==
  ASSUME NEW v \in Version, NEW vals \in Assignments, NEW old \in [Cols -> Cell]
  PROVE  [c \in Cols |-> IF c \in DOMAIN vals
                         THEN [value |-> vals[c], version |-> v]
                         ELSE old[c]] \in [Cols -> Cell]
BY AssignmentFields DEF Cell

LEMMA InsertIsWrite ==
  ASSUME IInv, NEW p \in Peers, NEW k \in Keys, NEW vals \in Assignments,
         Insert(p, k, vals)
  PROVE  \E row, tomb : WriteStep(p, k, row, tomb)
<1> DEFINE r == replica[p]
           v == NextVersion(r, p)
           row == InsertedRow(v, vals)
<1>1. v \in Version
  BY TickIsFresh
<1>2. (ReuseKeys \/ ~SeenDead(p, k)) /\ ~Visible(r, k)
  BY DEF Insert
<1>3. ReuseKeys \/ r.rows[k] = NoRow
  BY <1>2, NotSeenDead DEF Visible
<1>4. row.cells = [c \in Cols |-> IF c \in DOMAIN vals
                                  THEN [value |-> vals[c], version |-> v]
                                  ELSE NoRow.cells[c]]
  BY NoRowType DEF InsertedRow
<1>5. NoRow.cells \in [Cols -> Cell]
  BY NoRowType DEF Row
<1>6. /\ row.deleted = FALSE
      /\ row.delVersion = NoVersion
      /\ row = [cells |-> row.cells, deleted |-> FALSE, delVersion |-> NoVersion]
  BY DEF InsertedRow
<1> HIDE DEF v
<1>7. row.cells \in [Cols -> Cell]
  <2> HIDE DEF row
  <2> QED BY <1>1, <1>4, <1>5, WrittenCellType
<1>8. WritesCells(p, k, row, v)
  <2>1. \A c \in Cols : NoRow.cells[c] = NoCell
    BY NoRowType
  <2> QED BY <1>3, <1>4, <2>1 DEF WritesCells
<1> HIDE DEF row
<1>9. row \in Row
  BY <1>6, <1>7, VersionIsOpt DEF Row
<1>10. KeepsAlive(p, k, row, r.tombs[k])
  BY <1>6 DEF Insert, KeepsAlive
<1>11. /\ replica' = [replica EXCEPT ![p] = Written(r, p, k, row, r.tombs[k])]
       /\ known' = known
  BY DEF Insert, InsertRow, row, v
<1>12. WriteStep(p, k, row, r.tombs[k])
  BY <1>2, <1>8, <1>9, <1>10, <1>11 DEF WriteStep, v
<1> QED BY <1>12

LEMMA UpdateIsWrite ==
  ASSUME IInv, NEW p \in Peers, NEW k \in Keys, NEW vals \in Assignments,
         Update(p, k, vals)
  PROVE  \E row, tomb : WriteStep(p, k, row, tomb)
<1> DEFINE r == replica[p]
           v == NextVersion(r, p)
           row == UpdatedRow(r.rows[k], v, vals)
<1>1. v \in Version
  BY TickIsFresh
<1>2. Visible(r, k)
  BY DEF Update
<1>3. ReuseKeys \/ ~SeenDead(p, k)
  BY <1>2, SeenDeadIsInvisible
<1>4. /\ r.rows[k].deleted = FALSE
      /\ r.rows[k].delVersion = NoVersion
  <2>1. r.rows[k].deleted \in BOOLEAN
    BY ReplicaOf, RowFields DEF IInv
  <2> QED BY <1>2, <2>1 DEF Visible, IInv, HeldInv
<1>5. row.cells = [c \in Cols |-> IF c \in DOMAIN vals
                                  THEN [value |-> vals[c], version |-> v]
                                  ELSE r.rows[k].cells[c]]
  BY DEF UpdatedRow
<1>6. r.rows[k].cells \in [Cols -> Cell]
  BY ReplicaOf DEF IInv, Row
<1>7. /\ row.deleted = FALSE
      /\ row.delVersion = NoVersion
      /\ row = [cells |-> row.cells, deleted |-> FALSE, delVersion |-> NoVersion]
  BY <1>4 DEF UpdatedRow
<1> HIDE DEF v
<1>8. row.cells \in [Cols -> Cell]
  <2> HIDE DEF row
  <2> QED BY <1>1, <1>5, <1>6, WrittenCellType
<1>9. WritesCells(p, k, row, v)
  BY <1>5 DEF WritesCells
<1> HIDE DEF row
<1>10. row \in Row
  BY <1>7, <1>8, VersionIsOpt DEF Row
<1>11. KeepsAlive(p, k, row, r.tombs[k])
  BY <1>7 DEF Update, KeepsAlive
<1>12. /\ replica' = [replica EXCEPT ![p] = Written(r, p, k, row, r.tombs[k])]
       /\ known' = known
  BY DEF Update, UpdateRow, row, v
<1>13. WriteStep(p, k, row, r.tombs[k])
  BY <1>3, <1>9, <1>10, <1>11, <1>12 DEF WriteStep, v
<1> QED BY <1>13

LEMMA DeleteIsWrite ==
  ASSUME IInv, NEW p \in Peers, NEW k \in Keys, Delete(p, k)
  PROVE  \E row, tomb : WriteStep(p, k, row, tomb)
<1> DEFINE r == replica[p]
           v == NextVersion(r, p)
           row == DeletedRow(r.rows[k], v)
<1>1. v \in Version
  BY TickIsFresh
<1>2. ReuseKeys \/ ~SeenDead(p, k)
  BY SeenDeadIsInvisible DEF Delete
<1>3. /\ row.cells = r.rows[k].cells
      /\ row.deleted = TRUE
      /\ row.delVersion = v
      /\ row = [cells |-> row.cells, deleted |-> TRUE, delVersion |-> v]
  BY DEF DeletedRow
<1>4. r.rows[k].cells \in [Cols -> Cell]
  BY ReplicaOf DEF IInv, Row
<1>5. /\ replica' = [replica EXCEPT ![p] = Written(r, p, k, row, v)]
      /\ known' = known
      /\ deletes' = deletes \cup {[key |-> k, version |-> v]}
  BY DEF Delete, DeleteRow
<1> HIDE DEF row, v
<1>6. row \in Row
  BY <1>1, <1>3, <1>4, VersionIsOpt DEF Row
<1>7. WritesCells(p, k, row, v) /\ Removes(k, row, v, v)
  BY <1>3, <1>5 DEF WritesCells, Removes
<1>8. WriteStep(p, k, row, v)
  BY <1>2, <1>5, <1>6, <1>7 DEF WriteStep, v
<1> QED BY <1>8

-----------------------------------------------------------------------------
(***************************************************************************)
(* Peers that join what others hold: each of them in one sync_peers.       *)
(***************************************************************************)

\* Row new is what a peer with row mine makes of row theirs, of a peer that
\* holds tombstone ts; f is its frontier before.
RowJoined(f, mine, theirs, ts, new) ==
  /\ new.deleted <=> new.delVersion # NoVersion
  /\ \A c \in Cols :
       /\ new.cells[c] \in {mine.cells[c], theirs.cells[c]}
                             \cup {NoCell}
       /\ VLeq(mine.cells[c].version, new.cells[c].version)
       /\ \/ VLeq(theirs.cells[c].version, new.cells[c].version)
          \/ Seen(f, theirs.cells[c].version)
  /\ new.delVersion \in {mine.delVersion, theirs.delVersion, ts, NoVersion}
  /\ mine.deleted => new.deleted
  /\ theirs.deleted => new.deleted \/ Seen(f, theirs.delVersion)
  /\ new = NoRow => mine = NoRow
  /\ mine = NoRow => new = NoRow \/ new.deleted \/ ~theirs.deleted
  /\ mine = NoRow /\ theirs = NoRow => new = NoRow

\* p has joined what q held; an idle peer has joined what itself held.
Joined(p, q) ==
  /\ replica'[p] \in ReplicaState
  /\ replica[p].clock <= replica'[p].clock
  /\ replica'[p].frontier[p] = replica'[p].clock
  /\ \A s \in Peers :
       /\ replica[p].frontier[s] <= replica'[p].frontier[s]
       /\ replica[q].frontier[s] <= replica'[p].frontier[s]
       /\ replica'[p].frontier[s] <= replica'[p].clock
       /\ s # p => replica'[p].frontier[s] \in
                     {replica[p].frontier[s], replica[q].frontier[s]}
  /\ \A k \in Keys :
       /\ replica'[p].tombs[k] \in {replica[p].tombs[k], replica[q].tombs[k], NoVersion}
       /\ replica[p].tombs[k] # NoVersion => replica'[p].tombs[k] # NoVersion
       /\ RowJoined(replica[p].frontier, replica[p].rows[k], replica[q].rows[k],
                    replica[q].tombs[k], replica'[p].rows[k])

\* apply_delta drops no tombstone.
LEMMA ApplyKeepsTombstones ==
  ASSUME NEW r \in ReplicaState, NEW d \in Payload, NEW p, NEW k \in Keys,
         r.tombs[k] # NoVersion
  PROVE  apply_delta(r, p, d).tombs[k] # NoVersion
<1>1. apply_delta(r, p, d).tombs[k] = IF VLess(r.tombs[k], d.tombs[k]) THEN d.tombs[k]
                                      ELSE r.tombs[k]
  BY DEF apply_delta
<1>2. r.tombs[k] \in OptVersion /\ ~VLess(r.tombs[k], NoVersion)
  BY ReplicaFields, NoVersionIsLeast, VersionIsOpt, VLessTransitive, VLessIrreflexive DEF VLeq
<1> QED BY <1>1, <1>2

LEMMA IdleJoins ==
  ASSUME IInv, NEW p \in Peers, replica'[p] = replica[p]
  PROVE  Joined(p, p)
<1>1. /\ replica[p] \in ReplicaState
      /\ replica[p].clock \in Nat
      /\ \A s \in Peers : replica[p].frontier[s] \in Nat
  BY ReplicaOf DEF IInv
<1>2. /\ replica[p].frontier[p] = replica[p].clock
      /\ \A s \in Peers : replica[p].frontier[s] <= replica[p].clock
  BY DEF IInv, ClockInv
<1>3. ASSUME NEW k \in Keys
      PROVE  RowJoined(replica[p].frontier, replica[p].rows[k], replica[p].rows[k],
                       replica[p].tombs[k], replica[p].rows[k])
  BY DEF RowJoined, VLeq, IInv, HeldInv
<1> QED BY <1>1, <1>2, <1>3 DEF Joined

LEMMA SyncedJoins ==
  ASSUME IInv, NEW p \in Peers, NEW q \in Peers,
         replica'[p] = apply_delta(replica[p], p, DeltaFor(q, p))
  PROVE  Joined(p, q)
<1> DEFINE r == replica[p]
           o == replica[q]
           d == DeltaFor(q, p)
           n == replica'[p]
<1>1. /\ r \in ReplicaState /\ o \in ReplicaState
      /\ r.clock \in Nat /\ o.clock \in Nat
      /\ r.frontier \in Frontier /\ o.frontier \in Frontier
      /\ \A k \in Keys : /\ r.rows[k] \in Row /\ o.rows[k] \in Row
                         /\ r.tombs[k] \in OptVersion /\ o.tombs[k] \in OptVersion
  BY ReplicaOf DEF IInv
<1>2. /\ d \in Payload
      /\ d.frontier = o.frontier
      /\ \A k \in Keys :
           /\ d.rows[k] = IF Unseen(o.rows[k], r.frontier) THEN o.rows[k] ELSE NoRow
           /\ d.tombs[k] = IF Seen(r.frontier, o.tombs[k]) THEN NoVersion
                           ELSE o.tombs[k]
  BY <1>1, ExtractType DEF DeltaFor
<1>3. \A s \in Peers : d.frontier[s] <= d.frontier[q] /\ r.frontier[s] <= r.clock
  BY <1>2 DEF IInv, ClockInv
<1>4. n = apply_delta(r, p, d)
  OBVIOUS
<1> HIDE DEF d
<1>5. /\ n.clock \in Nat
      /\ n.frontier \in Frontier
      /\ r.clock <= n.clock
      /\ n.frontier[p] = n.clock
      /\ \A s \in Peers : /\ n.frontier[s] <= n.clock
                          /\ r.frontier[s] <= n.frontier[s]
                          /\ o.frontier[s] <= n.frontier[s]
                          /\ s # p => n.frontier[s] \in {r.frontier[s], o.frontier[s]}
  BY <1>1, <1>2, <1>3, <1>4, ApplyDeltaClock
<1>6. ASSUME NEW k \in Keys
      PROVE  /\ DeletedWithVersion(r.rows[k])
             /\ DeletedWithVersion(o.rows[k])
             /\ DeletedWithVersion(d.rows[k])
  BY <1>2, NoRowType DEF IInv, HeldInv, DeletedWithVersion
<1>7. ASSUME NEW k \in Keys
      PROVE  LET new == n.rows[k]
             IN  /\ new \in Row /\ n.tombs[k] \in OptVersion
                 /\ DeletedWithVersion(new)
                 /\ \A c \in Cols :
                      /\ new.cells[c] \in {r.rows[k].cells[c], d.rows[k].cells[c]}
                      /\ VLeq(r.rows[k].cells[c].version, new.cells[c].version)
                      /\ VLeq(d.rows[k].cells[c].version, new.cells[c].version)
                 /\ new.delVersion \in {r.rows[k].delVersion, d.rows[k].delVersion,
                                        d.tombs[k]}
                 /\ n.tombs[k] \in {r.tombs[k], d.tombs[k]}
                 /\ r.rows[k].deleted \/ d.rows[k].deleted => new.deleted
                 /\ new = NoRow <=> r.rows[k] = NoRow /\ d.rows[k] = NoRow
  <2> HIDE DEF r, o, n
  <2>1. /\ DeletedWithVersion(r.rows[k])
        /\ DeletedWithVersion(d.rows[k])
        /\ r \in ReplicaState /\ d \in Payload
    BY <1>1, <1>2, <1>6
  <2> DEFINE new == apply_delta(r, p, d).rows[k]
             tomb == apply_delta(r, p, d).tombs[k]
  <2>2. n.rows[k] = new /\ n.tombs[k] = tomb
    BY <1>4
  <2>3. /\ new \in Row /\ tomb \in OptVersion
        /\ DeletedWithVersion(new)
        /\ new.delVersion \in {r.rows[k].delVersion, d.rows[k].delVersion, d.tombs[k]}
        /\ tomb \in {r.tombs[k], d.tombs[k]}
        /\ r.rows[k].deleted \/ d.rows[k].deleted => new.deleted
        /\ new = NoRow <=> r.rows[k] = NoRow /\ d.rows[k] = NoRow
    BY <2>1, ApplyDeltaRow
  <2>4. \A c \in Cols :
          /\ new.cells[c] \in {r.rows[k].cells[c], d.rows[k].cells[c]}
          /\ VLeq(r.rows[k].cells[c].version, new.cells[c].version)
          /\ VLeq(d.rows[k].cells[c].version, new.cells[c].version)
    BY <2>1, ApplyDeltaRow
  <2> HIDE DEF new, tomb
  <2> QED BY <2>2, <2>3, <2>4
<1>8. n \in ReplicaState
  <2>1. n = [rows |-> n.rows, tombs |-> n.tombs, clock |-> n.clock,
             frontier |-> n.frontier]
        /\ n.rows = [k \in Keys |-> n.rows[k]]
        /\ n.tombs = [k \in Keys |-> n.tombs[k]]
    BY <1>4 DEF apply_delta
  <2> HIDE DEF n
  <2>2. n.rows \in [Keys -> Row] /\ n.tombs \in [Keys -> OptVersion]
    BY <1>7, <2>1
  <2> QED BY <1>5, <2>1, <2>2 DEF ReplicaState, Tombs
<1>9. ASSUME NEW k \in Keys
      PROVE  RowJoined(r.frontier, r.rows[k], o.rows[k], o.tombs[k], n.rows[k])
  <2> DEFINE new == n.rows[k]
             mine == r.rows[k]
             theirs == o.rows[k]
             sent == d.rows[k]
             ts == d.tombs[k]
  <2>1. /\ DeletedWithVersion(new)
        /\ \A c \in Cols : /\ new.cells[c] \in {mine.cells[c], sent.cells[c]}
                           /\ VLeq(mine.cells[c].version, new.cells[c].version)
                           /\ VLeq(sent.cells[c].version, new.cells[c].version)
        /\ new.delVersion \in {mine.delVersion, sent.delVersion, ts}
        /\ mine.deleted \/ sent.deleted => new.deleted
        /\ new = NoRow <=> mine = NoRow /\ sent = NoRow
    BY <1>7
  <2>2. sent = IF Unseen(theirs, r.frontier) THEN theirs ELSE NoRow
    BY <1>2
  <2>3. ts \in {o.tombs[k], NoVersion}
    BY <1>2
  <2> HIDE DEF new, mine, theirs, sent, ts, r, o, n
  <2>4. CASE sent = theirs
    BY <2>1, <2>3, <2>4 DEF RowJoined, DeletedWithVersion, r, o, new, mine, theirs
  <2>5. CASE sent = NoRow /\ ~Unseen(theirs, r.frontier)
    <3>1. /\ \A c \in Cols : Seen(r.frontier, theirs.cells[c].version)
          /\ Seen(r.frontier, theirs.delVersion)
      BY <2>5 DEF Unseen
    <3>2. /\ \A c \in Cols : sent.cells[c] = NoCell
          /\ sent.delVersion = NoVersion
      BY <2>5, NoRowType
    <3> QED BY <2>1, <2>3, <2>5, <3>1, <3>2
            DEF RowJoined, DeletedWithVersion, new, mine, theirs
  <2> QED BY <2>2, <2>4, <2>5
<1>10. \A k \in Keys : n.tombs[k] \in {r.tombs[k], o.tombs[k], NoVersion}
  BY <1>2, <1>7
<1>11. \A k \in Keys : r.tombs[k] # NoVersion => n.tombs[k] # NoVersion
  BY <1>1, <1>2, <1>4, ApplyKeepsTombstones
<1> HIDE DEF r, o, n
<1> QED BY <1>5, <1>8, <1>9, <1>10, <1>11 DEF Joined, r, o, n

\* Every peer joins what some peer held; no statement runs meanwhile.
JoinStep ==
  /\ replica' \in [Peers -> ReplicaState]
  /\ \A p \in Peers : \E q \in Peers : Joined(p, q)
  /\ UNCHANGED <<known, deletes>>

\* What p has seen after a join is what the two sides had seen.
LEMMA JoinSeen ==
  ASSUME IInv, NEW p \in Peers, NEW q \in Peers, Joined(p, q),
         NEW w, Past(replica, w)
  PROVE  Seen(replica'[p].frontier, w) <=>
           Seen(replica[p].frontier, w) \/ Seen(replica[q].frontier, w)
<1>1. CASE w = NoVersion
  BY <1>1 DEF Seen
<1>2. CASE w # NoVersion
  <2>1. /\ w.peer \in Peers /\ w.counter \in Nat
        /\ w.counter <= replica[w.peer].clock
    BY <1>2 DEF Past, OptVersion, Version
  <2>2. /\ replica[p].frontier[w.peer] \in Nat
        /\ replica[q].frontier[w.peer] \in Nat
        /\ replica[p].frontier[p] = replica[p].clock
    BY <2>1, ReplicaOf DEF IInv, ClockInv
  <2>3. /\ replica[p].frontier[w.peer] <= replica'[p].frontier[w.peer]
        /\ replica[q].frontier[w.peer] <= replica'[p].frontier[w.peer]
        /\ w.peer # p => replica'[p].frontier[w.peer] \in
             {replica[p].frontier[w.peer], replica[q].frontier[w.peer]}
    BY <2>1 DEF Joined
  <2>4. replica'[p].frontier[w.peer] \in Nat
    BY <2>1 DEF Joined, ReplicaState, Frontier
  <2>5. CASE w.peer = p
    BY <1>2, <2>1, <2>2, <2>3, <2>4, <2>5 DEF Seen
  <2>6. CASE w.peer # p
    BY <1>2, <2>1, <2>2, <2>3, <2>4, <2>6 DEF Seen
  <2> QED BY <2>5, <2>6
<1> QED BY <1>1, <1>2

LEMMA JoinSeenDead ==
  ASSUME IInv, JoinStep, NEW p \in Peers, NEW q \in Peers, Joined(p, q),
         NEW k \in Keys
  PROVE  SeenDead(p, k)' <=> SeenDead(p, k) \/ SeenDead(q, k)
<1>1. deletes' = deletes
  BY DEF JoinStep
<1>2. \A x \in deletes : Seen(replica'[p].frontier, x.version) <=>
         Seen(replica[p].frontier, x.version) \/ Seen(replica[q].frontier, x.version)
  BY DeleteIsPast, JoinSeen
<1> QED BY <1>1, <1>2 DEF SeenDead

LEMMA JoinTypeAndClock ==
  ASSUME IInv, JoinStep
  PROVE  TypeOK' /\ ClockInv'
<1>0. TypeOK /\ ClockInv
  BY DEF IInv
<1>1. /\ replica' \in [Peers -> ReplicaState]
      /\ known' = known /\ deletes' = deletes
  BY DEF JoinStep
<1>2. TypeOK'
  BY <1>0, <1>1 DEF TypeOK
<1>3. ASSUME NEW a \in Peers
      PROVE  /\ replica[a].clock \in Nat /\ replica'[a].clock \in Nat
             /\ replica[a].clock <= replica'[a].clock
             /\ replica'[a].frontier[a] = replica'[a].clock
             /\ \A s \in Peers : /\ replica[a].frontier[s] \in Nat
                                 /\ replica'[a].frontier[s] \in Nat
                                 /\ replica[a].frontier[s] <= replica'[a].frontier[s]
                                 /\ replica'[a].frontier[s] <= replica'[a].clock
                                 /\ s # a => replica'[a].frontier[s] <= replica[s].clock
  <2>1. PICK q \in Peers : Joined(a, q)
    BY DEF JoinStep
  <2>2. /\ replica[a].clock \in Nat
        /\ \A s \in Peers : /\ replica[a].frontier[s] \in Nat
                            /\ replica[a].frontier[s] <= replica[s].clock
                            /\ replica[q].frontier[s] <= replica[s].clock
    BY <1>0, ReplicaOf DEF ClockInv
  <2>3. replica'[a].clock \in Nat /\ \A s \in Peers : replica'[a].frontier[s] \in Nat
    BY <2>1 DEF Joined, ReplicaState, Frontier
  <2>4. ASSUME NEW s \in Peers, s # a
        PROVE  replica'[a].frontier[s] <= replica[s].clock
    BY <2>1, <2>2, <2>4 DEF Joined
  <2> QED BY <2>1, <2>2, <2>3, <2>4 DEF Joined
<1>4. ASSUME NEW a \in Peers, NEW q \in Peers
      PROVE  replica'[a].frontier[q] <= replica'[q].clock
  <2>1. CASE q = a
    BY <1>3, <2>1
  <2>2. CASE q # a
    <3>1. replica'[a].frontier[q] <= replica[q].clock
          /\ replica'[a].frontier[q] \in Nat
      BY <1>3, <2>2
    <3>2. /\ replica[q].clock \in Nat /\ replica'[q].clock \in Nat
          /\ replica[q].clock <= replica'[q].clock
      BY <1>3
    <3> QED BY <3>1, <3>2
  <2> QED BY <2>1, <2>2
<1>5. ASSUME NEW a \in Peers, NEW q \in DOMAIN known[a], NEW s \in Peers
      PROVE  known[a][q][s] <= replica'[q].frontier[s]
  <2>1. q \in Peers /\ known[a][q][s] \in Nat
    BY <1>0 DEF TypeOK, Frontier
  <2>2. known[a][q][s] <= replica[q].frontier[s]
    BY <1>0 DEF ClockInv
  <2> QED BY <1>3, <2>1, <2>2
<1>6. ASSUME NEW x \in deletes
      PROVE  x.version.counter <= replica'[x.version.peer].clock
  <2>1. x.version.peer \in Peers /\ x.version.counter \in Nat
    BY <1>0, DeleteFields
  <2>2. x.version.counter <= replica[x.version.peer].clock
    BY <1>0 DEF ClockInv
  <2> QED BY <1>3, <2>1, <2>2
<1>7. ClockInv'
  BY <1>1, <1>3, <1>4, <1>5, <1>6 DEF ClockInv
<1> QED BY <1>2, <1>7

LEMMA JoinHeld ==
  ASSUME IInv, JoinStep
  PROVE  HeldInv'
<1>1. deletes' = deletes
  BY DEF JoinStep
<1>2. ASSUME NEW p \in Peers, NEW k \in Keys
      PROVE  LET new == replica'[p].rows[k]
             IN  /\ \A c \in Cols : Seen(replica'[p].frontier, new.cells[c].version)
                 /\ new.deleted <=> new.delVersion # NoVersion
                 /\ new.deleted => /\ [key |-> k, version |-> new.delVersion] \in deletes
                                   /\ Seen(replica'[p].frontier, new.delVersion)
                 /\ replica'[p].tombs[k] # NoVersion =>
                      /\ [key |-> k, version |-> replica'[p].tombs[k]] \in deletes
                      /\ Seen(replica'[p].frontier, replica'[p].tombs[k])
  <2>1. PICK q \in Peers : Joined(p, q)
    BY DEF JoinStep
  <2> DEFINE new    == replica'[p].rows[k]
             mine   == replica[p].rows[k]
             theirs == replica[q].rows[k]
             ts     == replica'[p].tombs[k]
  <2>2. RowJoined(replica[p].frontier, mine, theirs, replica[q].tombs[k], new)
        /\ ts \in {replica[p].tombs[k], replica[q].tombs[k], NoVersion}
    BY <2>1 DEF Joined
  <2>3. ASSUME NEW c \in Cols
        PROVE  Seen(replica'[p].frontier, new.cells[c].version)
    <3>1. /\ Past(replica, mine.cells[c].version) /\ Past(replica, theirs.cells[c].version)
          /\ Seen(replica[p].frontier, mine.cells[c].version)
          /\ Seen(replica[q].frontier, theirs.cells[c].version)
      BY HeldIsPast DEF IInv, HeldInv
    <3>2. /\ Seen(replica'[p].frontier, mine.cells[c].version)
          /\ Seen(replica'[p].frontier, theirs.cells[c].version)
          /\ Seen(replica'[p].frontier, NoCell.version)
      BY <2>1, <3>1, JoinSeen DEF Seen, NoCell
    <3>3. new.cells[c] \in {mine.cells[c], theirs.cells[c]} \cup {NoCell}
      BY <2>2 DEF RowJoined
    <3> HIDE DEF new, mine, theirs
    <3> QED BY <3>2, <3>3
  <2>4. ASSUME NEW w, w # NoVersion,
               DeletedAs(p, k, w) \/ DeletedAs(q, k, w)
        PROVE  [key |-> k, version |-> w] \in deletes /\ Seen(replica'[p].frontier, w)
    <3>1. [key |-> k, version |-> w] \in deletes
      BY <2>4 DEF DeletedAs
    <3>2. Past(replica, w)
      BY <3>1, DeleteIsPast
    <3> QED BY <2>1, <2>4, <3>1, <3>2, JoinSeen DEF DeletedAs
  <2>5. /\ mine.delVersion # NoVersion => DeletedAs(p, k, mine.delVersion)
        /\ theirs.delVersion # NoVersion => DeletedAs(q, k, theirs.delVersion)
        /\ replica[p].tombs[k] # NoVersion => DeletedAs(p, k, replica[p].tombs[k])
        /\ replica[q].tombs[k] # NoVersion => DeletedAs(q, k, replica[q].tombs[k])
    BY DEF IInv, HeldInv
  <2>6. new.deleted <=> new.delVersion # NoVersion
    BY <2>2 DEF RowJoined
  <2>7. new.delVersion \in {mine.delVersion, theirs.delVersion, replica[q].tombs[k],
                            NoVersion}
    BY <2>2 DEF RowJoined
  <2> HIDE DEF new, mine, theirs, ts
  <2>8. new.deleted => /\ [key |-> k, version |-> new.delVersion] \in deletes
                       /\ Seen(replica'[p].frontier, new.delVersion)
    BY <2>4, <2>5, <2>6, <2>7
  <2>9. ts # NoVersion => /\ [key |-> k, version |-> ts] \in deletes
                          /\ Seen(replica'[p].frontier, ts)
    BY <2>2, <2>4, <2>5
  <2> QED BY <2>3, <2>6, <2>8, <2>9 DEF new, ts
<1> QED BY <1>1, <1>2 DEF HeldInv, DeletedAs

LEMMA JoinZombies ==
  ASSUME IInv, ~ReuseKeys, JoinStep
  PROVE  NoZombies' /\ CollectedInv'
<1>1. ASSUME NEW p \in Peers, NEW k \in Keys, SeenDead(p, k)'
      PROVE  /\ ~Visible(replica'[p], k)
             /\ replica'[p].rows[k] = NoRow => \A a \in Peers : SeenDead(a, k)
  <2>1. PICK q \in Peers : Joined(p, q)
    BY DEF JoinStep
  <2> DEFINE new    == replica'[p].rows[k]
             mine   == replica[p].rows[k]
             theirs == replica[q].rows[k]
  <2>2. RowJoined(replica[p].frontier, mine, theirs, replica[q].tombs[k], new)
    BY <2>1 DEF Joined
  <2>3. SeenDead(p, k) \/ SeenDead(q, k)
    BY <1>1, <2>1, JoinSeenDead
  <2>4. /\ SeenDead(p, k) => mine = NoRow \/ mine.deleted
        /\ SeenDead(q, k) => theirs = NoRow \/ theirs.deleted
    BY SeenDeadIsInvisible DEF Visible
  <2>5. /\ SeenDead(p, k) /\ mine = NoRow => \A a \in Peers : SeenDead(a, k)
        /\ SeenDead(q, k) /\ theirs = NoRow => \A a \in Peers : SeenDead(a, k)
    BY DEF IInv, DeadInv, CollectedInv
  \* A peer that has not seen the delete has not seen the deleted row either.
  <2>6. ~SeenDead(p, k) /\ theirs.deleted => ~Seen(replica[p].frontier, theirs.delVersion)
    <3>1. theirs.deleted => [key |-> k, version |-> theirs.delVersion] \in deletes
      BY DEF IInv, HeldInv, DeletedAs
    <3> HIDE DEF theirs
    <3> QED BY <3>1 DEF SeenDead
  <2>7. /\ mine.deleted => new.deleted
        /\ theirs.deleted => new.deleted \/ Seen(replica[p].frontier, theirs.delVersion)
        /\ new = NoRow => mine = NoRow
        /\ mine = NoRow => new = NoRow \/ new.deleted \/ ~theirs.deleted
        /\ mine = NoRow /\ theirs = NoRow => new = NoRow
    BY <2>2 DEF RowJoined
  <2>8. NoRow.deleted = FALSE
    BY DEF NoRow
  <2> HIDE DEF mine, theirs, new
  <2>9. new = NoRow \/ new.deleted
    BY <2>3, <2>4, <2>5, <2>6, <2>7
  <2>10. new = NoRow => \A a \in Peers : SeenDead(a, k)
    BY <2>3, <2>4, <2>5, <2>6, <2>7, <2>8
  <2> QED BY <2>9, <2>10 DEF Visible, new
<1>2. NoZombies'
  <2>1. TypeOK'
    BY JoinTypeAndClock
  <2>2. \A x \in deletes' : x.key \in Keys
    BY <2>1 DEF TypeOK
  <2> QED BY <1>1, <2>2 DEF NoZombies, SeenDead
<1>3. ASSUME NEW a \in Peers, NEW k \in Keys, SeenDead(a, k)
      PROVE  SeenDead(a, k)'
  BY <1>3, JoinSeenDead DEF JoinStep
<1>4. CollectedInv'
  BY <1>1, <1>3 DEF CollectedInv
<1> QED BY <1>2, <1>4

\* After a join every cell is one that some peer held, or none.
LEMMA JoinCellOrigin ==
  ASSUME IInv, JoinStep, NEW p \in Peers, NEW k \in Keys, NEW c \in Cols
  PROVE  \/ replica'[p].rows[k].cells[c] = NoCell
         \/ \E y \in Peers : replica'[p].rows[k].cells[c] = replica[y].rows[k].cells[c]
<1>1. PICK q \in Peers : Joined(p, q)
  BY DEF JoinStep
<1>2. replica'[p].rows[k].cells[c] \in
        {replica[p].rows[k].cells[c], replica[q].rows[k].cells[c]} \cup {NoCell}
  BY <1>1 DEF Joined, RowJoined
<1> QED BY <1>2

\* Of a row it has not seen deleted, a joining peer takes cells at least as
\* new as those of either side.
LEMMA JoinCellIsNewer ==
  ASSUME IInv, ~ReuseKeys, JoinStep, NEW p \in Peers, NEW q \in Peers, Joined(p, q),
         NEW k \in Keys, NEW c \in Cols, ~SeenDead(p, k)
  PROVE  /\ VLeq(replica[p].rows[k].cells[c].version, replica'[p].rows[k].cells[c].version)
         /\ VLeq(replica[q].rows[k].cells[c].version, replica'[p].rows[k].cells[c].version)
<1> DEFINE new    == replica'[p].rows[k].cells[c].version
           mine   == replica[p].rows[k].cells[c].version
           theirs == replica[q].rows[k].cells[c].version
<1>1. mine \in OptVersion /\ theirs \in OptVersion
  BY HeldIsPast
<1>2. new \in OptVersion
  BY JoinCellOrigin, HeldIsPast, VersionIsOpt DEF NoCell
<1>3. VLeq(mine, new) /\ (VLeq(theirs, new) \/ Seen(replica[p].frontier, theirs))
  BY DEF Joined, RowJoined
<1>4. Seen(replica[p].frontier, theirs) => VLeq(theirs, mine)
  BY DEF IInv, DeadInv, CellInv
<1> HIDE DEF mine, theirs, new
<1>5. VLeq(theirs, new)
  BY <1>1, <1>2, <1>3, <1>4, VLeqTransitive
<1> QED BY <1>3, <1>5 DEF mine, theirs, new

LEMMA JoinCells ==
  ASSUME IInv, ~ReuseKeys, JoinStep
  PROVE  CellInv'
<1>1. ASSUME NEW a \in Peers, NEW b \in Peers, NEW j \in Keys, NEW c \in Cols
      PROVE  LET mine   == replica'[a].rows[j].cells[c]
                 theirs == replica'[b].rows[j].cells[c]
             IN  /\ Seen(replica'[a].frontier, theirs.version) /\ ~SeenDead(a, j)' =>
                      VLeq(theirs.version, mine.version)
                 /\ mine.version = theirs.version => mine = theirs
  <2> DEFINE mine   == replica'[a].rows[j].cells[c]
             theirs == replica'[b].rows[j].cells[c]
             held(y) == replica[y].rows[j].cells[c]
  <2>1. /\ mine = NoCell \/ \E y \in Peers : mine = held(y)
        /\ theirs = NoCell \/ \E y \in Peers : theirs = held(y)
    BY JoinCellOrigin
  <2>2. \A y \in Peers : /\ held(y) \in Cell /\ held(y).version \in OptVersion
                         /\ Past(replica, held(y).version)
    BY HeldIsPast, ReplicaOf DEF IInv
  <2>3. \A y, z \in Peers :
          /\ Seen(replica[y].frontier, held(z).version) /\ ~SeenDead(y, j) =>
               VLeq(held(z).version, held(y).version)
          /\ held(y).version = held(z).version => held(y) = held(z)
    BY DEF IInv, DeadInv, CellInv
  <2>4. PICK q \in Peers : Joined(a, q)
    BY DEF JoinStep
  <2>5. SeenDead(a, j)' <=> SeenDead(a, j) \/ SeenDead(q, j)
    BY <2>4, JoinSeenDead
  <2>6. ~SeenDead(a, j) => /\ VLeq(held(a).version, mine.version)
                           /\ VLeq(held(q).version, mine.version)
    BY <2>4, JoinCellIsNewer
  <2>7. /\ \A w : Past(replica, w) => (Seen(replica'[a].frontier, w) <=>
             Seen(replica[a].frontier, w) \/ Seen(replica[q].frontier, w))
        /\ NoCell.version = NoVersion /\ NoCell \in Cell
    BY <2>4, JoinSeen DEF NoCell, Cell
  <2> HIDE DEF mine, theirs, held
  <2>8. mine \in Cell /\ theirs \in Cell
        /\ mine.version \in OptVersion /\ theirs.version \in OptVersion
    BY <2>1, <2>2, <2>7, CellVersion
  <2>9. ASSUME Seen(replica'[a].frontier, theirs.version), ~SeenDead(a, j)'
        PROVE  VLeq(theirs.version, mine.version)
    <3>1. CASE theirs = NoCell
      BY <2>7, <2>8, <3>1, NoVersionIsLeast
    <3>2. ASSUME NEW y \in Peers, theirs = held(y)
          PROVE  VLeq(theirs.version, mine.version)
      <4>1. \/ Seen(replica[a].frontier, held(y).version)
            \/ Seen(replica[q].frontier, held(y).version)
        BY <2>2, <2>7, <2>9, <3>2
      <4>2. \/ VLeq(held(y).version, held(a).version)
            \/ VLeq(held(y).version, held(q).version)
        BY <2>3, <2>5, <2>9, <4>1
      <4>3. VLeq(held(a).version, mine.version) /\ VLeq(held(q).version, mine.version)
        BY <2>5, <2>6, <2>9
      <4> QED BY <2>2, <2>8, <3>2, <4>2, <4>3, VLeqTransitive
    <3> QED BY <2>1, <3>1, <3>2
  <2>10. ASSUME mine.version = theirs.version
         PROVE  mine = theirs
    BY <2>1, <2>2, <2>3, <2>7, <2>8, <2>10, CellVersion
  <2> QED BY <2>9, <2>10 DEF mine, theirs
<1> QED BY <1>1 DEF CellInv

LEMMA JoinStepIInv ==
  ASSUME IInv, JoinStep
  PROVE  IInv'
<1>1. ~ReuseKeys => DeadInv'
  BY JoinZombies, JoinCells DEF DeadInv
<1> QED BY <1>1, JoinTypeAndClock, JoinHeld DEF IInv

\* sync_peers is such a step: both deltas are extracted before either is
\* applied.
LEMMA SyncPeersJoins ==
  ASSUME IInv, NEW a \in Peers, NEW b \in Peers, SyncPeers(a, b)
  PROVE  JoinStep
<1>1. replica \in [Peers -> ReplicaState]
  BY DEF IInv, TypeOK
<1>2. /\ a # b
      /\ UNCHANGED <<known, deletes>>
      /\ replica' = [replica EXCEPT ![b] = apply_delta(@, b, DeltaFor(a, b)),
                                    ![a] = apply_delta(@, a, DeltaFor(b, a))]
  BY DEF SyncPeers
<1>3. /\ DOMAIN replica' = Peers
      /\ replica' = [p \in Peers |-> replica'[p]]
      /\ replica'[a] = apply_delta(replica[a], a, DeltaFor(b, a))
      /\ replica'[b] = apply_delta(replica[b], b, DeltaFor(a, b))
      /\ \A p \in Peers : p # a /\ p # b => replica'[p] = replica[p]
  BY <1>1, <1>2
<1>4. ASSUME NEW p \in Peers
      PROVE  \E q \in Peers : Joined(p, q)
  <2>1. CASE p = a
    BY <1>3, <2>1, SyncedJoins
  <2>2. CASE p = b
    BY <1>3, <2>2, SyncedJoins
  <2>3. CASE p # a /\ p # b
    BY <1>3, <2>3, IdleJoins
  <2> QED BY <2>1, <2>2, <2>3
<1>5. replica' \in [Peers -> ReplicaState]
  BY <1>3, <1>4 DEF Joined
<1> QED BY <1>2, <1>4, <1>5 DEF JoinStep

-----------------------------------------------------------------------------
(***************************************************************************)
(* Learning a frontier and collecting.                                     *)
(***************************************************************************)
LEMMA LearnFrontierStep ==
  ASSUME IInv, NEW p \in Peers, NEW q \in Peers, LearnFrontier(p, q)
  PROVE  IInv'
<1> DEFINE f == replica[q].frontier
           new == update_peer_frontier(known[p], q, f)
<1>0. TypeOK /\ ClockInv
  BY DEF IInv
<1>1. /\ DOMAIN known = Peers
      /\ replica' = replica /\ deletes' = deletes
      /\ known' = [known EXCEPT ![p] = new]
  BY <1>0 DEF LearnFrontier, TypeOK
<1>2. /\ DOMAIN known' = Peers
      /\ known'[p] = new
      /\ \A a \in Peers : a # p => known'[a] = known[a]
  BY <1>1
<1>3. f \in Frontier
  BY <1>0, ReplicaOf
<1>4. /\ DOMAIN known[p] \subseteq Peers
      /\ known[p] \in [DOMAIN known[p] -> Frontier]
  BY <1>0 DEF TypeOK
<1>5. new = [s \in DOMAIN known[p] \cup {q} |->
               IF s # q THEN known[p][s]
               ELSE IF q \in DOMAIN known[p] THEN merge_frontiers(known[p][q], f) ELSE f]
  BY DEF update_peer_frontier
<1>6. q \in DOMAIN known[p] =>
        /\ merge_frontiers(known[p][q], f) \in Frontier
        /\ \A s \in Peers : merge_frontiers(known[p][q], f)[s] \in {known[p][q][s], f[s]}
  BY <1>3, <1>4, MergeFrontiers
<1>7. \A s \in DOMAIN known[p] : \A t \in Peers :
        known[p][s][t] <= replica[s].frontier[t]
  BY <1>0 DEF ClockInv
<1>8. \A t \in Peers : f[t] \in Nat
  BY <1>3 DEF Frontier
<1> HIDE DEF new, f
<1>9. /\ DOMAIN new \subseteq Peers
      /\ new \in [DOMAIN new -> Frontier]
  BY <1>3, <1>4, <1>5, <1>6
<1>10. ASSUME NEW s \in DOMAIN new, NEW t \in Peers
       PROVE  new[s][t] <= replica[s].frontier[t]
  <2>1. CASE s # q
    <3>1. s \in DOMAIN known[p] /\ new[s] = known[p][s]
      BY <1>5, <2>1
    <3> QED BY <1>7, <3>1
  <2>2. CASE s = q
    <3>1. new[s][t] = f[t] \/ (s \in DOMAIN known[p] /\ new[s][t] = known[p][s][t])
      BY <1>5, <1>6, <2>2
    <3> QED BY <1>7, <1>8, <2>2, <3>1 DEF f
  <2> QED BY <2>1, <2>2
<1>11. TypeOK'
  BY <1>0, <1>1, <1>2, <1>9 DEF TypeOK
<1>12. ClockInv'
  BY <1>0, <1>1, <1>2, <1>10 DEF ClockInv
<1>13. HeldInv'
  BY <1>1 DEF IInv, HeldInv, DeletedAs
<1>14. ~ReuseKeys => DeadInv'
  BY <1>1 DEF IInv, DeadInv, NoZombies, CollectedInv, CellInv, SeenDead
<1> QED BY <1>11, <1>12, <1>13, <1>14 DEF IInv

\* global_min_frontier of a full registry is below every peer's frontier.
LEMMA GlobalMinIsSeen ==
  ASSUME IInv, NEW p \in Peers, DOMAIN known[p] = Peers,
         NEW s \in Peers, NEW q \in Peers
  PROVE  /\ global_min_frontier(known[p])[s] \in Nat
         /\ global_min_frontier(known[p])[s] <= replica[q].frontier[s]
<1> DEFINE S == {known[p][a][s] : a \in DOMAIN known[p]}
<1>1. \A a \in Peers : known[p][a][s] \in Nat /\ known[p][a][s] <= replica[a].frontier[s]
  BY DEF IInv, TypeOK, ClockInv, Frontier
<1>2. S \subseteq Nat /\ known[p][q][s] \in S
  BY <1>1
<1>3. global_min_frontier(known[p])[s] = Min(S)
  BY DEF global_min_frontier
<1>4. Min(S) \in S /\ Min(S) <= known[p][q][s]
  <2> HIDE DEF S
  <2>1. S \in SUBSET Nat /\ S # {}
    BY <1>2
  <2>2. Min(S) \in S /\ \A y \in S : Min(S) <= y
    BY <2>1, MinIsLeast
  <2> QED BY <1>2, <2>2
<1>5. replica[q].frontier[s] \in Nat
  BY ReplicaOf DEF IInv
<1>6. known[p][q][s] \in Nat /\ known[p][q][s] <= replica[q].frontier[s]
  BY <1>1
<1>7. Min(S) \in Nat
  BY <1>2, <1>4
<1> HIDE DEF S
<1> QED BY <1>3, <1>4, <1>5, <1>6, <1>7

\* A stable tombstone's delete has reached every peer.
LEMMA StableIsSeen ==
  ASSUME IInv, NEW p \in Peers, DOMAIN known[p] = Peers,
         NEW k \in Stable(replica[p], global_min_frontier(known[p])), NEW q \in Peers
  PROVE  k \in Keys /\ Seen(replica[q].frontier, replica[p].tombs[k]) /\ SeenDead(q, k)
<1> DEFINE f == global_min_frontier(known[p])
           v == replica[p].tombs[k]
<1>1. /\ k \in Keys /\ v # NoVersion
      /\ frontier_dominates(f, frontier_update(EmptyFrontier, v.peer, v.counter))
  BY DEF Stable, is_tombstone_stable
<1>2. [key |-> k, version |-> v] \in deletes
  BY <1>1 DEF IInv, HeldInv, DeletedAs
<1>3. v \in Version
  BY <1>2, DeleteFields DEF IInv
<1>4. v.peer \in Peers /\ v.counter \in Nat
  BY <1>3 DEF Version
<1> HIDE DEF v
<1>5. frontier_update(EmptyFrontier, v.peer, v.counter)[v.peer] = v.counter
  BY <1>4 DEF frontier_update, EmptyFrontier
<1>6. f[v.peer] >= v.counter
  BY <1>1, <1>4, <1>5 DEF frontier_dominates
<1>7. f[v.peer] \in Nat /\ f[v.peer] <= replica[q].frontier[v.peer]
      /\ replica[q].frontier[v.peer] \in Nat
  BY <1>4, GlobalMinIsSeen, ReplicaOf DEF IInv
<1> HIDE DEF f
<1>8. Seen(replica[q].frontier, v)
  BY <1>4, <1>6, <1>7 DEF Seen
<1> QED BY <1>1, <1>2, <1>8 DEF SeenDead, v

\* run_gc drops the stable rows and tombstones and touches nothing else.
LEMMA RunGcFields ==
  ASSUME NEW r \in ReplicaState, NEW f
  PROVE  /\ run_gc(r, f).rows  = [k \in Keys |-> IF k \in Stable(r, f) THEN NoRow
                                                 ELSE r.rows[k]]
         /\ run_gc(r, f).tombs = [k \in Keys |-> IF k \in Stable(r, f) THEN NoVersion
                                                 ELSE r.tombs[k]]
         /\ run_gc(r, f).clock = r.clock
         /\ run_gc(r, f).frontier = r.frontier
         /\ run_gc(r, f) \in ReplicaState
<1> DEFINE A == [k \in Keys |-> IF k \in Stable(r, f) THEN NoRow ELSE r.rows[k]]
           B == [k \in Keys |-> IF k \in Stable(r, f) THEN NoVersion ELSE r.tombs[k]]
<1>1. A \in [Keys -> Row] /\ B \in [Keys -> OptVersion]
  BY ReplicaFields, NoRowType, VersionIsOpt
<1>2. run_gc(r, f) = [r EXCEPT !.rows = A, !.tombs = B]
  BY DEF run_gc
<1> HIDE DEF A, B
<1>3. /\ run_gc(r, f).rows = A
      /\ run_gc(r, f).tombs = B
      /\ run_gc(r, f).clock = r.clock
      /\ run_gc(r, f).frontier = r.frontier
  BY <1>2 DEF ReplicaState
<1>4. run_gc(r, f) \in ReplicaState
  BY <1>1, <1>2 DEF ReplicaState, Tombs
<1> QED BY <1>3, <1>4 DEF A, B

\* What a collection leaves: everything but rows that every peer has seen
\* deleted.
LEMMA CollectEffect ==
  ASSUME IInv, NEW p \in Peers, Collect(p)
  PROVE  /\ replica' \in [Peers -> ReplicaState]
         /\ known' = known /\ deletes' = deletes
         /\ \A q \in Peers :
              /\ replica'[q].clock = replica[q].clock
              /\ replica'[q].frontier = replica[q].frontier
              /\ \A k \in Keys :
                   \/ /\ replica'[q].rows[k] = replica[q].rows[k]
                      /\ replica'[q].tombs[k] = replica[q].tombs[k]
                   \/ /\ replica'[q].rows[k] = NoRow
                      /\ replica'[q].tombs[k] = NoVersion
                      /\ \A a \in Peers : SeenDead(a, k)
                      /\ \A a \in Peers : Seen(replica[a].frontier, replica[q].tombs[k])
<1> DEFINE r == replica[p]
           f == global_min_frontier(known[p])
           n == run_gc(r, f)
<1>1. /\ replica' = [replica EXCEPT ![p] = n]
      /\ known' = known /\ deletes' = deletes
      /\ DOMAIN known[p] = Peers
  BY DEF Collect
<1>2. replica \in [Peers -> ReplicaState] /\ r \in ReplicaState
  BY DEF IInv, TypeOK
<1>3. \A k \in Stable(r, f) : \A a \in Peers :
        SeenDead(a, k) /\ Seen(replica[a].frontier, r.tombs[k])
  BY <1>1, StableIsSeen
<1> HIDE DEF f
<1>4. /\ n.rows = [k \in Keys |-> IF k \in Stable(r, f) THEN NoRow ELSE r.rows[k]]
      /\ n.tombs = [k \in Keys |-> IF k \in Stable(r, f) THEN NoVersion ELSE r.tombs[k]]
      /\ n.clock = r.clock /\ n.frontier = r.frontier
      /\ n \in ReplicaState
  BY <1>2, RunGcFields
<1> HIDE DEF n
<1>5. /\ replica' \in [Peers -> ReplicaState]
      /\ replica'[p] = n
      /\ \A q \in Peers : q # p => replica'[q] = replica[q]
  BY <1>1, <1>2, <1>4
<1> QED BY <1>1, <1>3, <1>4, <1>5

LEMMA CollectStep ==
  ASSUME IInv, NEW p \in Peers, Collect(p)
  PROVE  IInv'
<1>0. TypeOK /\ ClockInv /\ HeldInv
  BY DEF IInv
<1>1. /\ replica' \in [Peers -> ReplicaState]
      /\ known' = known /\ deletes' = deletes
  BY CollectEffect
<1>2. \A q \in Peers : /\ replica'[q].clock = replica[q].clock
                       /\ replica'[q].frontier = replica[q].frontier
  BY CollectEffect
<1>3. ASSUME NEW q \in Peers, NEW k \in Keys
      PROVE  \/ /\ replica'[q].rows[k] = replica[q].rows[k]
                /\ replica'[q].tombs[k] = replica[q].tombs[k]
             \/ /\ replica'[q].rows[k] = NoRow
                /\ replica'[q].tombs[k] = NoVersion
                /\ \A a \in Peers : SeenDead(a, k)
  BY CollectEffect
<1>4. \A q \in Peers, k \in Keys : SeenDead(q, k)' <=> SeenDead(q, k)
  BY <1>1, <1>2 DEF SeenDead
<1>5. TypeOK'
  BY <1>0, <1>1 DEF TypeOK
<1>6. ClockInv'
  <2>1. \A q \in DOMAIN known : DOMAIN known[q] \subseteq Peers
    BY <1>0 DEF TypeOK
  <2>2. \A x \in deletes : x.version.peer \in Peers
    BY <1>0, DeleteFields
  <2>3. DOMAIN known = Peers
    BY <1>0 DEF TypeOK
  <2> QED BY <1>0, <1>1, <1>2, <2>1, <2>2, <2>3 DEF ClockInv
<1>7. HeldInv'
  <2>1. ASSUME NEW q \in Peers, NEW k \in Keys
        PROVE  /\ \A c \in Cols : Seen(replica'[q].frontier, replica'[q].rows[k].cells[c].version)
               /\ replica'[q].rows[k].deleted <=> replica'[q].rows[k].delVersion # NoVersion
               /\ replica'[q].rows[k].deleted =>
                    DeletedAs(q, k, replica'[q].rows[k].delVersion)
               /\ replica'[q].tombs[k] # NoVersion => DeletedAs(q, k, replica'[q].tombs[k])
    <3>1. /\ \A c \in Cols : Seen(replica[q].frontier, replica[q].rows[k].cells[c].version)
          /\ replica[q].rows[k].deleted <=> replica[q].rows[k].delVersion # NoVersion
          /\ replica[q].rows[k].deleted => DeletedAs(q, k, replica[q].rows[k].delVersion)
          /\ replica[q].tombs[k] # NoVersion => DeletedAs(q, k, replica[q].tombs[k])
      BY <1>0 DEF HeldInv
    <3>2. CASE /\ replica'[q].rows[k] = replica[q].rows[k]
               /\ replica'[q].tombs[k] = replica[q].tombs[k]
      BY <1>2, <3>1, <3>2
    <3>3. CASE replica'[q].rows[k] = NoRow /\ replica'[q].tombs[k] = NoVersion
      BY <3>3, NoRowType DEF Seen, NoCell, DeletedWithVersion, NoRow
    <3> QED BY <1>3, <3>2, <3>3
  <2> QED BY <1>1, <1>2, <2>1 DEF HeldInv, DeletedAs
<1>8. ASSUME ~ReuseKeys PROVE NoZombies'
  <2>1. ASSUME NEW q \in Peers, NEW k \in Keys, SeenDead(q, k)
        PROVE  ~Visible(replica'[q], k)
    BY <1>3, <1>8, <2>1, SeenDeadIsInvisible DEF Visible
  <2>2. \A x \in deletes : x.key \in Keys
    BY <1>0, DeleteFields
  <2> QED BY <1>1, <1>2, <2>1, <2>2 DEF NoZombies, SeenDead
<1>9. ASSUME ~ReuseKeys PROVE CollectedInv'
  <2>1. ASSUME NEW q \in Peers, NEW k \in Keys, SeenDead(q, k),
               replica'[q].rows[k] = NoRow, NEW a \in Peers
        PROVE  SeenDead(a, k)
    BY <1>3, <1>9, <2>1 DEF IInv, DeadInv, CollectedInv
  <2> QED BY <1>4, <2>1 DEF CollectedInv
<1>10. ASSUME ~ReuseKeys PROVE CellInv'
  <2>1. ASSUME NEW a \in Peers, NEW b \in Peers, NEW k \in Keys, NEW c \in Cols
        PROVE  LET mine   == replica'[a].rows[k].cells[c]
                   theirs == replica'[b].rows[k].cells[c]
               IN  /\ Seen(replica[a].frontier, theirs.version) /\ ~SeenDead(a, k) =>
                        VLeq(theirs.version, mine.version)
                   /\ mine.version = theirs.version => mine = theirs
    <3> DEFINE mine   == replica'[a].rows[k].cells[c]
               theirs == replica'[b].rows[k].cells[c]
               mine0   == replica[a].rows[k].cells[c]
               theirs0 == replica[b].rows[k].cells[c]
    <3>1. /\ Seen(replica[a].frontier, theirs0.version) /\ ~SeenDead(a, k) =>
               VLeq(theirs0.version, mine0.version)
          /\ mine0.version = theirs0.version => mine0 = theirs0
      BY <1>10 DEF IInv, DeadInv, CellInv
    <3>2. mine0 \in Cell /\ theirs0 \in Cell
          /\ mine0.version \in OptVersion /\ theirs0.version \in OptVersion
      BY <1>0, ReplicaOf, CellVersion
    <3>3. /\ mine = mine0 \/ (mine = NoCell /\ SeenDead(a, k))
          /\ theirs = theirs0 \/ (theirs = NoCell /\ SeenDead(a, k))
      BY <1>3, NoRowType
    <3>4. NoCell.version = NoVersion /\ NoCell \in Cell
      BY DEF NoCell, Cell
    <3> HIDE DEF mine, theirs, mine0, theirs0
    <3>5. Seen(replica[a].frontier, theirs.version) /\ ~SeenDead(a, k) =>
            VLeq(theirs.version, mine.version)
      BY <3>1, <3>3
    <3>6. mine.version = theirs.version => mine = theirs
      BY <3>1, <3>2, <3>3, <3>4, CellVersion
    <3> QED BY <3>5, <3>6 DEF mine, theirs
  <2> QED BY <1>2, <1>4, <2>1 DEF CellInv
<1> QED BY <1>5, <1>6, <1>7, <1>8, <1>9, <1>10 DEF IInv, DeadInv

-----------------------------------------------------------------------------
(***************************************************************************)
(* The theorems.                                                           *)
(***************************************************************************)

LEMMA NextIInv ==
  ASSUME IInv, [Next]_vars
  PROVE  IInv'
<1>1. ASSUME NEW p \in Peers, NEW k \in Keys, NEW vals \in Assignments,
             Insert(p, k, vals)
      PROVE  IInv'
  BY <1>1, InsertIsWrite, WriteStepIInv
<1>2. ASSUME NEW p \in Peers, NEW k \in Keys, NEW vals \in Assignments,
             Update(p, k, vals)
      PROVE  IInv'
  BY <1>2, UpdateIsWrite, WriteStepIInv
<1>3. ASSUME NEW p \in Peers, NEW k \in Keys, Delete(p, k)
      PROVE  IInv'
  BY <1>3, DeleteIsWrite, WriteStepIInv
<1>4. ASSUME NEW a \in Peers, NEW b \in Peers, SyncPeers(a, b)
      PROVE  IInv'
  BY <1>4, SyncPeersJoins, JoinStepIInv
<1>5. ASSUME NEW p \in Collectors, NEW q \in Peers, LearnFrontier(p, q)
      PROVE  IInv'
  BY <1>5, GcAssumption, LearnFrontierStep
<1>6. ASSUME NEW p \in Collectors, Collect(p)
      PROVE  IInv'
  BY <1>6, GcAssumption, CollectStep
<1>7. CASE UNCHANGED vars
  BY <1>7 DEF vars, IInv, TypeOK, ClockInv, HeldInv, DeletedAs, DeadInv, NoZombies,
              CollectedInv, CellInv, SeenDead
<1> QED BY <1>1, <1>2, <1>3, <1>4, <1>5, <1>6, <1>7 DEF Next

\* The inductive invariant of garbage collection holds, whatever the peers,
\* keys, columns, values, bounds, writers and collectors, and also when clients
\* reuse keys.
THEOREM Invariance == Spec => []IInv
<1>1. IInv /\ [Next]_vars => IInv'
  BY NextIInv
<1> QED BY InitIInv, <1>1, PTL DEF Spec

\* The state of every replica and every registry keeps its type (run_gc,
\* update_peer_frontier and the delta functions).
THEOREM TypeCorrect == Spec => []TypeOK
<1>1. IInv => TypeOK
  BY DEF IInv
<1> QED BY <1>1, Invariance, PTL

\* No statement and no sync drops a tombstone.
LEMMA WriteKeepsTombstones ==
  ASSUME IInv, NEW p \in Peers, NEW k \in Keys, NEW row, NEW tomb,
         WriteStep(p, k, row, tomb), NEW q \in Peers, NEW j \in Keys,
         replica[q].tombs[j] # NoVersion
  PROVE  replica'[q].tombs[j] # NoVersion
<1>1. tomb = replica[p].tombs[k] \/ tomb # NoVersion
  BY TickIsFresh DEF WriteStep, KeepsAlive, Removes
<1>2. CASE q # p
  BY <1>2, WriteEffect
<1>3. CASE q = p
  BY <1>1, <1>3, WriteEffect
<1> QED BY <1>2, <1>3

LEMMA JoinKeepsTombstones ==
  ASSUME JoinStep, NEW p \in Peers, NEW k \in Keys, replica[p].tombs[k] # NoVersion
  PROVE  replica'[p].tombs[k] # NoVersion
BY DEF JoinStep, Joined

\* run_gc keeps its safety invariant: whatever a collector knew, and whatever
\* the clients do, every peer has seen the delete of a tombstone that goes
\* (run_gc, global_min_frontier).
THEOREM CollectsOnlyWhatAllHaveSeenHolds == Spec => CollectsOnlyWhatAllHaveSeen
<1> DEFINE A(p, k) == replica[p].tombs[k] # NoVersion /\ replica'[p].tombs[k] = NoVersion =>
                        \A q \in Peers : Seen(replica[q].frontier, replica[p].tombs[k])
<1>1. ASSUME IInv, [Next]_vars, NEW p \in Peers, NEW k \in Keys
      PROVE  A(p, k)
  <2>1. ASSUME NEW q \in Peers, NEW j \in Keys, NEW vals \in Assignments,
               Insert(q, j, vals)
        PROVE  A(p, k)
    BY <1>1, <2>1, InsertIsWrite, WriteKeepsTombstones
  <2>2. ASSUME NEW q \in Peers, NEW j \in Keys, NEW vals \in Assignments,
               Update(q, j, vals)
        PROVE  A(p, k)
    BY <1>1, <2>2, UpdateIsWrite, WriteKeepsTombstones
  <2>3. ASSUME NEW q \in Peers, NEW j \in Keys, Delete(q, j)
        PROVE  A(p, k)
    BY <1>1, <2>3, DeleteIsWrite, WriteKeepsTombstones
  <2>4. ASSUME NEW a \in Peers, NEW b \in Peers, SyncPeers(a, b)
        PROVE  A(p, k)
    BY <1>1, <2>4, SyncPeersJoins, JoinKeepsTombstones
  <2>5. ASSUME NEW q \in Collectors, Collect(q)
        PROVE  A(p, k)
    BY <1>1, <2>5, GcAssumption, CollectEffect
  <2>6. CASE replica' = replica
    BY <2>6
  <2> QED BY <1>1, <2>1, <2>2, <2>3, <2>4, <2>5, <2>6 DEF Next, LearnFrontier, vars
<1>2. IInv /\ [Next]_vars => [\A p \in Peers, k \in Keys : A(p, k)]_vars
  BY <1>1
<1> QED BY <1>2, Invariance, PTL DEF CollectsOnlyWhatAllHaveSeen, Spec

\* run_gc keeps its promise, "this prevents zombie rows": a peer that has seen
\* a delete never shows the row again, whoever collected it when, as long as
\* clients reuse no key.
THEOREM NoZombiesHolds ==
  ASSUME ~ReuseKeys
  PROVE  Spec => []NoZombies
<1>1. IInv => NoZombies
  BY DEF IInv, DeadInv
<1> QED BY <1>1, Invariance, PTL

\* For clients that reuse no key, run_gc collects no row that a reader can see
\* (gc_row). For others it does: run gc_reuse.
THEOREM CollectsOnlyDeadRowsHolds ==
  ASSUME ~ReuseKeys
  PROVE  Spec => CollectsOnlyDeadRows
<1>1. ASSUME IInv, NEW p \in Collectors, Collect(p), NEW k \in Keys,
             Visible(replica[p], k)
      PROVE  Visible(replica[p], k)'
  <2>1. p \in Peers
    BY GcAssumption
  <2>2. ~SeenDead(p, k)
    BY <1>1, <2>1, SeenDeadIsInvisible
  <2>3. replica'[p].rows[k] = replica[p].rows[k]
    BY <1>1, <2>1, <2>2, CollectEffect
  <2> QED BY <1>1, <2>3 DEF Visible
<1>2. IInv => [\A p \in Collectors : Collect(p) =>
                 \A k \in Keys : Visible(replica[p], k) => Visible(replica[p], k)']_vars
  BY <1>1
<1> QED BY <1>2, Invariance, PTL DEF CollectsOnlyDeadRows

\* What p shows of row k, q has seen: the delta from p to q is empty.
LEMMA EmptyDeltaIsSeen ==
  ASSUME IInv, NEW p \in Peers, NEW q \in Peers, NEW k \in Keys,
         IsEmptyDelta(DeltaFor(p, q))
  PROVE  /\ \A c \in Cols : Seen(replica[q].frontier, replica[p].rows[k].cells[c].version)
         /\ Seen(replica[q].frontier, replica[p].rows[k].delVersion)
<1>1. replica[p] \in ReplicaState /\ replica[q].frontier \in Frontier
  BY ReplicaOf DEF IInv
<1>2. IF Unseen(replica[p].rows[k], replica[q].frontier)
      THEN replica[p].rows[k] = NoRow ELSE TRUE
  BY <1>1, ExtractType DEF IsEmptyDelta, DeltaFor
<1>3. CASE replica[p].rows[k] = NoRow
  BY <1>3, NoRowType DEF Seen, NoCell
<1>4. CASE ~Unseen(replica[p].rows[k], replica[q].frontier)
  BY <1>4 DEF Unseen
<1> QED BY <1>2, <1>3, <1>4

\* A peer that has nothing to receive from p shows every row p shows.
LEMMA ShownIsShown ==
  ASSUME IInv, ~ReuseKeys, NEW p \in Peers, NEW q \in Peers, NEW k \in Keys,
         IsEmptyDelta(DeltaFor(p, q)), IsEmptyDelta(DeltaFor(q, p)),
         Visible(replica[p], k)
  PROVE  /\ Visible(replica[q], k)
         /\ replica[p].rows[k] = replica[q].rows[k]
<1> DEFINE mine   == replica[p].rows[k]
           theirs == replica[q].rows[k]
<1>1. mine \in Row /\ theirs \in Row
  BY ReplicaOf DEF IInv
<1>2. DeletedWithVersion(mine) /\ DeletedWithVersion(theirs)
  BY DEF IInv, HeldInv, DeletedWithVersion
<1>3. /\ \A c \in Cols : Seen(replica[q].frontier, mine.cells[c].version)
      /\ \A c \in Cols : Seen(replica[p].frontier, theirs.cells[c].version)
      /\ Seen(replica[p].frontier, theirs.delVersion)
  BY EmptyDeltaIsSeen
<1>4. ~SeenDead(p, k)
  BY SeenDeadIsInvisible
<1>5. ~theirs.deleted
  <2>1. theirs.deleted => [key |-> k, version |-> theirs.delVersion] \in deletes
    BY DEF IInv, HeldInv, DeletedAs
  <2> QED BY <1>3, <1>4, <2>1 DEF SeenDead
<1>6. ~SeenDead(q, k)
  <2>1. SeenDead(q, k) => ~Visible(replica[q], k)
    BY SeenDeadIsInvisible
  <2>2. SeenDead(q, k) => theirs = NoRow
    BY <1>5, <2>1 DEF Visible
  <2> QED BY <1>4, <2>2 DEF IInv, DeadInv, CollectedInv
<1>7. ASSUME NEW c \in Cols
      PROVE  mine.cells[c] = theirs.cells[c]
  <2>1. /\ VLeq(mine.cells[c].version, theirs.cells[c].version)
        /\ VLeq(theirs.cells[c].version, mine.cells[c].version)
        /\ mine.cells[c].version = theirs.cells[c].version =>
             mine.cells[c] = theirs.cells[c]
    BY <1>3, <1>4, <1>6 DEF IInv, DeadInv, CellInv
  <2>2. mine.cells[c].version \in OptVersion /\ theirs.cells[c].version \in OptVersion
    BY HeldIsPast
  <2> QED BY <2>1, <2>2, VLeqAntisymmetric
<1>8. ~mine.deleted /\ mine # NoRow
  BY DEF Visible
<1> HIDE DEF mine, theirs
<1>9. /\ mine.deleted = FALSE /\ theirs.deleted = FALSE
      /\ mine.delVersion = NoVersion /\ theirs.delVersion = NoVersion
  BY <1>1, <1>2, <1>5, <1>8, RowFields DEF DeletedWithVersion
<1>10. mine.cells = theirs.cells
  <2>1. mine.cells = [c \in Cols |-> mine.cells[c]]
        /\ theirs.cells = [c \in Cols |-> theirs.cells[c]]
    BY <1>1, RowFields
  <2> QED BY <1>7, <2>1
<1>11. mine = theirs
  BY <1>1, <1>9, <1>10, RowFields
<1> QED BY <1>8, <1>11 DEF Visible, mine, theirs

\* As long as clients reuse no key, no reader can tell which of two quiescent
\* peers has collected: with nothing left to send to each other they show the
\* same rows (run_gc, extract_delta).
THEOREM QuiescentPeersShowTheSameHolds ==
  ASSUME ~ReuseKeys
  PROVE  Spec => []QuiescentPeersShowTheSame
<1>1. IInv => QuiescentPeersShowTheSame
  BY ShownIsShown DEF QuiescentPeersShowTheSame
<1> QED BY <1>1, Invariance, PTL
=============================================================================
