--------------------------- MODULE EngineHostProofs ---------------------------
(***************************************************************************)
(* The engine host keeps its inductive invariant (IInv of EngineHost), and *)
(* with it every safety property of its runs that the code has.            *)
(*                                                                         *)
(* The invariant is first restated over any peers P and deletes D          *)
(* (HostInv), so that a step is a fact about two pairs of values.  Its     *)
(* part about replicas and deletes (ReplicaInv) is kept by each of the two *)
(* stages of a call: a merge, which brings what another peer holds         *)
(* (Exchanged), and writes of the peer's own, which tick its clock         *)
(* (Grown).  Its part about registries says that each is the record of the *)
(* claims its peer has seen (Settled).                                     *)
(***************************************************************************)
EXTENDS EngineHost, ExecutorProofs

-----------------------------------------------------------------------------
(***************************************************************************)
(* The inductive invariant of the engine host.  A call is at most two      *)
(* stages at a peer: a merge, which brings what another peer holds, and    *)
(* writes of the peer's own, which tick its clock.  The part of the        *)
(* invariant that is about replicas and deletes is shown for each stage.   *)
(***************************************************************************)
ReplicaInv(R, D) ==
  /\ R \in [Peers -> ReplicaState]
  /\ D \subseteq Removal
  /\ ClockInv(R)
  /\ HeldInv(R, D)
  /\ DeletedInv(R, D)
  /\ RemovalInv(R, D)

LEMMA RemovalFields ==
  ASSUME NEW e \in Removal
  PROVE  /\ e.key \in Keys
         /\ e.version \in Version /\ e.version \in OptVersion /\ e.version # NoVersion
         /\ e.version.peer \in Peers /\ e.version.counter \in Nat
         /\ e.seen \in Frontier /\ \A q \in Peers : e.seen[q] \in Nat
<1>1. e.key \in Keys /\ e.version \in Version /\ e.seen \in Frontier
  BY DEF Removal
<1> QED BY <1>1, VersionIsOpt DEF Version, Frontier

LEMMA HeldIsGood ==
  ASSUME NEW R, NEW D, ReplicaInv(R, D), NEW p \in Peers
  PROVE  Good(R[p], p)
<1>1. R[p] \in ReplicaState
  BY DEF ReplicaInv
<1>2. \A q \in Peers : R[p].frontier[q] <= R[p].clock
  BY DEF ReplicaInv, ClockInv
<1>3. R[p].frontier[p] = R[p].clock
  BY DEF ReplicaInv, ClockInv
<1>4. ASSUME NEW k \in Keys
      PROVE  /\ \A c \in Cols : Seen(R[p].frontier, R[p].rows[k].cells[c].version)
             /\ DeletedWithVersion(R[p].rows[k])
             /\ Seen(R[p].frontier, R[p].rows[k].delVersion)
             /\ Seen(R[p].frontier, R[p].tombs[k])
  <2>1. /\ \A c \in Cols : Seen(R[p].frontier, R[p].rows[k].cells[c].version)
        /\ R[p].rows[k].deleted <=> R[p].rows[k].delVersion # NoVersion
        /\ R[p].rows[k].deleted => Seen(R[p].frontier, R[p].rows[k].delVersion)
        /\ R[p].tombs[k] # NoVersion => Seen(R[p].frontier, R[p].tombs[k])
    BY DEF ReplicaInv, HeldInv, DeletedAs
  <2> QED BY <2>1 DEF Seen, DeletedWithVersion
<1> QED BY <1>1, <1>2, <1>3, <1>4 DEF Good

LEMMA ClockFields ==
  ASSUME NEW R, NEW D, ReplicaInv(R, D), NEW p \in Peers
  PROVE  /\ R[p] \in ReplicaState /\ R[p].frontier \in Frontier /\ R[p].clock \in Nat
         /\ \A q \in Peers : /\ R[p].frontier[q] \in Nat
                             /\ R[p].frontier[q] <= R[p].clock
                             /\ R[p].frontier[q] <= R[q].clock
         /\ R[p].frontier[p] = R[p].clock
<1>1. R[p] \in ReplicaState /\ R[p].frontier \in Frontier /\ R[p].clock \in Nat
  BY ReplicaFields DEF ReplicaInv
<1>2. \A q \in Peers : R[p].frontier[q] \in Nat
  BY <1>1 DEF Frontier
<1>3. \A q \in Peers : /\ R[p].frontier[q] <= R[p].clock
                       /\ R[p].frontier[q] <= R[q].clock
  BY DEF ReplicaInv, ClockInv
<1>4. R[p].frontier[p] = R[p].clock
  BY DEF ReplicaInv, ClockInv
<1> QED BY <1>1, <1>2, <1>3, <1>4

-----------------------------------------------------------------------------
(***************************************************************************)
(* Writes of the peers' own.                                               *)
(***************************************************************************)

\* e is a delete that its peer has made on the way from R to S, in a call that
\* wrote nothing but NULL.
IsNewDelete(R, S, e) ==
  LET p == e.version.peer
  IN  /\ e.version = S[p].tombs[e.key]
      /\ e.version # R[p].tombs[e.key]
      /\ e.seen = S[p].frontier
      /\ Grows(R[p], S[p], p, {Null})

\* Every peer leads from R to S by writes of its own, and F has their deletes.
Grown(R, S, D, F) ==
  /\ S \in [Peers -> ReplicaState]
  /\ F \subseteq Removal
  /\ D \subseteq F
  /\ \A p \in Peers : Grows(R[p], S[p], p, Values)
  /\ \A e \in F \ D : IsNewDelete(R, S, e)
  /\ \A p \in Peers, k \in Keys :
       S[p].tombs[k] # R[p].tombs[k] /\ S[p].tombs[k].peer = p =>
         \E e \in F : e.key = k /\ e.version = S[p].tombs[k]

LEMMA GrownClocks ==
  ASSUME NEW R, NEW D, NEW S, NEW F, ReplicaInv(R, D), Grown(R, S, D, F), NEW p \in Peers
  PROVE  /\ Good(S[p], p)
         /\ S[p] \in ReplicaState /\ S[p].frontier \in Frontier /\ S[p].clock \in Nat
         /\ R[p].clock <= S[p].clock
         /\ S[p].frontier[p] = S[p].clock
         /\ \A q \in Peers : S[p].frontier[q] <= S[p].clock /\ S[p].frontier[q] \in Nat
         /\ \A q \in Peers : q # p => S[p].frontier[q] = R[p].frontier[q]
         /\ \A q \in Peers : R[p].frontier[q] <= S[p].frontier[q]
<1>1. Grows(R[p], S[p], p, Values) /\ S[p] \in ReplicaState
  BY DEF Grown
<1>2. Good(S[p], p) /\ R[p].clock <= S[p].clock
      /\ \A q \in Peers : q # p => S[p].frontier[q] = R[p].frontier[q]
  BY <1>1 DEF Grows
<1>3. S[p].frontier \in Frontier /\ S[p].clock \in Nat
  BY <1>1, ReplicaFields
<1>4. \A q \in Peers : S[p].frontier[q] \in Nat
  BY <1>3 DEF Frontier
<1>5. S[p].frontier[p] = S[p].clock /\ \A q \in Peers : S[p].frontier[q] <= S[p].clock
  BY <1>2 DEF Good
<1>6. \A q \in Peers : R[p].frontier[q] <= S[p].frontier[q]
  BY <1>2, <1>4, <1>5, ClockFields
<1> QED BY <1>1, <1>2, <1>3, <1>4, <1>5, <1>6

\* A new delete is newer than all that its peer had seen, and no other peer has
\* seen it.
LEMMA NewDeletes ==
  ASSUME NEW R, NEW D, NEW S, NEW F, ReplicaInv(R, D), Grown(R, S, D, F), NEW e \in F \ D
  PROVE  LET p == e.version.peer
         IN  /\ p \in Peers
             /\ R[p].clock < e.version.counter /\ e.version.counter <= S[p].clock
             /\ S[p].rows[e.key].deleted /\ S[p].rows[e.key].delVersion = e.version
             /\ e.seen = S[p].frontier
             /\ Grows(R[p], S[p], p, {Null})
             /\ \A q \in Peers : Seen(S[q].frontier, e.version) => q = p
<1> DEFINE p == e.version.peer
<1>1. e \in Removal /\ IsNewDelete(R, S, e)
  BY DEF Grown
<1>2. p \in Peers /\ e.key \in Keys /\ e.version.counter \in Nat /\ e.version # NoVersion
  BY <1>1, RemovalFields
<1>3. /\ e.version = S[p].tombs[e.key] /\ e.version # R[p].tombs[e.key]
      /\ e.seen = S[p].frontier /\ Grows(R[p], S[p], p, {Null})
  BY <1>1 DEF IsNewDelete
<1> HIDE DEF p
<1>4. DeleteGrows(R[p], S[p], p, e.key)
  BY <1>2, <1>3 DEF Grows
<1>5. /\ S[p].rows[e.key].deleted /\ S[p].rows[e.key].delVersion = e.version
      /\ Fresh(R[p], S[p], p, e.version)
  BY <1>3, <1>4 DEF DeleteGrows
<1>6. R[p].clock < e.version.counter /\ e.version.counter <= S[p].clock
  BY <1>5 DEF Fresh
<1>7. ASSUME NEW q \in Peers, Seen(S[q].frontier, e.version), q # p
      PROVE  FALSE
  <2>1. e.version.counter <= S[q].frontier[p]
    BY <1>2, <1>7 DEF Seen, p
  <2>2. S[q].frontier[p] = R[q].frontier[p]
    BY <1>2, <1>7, GrownClocks
  <2>3. R[q].frontier[p] <= R[p].clock /\ R[p].clock \in Nat /\ R[q].frontier[p] \in Nat
    BY <1>2, <1>7, ClockFields
  <2> QED BY <1>2, <1>6, <2>1, <2>2, <2>3
<1> QED BY <1>2, <1>3, <1>5, <1>6, <1>7 DEF p

\* A peer learns of the deletes of others only by merging.
LEMMA OldDeletes ==
  ASSUME NEW R, NEW D, NEW S, NEW F, ReplicaInv(R, D), Grown(R, S, D, F), NEW e \in D,
         NEW q \in Peers, Seen(S[q].frontier, e.version)
  PROVE  Seen(R[q].frontier, e.version)
<1> DEFINE p == e.version.peer
<1>1. e \in Removal
  BY DEF ReplicaInv
<1>2. p \in Peers /\ e.version.counter \in Nat /\ e.version # NoVersion
      /\ e.seen[p] \in Nat
  BY <1>1, RemovalFields
<1>3. CASE q # p
  <2>1. S[q].frontier[p] = R[q].frontier[p]
    BY <1>2, <1>3, GrownClocks
  <2> QED BY <1>2, <2>1 DEF Seen
<1>4. CASE q = p
  <2>1. e.version.counter <= e.seen[p] /\ e.seen[p] <= R[p].clock
    BY <1>2 DEF ReplicaInv, RemovalInv
  <2>2. R[p].frontier[p] = R[p].clock /\ R[p].clock \in Nat
    BY <1>2, ClockFields
  <2>3. e.version.counter <= R[p].frontier[p]
    BY <1>2, <2>1, <2>2
  <2> QED BY <1>4, <2>3 DEF Seen
<1> QED BY <1>3, <1>4

LEMMA GrownClockInv ==
  ASSUME NEW R, NEW D, NEW S, NEW F, ReplicaInv(R, D), Grown(R, S, D, F)
  PROVE  ClockInv(S)
<1>1. SUFFICES ASSUME NEW p \in Peers, NEW q \in Peers
               PROVE  /\ S[p].frontier[q] <= S[q].clock
                      /\ S[p].frontier[q] <= S[p].clock
                      /\ S[p].frontier[p] = S[p].clock
  BY DEF ClockInv
<1>2. S[p].frontier[q] <= S[p].clock /\ S[p].frontier[p] = S[p].clock
  BY GrownClocks
<1>3. S[p].frontier[q] <= S[q].clock
  <2>1. CASE q = p
    BY <1>2, <2>1
  <2>2. CASE q # p
    <3>1. S[p].frontier[q] = R[p].frontier[q]
      BY <2>2, GrownClocks
    <3>2. R[p].frontier[q] <= R[q].clock /\ R[p].frontier[q] \in Nat /\ R[q].clock \in Nat
      BY ClockFields
    <3>3. R[q].clock <= S[q].clock /\ S[q].clock \in Nat
      BY GrownClocks
    <3> QED BY <3>1, <3>2, <3>3
  <2> QED BY <2>1, <2>2
<1> QED BY <1>2, <1>3

LEMMA GrownHeldInv ==
  ASSUME NEW R, NEW D, NEW S, NEW F, ReplicaInv(R, D), Grown(R, S, D, F)
  PROVE  HeldInv(S, F)
<1>1. SUFFICES ASSUME NEW p \in Peers, NEW k \in Keys
               PROVE  /\ \A c \in Cols : Seen(S[p].frontier, S[p].rows[k].cells[c].version)
                      /\ S[p].rows[k].deleted <=> S[p].rows[k].delVersion # NoVersion
                      /\ S[p].rows[k].deleted => DeletedAs(S, F, p, k, S[p].rows[k].delVersion)
                      /\ S[p].tombs[k] # NoVersion => DeletedAs(S, F, p, k, S[p].tombs[k])
  BY DEF HeldInv
<1>2. Good(S[p], p)
  BY GrownClocks
<1>3. /\ \A c \in Cols : Seen(S[p].frontier, S[p].rows[k].cells[c].version)
      /\ DeletedWithVersion(S[p].rows[k])
      /\ Seen(S[p].frontier, S[p].rows[k].delVersion)
      /\ Seen(S[p].frontier, S[p].tombs[k])
  BY <1>2 DEF Good
<1>4. DeleteGrows(R[p], S[p], p, k) /\ D \subseteq F
  BY DEF Grown, Grows
<1>5. /\ R[p].rows[k].deleted => DeletedAs(R, D, p, k, R[p].rows[k].delVersion)
      /\ R[p].tombs[k] # NoVersion => DeletedAs(R, D, p, k, R[p].tombs[k])
      /\ Seen(R[p].frontier, R[p].tombs[k])
  BY HeldIsGood DEF ReplicaInv, HeldInv, Good
<1>6. CASE /\ S[p].rows[k].deleted = R[p].rows[k].deleted
           /\ S[p].rows[k].delVersion = R[p].rows[k].delVersion
           /\ S[p].tombs[k] = R[p].tombs[k]
  BY <1>3, <1>4, <1>5, <1>6 DEF DeletedAs, DeletedWithVersion
<1>7. CASE /\ S[p].rows[k].deleted
           /\ S[p].rows[k].delVersion = S[p].tombs[k]
           /\ Fresh(R[p], S[p], p, S[p].tombs[k])
  <2> DEFINE v == S[p].tombs[k]
  <2>1. v.peer = p /\ v \in Version /\ v.counter \in Nat /\ R[p].clock < v.counter
    BY <1>7 DEF Fresh, Version
  <2>2. v # R[p].tombs[k]
    <3>1. v # NoVersion
      BY <2>1, VersionIsOpt
    <3>2. R[p].frontier[p] = R[p].clock /\ R[p].clock \in Nat
      BY ClockFields
    <3>3. ~Seen(R[p].frontier, v)
      BY <2>1, <3>1, <3>2 DEF Seen
    <3> QED BY <1>5, <3>3
  <2>3. \E e \in F : e.key = k /\ e.version = v
    BY <2>1, <2>2 DEF Grown
  <2> QED BY <1>3, <1>7, <2>3 DEF DeletedAs, DeletedWithVersion
<1> QED BY <1>4, <1>6, <1>7 DEF DeleteGrows

LEMMA GrownDeletedInv ==
  ASSUME NEW R, NEW D, NEW S, NEW F, ReplicaInv(R, D), Grown(R, S, D, F)
  PROVE  DeletedInv(S, F)
<1>1. SUFFICES ASSUME NEW q \in Peers, NEW e \in F, Seen(S[q].frontier, e.version)
               PROVE  /\ S[q].rows[e.key].deleted
                      /\ VLeq(e.version, S[q].rows[e.key].delVersion)
  BY DEF DeletedInv
<1>2. CASE e \in F \ D
  <2>1. q = e.version.peer
    BY <1>1, <1>2, NewDeletes
  <2>2. S[q].rows[e.key].deleted /\ S[q].rows[e.key].delVersion = e.version
    BY <1>2, <2>1, NewDeletes
  <2> QED BY <2>2 DEF VLeq
<1>3. CASE e \in D
  <2>1. Seen(R[q].frontier, e.version)
    BY <1>1, <1>3, OldDeletes
  <2>2. R[q].rows[e.key].deleted /\ VLeq(e.version, R[q].rows[e.key].delVersion)
    BY <1>3, <2>1 DEF ReplicaInv, DeletedInv
  <2>3. /\ e.key \in Keys /\ e.version.counter \in Nat /\ e.version.peer \in Peers
        /\ e.version # NoVersion
    BY <1>3, RemovalFields DEF ReplicaInv
  <2>4. DeleteGrows(R[q], S[q], q, e.key)
    BY <2>3 DEF Grown, Grows
  <2>5. CASE /\ S[q].rows[e.key].deleted = R[q].rows[e.key].deleted
             /\ S[q].rows[e.key].delVersion = R[q].rows[e.key].delVersion
    BY <2>2, <2>5
  <2>6. CASE /\ S[q].rows[e.key].deleted
             /\ S[q].rows[e.key].delVersion = S[q].tombs[e.key]
             /\ Fresh(R[q], S[q], q, S[q].tombs[e.key])
    <3> DEFINE v == S[q].tombs[e.key]
    <3>1. v.counter \in Nat /\ R[q].clock < v.counter
      BY <2>6 DEF Fresh, Version
    <3>2. e.version.counter <= R[q].frontier[e.version.peer]
      BY <2>1, <2>3 DEF Seen
    <3>3. R[q].frontier[e.version.peer] <= R[q].clock /\ R[q].clock \in Nat
          /\ R[q].frontier[e.version.peer] \in Nat
      BY <2>3, ClockFields
    <3>4. e.version.counter < v.counter
      BY <2>3, <3>1, <3>2, <3>3
    <3> QED BY <2>6, <3>4 DEF VLeq, VLess
  <2> QED BY <2>4, <2>5, <2>6 DEF DeleteGrows
<1> QED BY <1>2, <1>3

LEMMA GrownRemovalInv ==
  ASSUME NEW R, NEW D, NEW S, NEW F, ReplicaInv(R, D), Grown(R, S, D, F)
  PROVE  RemovalInv(S, F)
<1>1. SUFFICES ASSUME NEW e \in F
               PROVE  /\ e.version.counter <= e.seen[e.version.peer]
                      /\ \A q \in Peers : /\ e.seen[q] <= S[q].clock
                                          /\ q # e.version.peer => e.seen[q] < e.version.counter
                      /\ \A q \in Peers, k \in Keys, c \in Cols :
                           LET cell == S[q].rows[k].cells[c]
                           IN  /\ cell.version # NoVersion
                               /\ Seen(e.seen, cell.version)
                               /\ cell.version.counter >= e.version.counter
                               => cell.value = Null
  BY DEF RemovalInv
<1> DEFINE p == e.version.peer
<1>2. /\ p \in Peers /\ e.version.counter \in Nat /\ e.version # NoVersion
      /\ \A q \in Peers : e.seen[q] \in Nat
  BY RemovalFields DEF Grown
<1>3. CASE e \in D
  <2>1. /\ e.version.counter <= e.seen[p]
        /\ \A q \in Peers : /\ e.seen[q] <= R[q].clock
                            /\ q # p => e.seen[q] < e.version.counter
    BY <1>3 DEF ReplicaInv, RemovalInv
  <2>2. \A q \in Peers : e.seen[q] <= S[q].clock
    BY <1>2, <2>1, GrownClocks, ClockFields
  <2>3. ASSUME NEW q \in Peers, NEW k \in Keys, NEW c \in Cols,
               S[q].rows[k].cells[c].version # NoVersion,
               Seen(e.seen, S[q].rows[k].cells[c].version),
               S[q].rows[k].cells[c].version.counter >= e.version.counter
        PROVE  S[q].rows[k].cells[c].value = Null
    <3> DEFINE a == R[q].rows[k].cells[c]
               b == S[q].rows[k].cells[c]
    <3>1. ASSUME b.version.peer = q, b.version.counter \in Nat, R[q].clock < b.version.counter
          PROVE  FALSE
      <4>1. b.version.counter <= e.seen[q]
        BY <2>3, <3>1 DEF Seen
      <4>2. e.seen[q] <= R[q].clock /\ e.seen[q] \in Nat /\ R[q].clock \in Nat
        BY <1>2, <2>1, ClockFields
      <4> QED BY <3>1, <4>1, <4>2
    <3>2. CellGrows(R[q], S[q], q, Values, k, c)
      BY DEF Grown, Grows
    <3>3. a = b
      BY <3>1, <3>2 DEF CellGrows, Fresh, Version
    <3>4. a.value = Null
      BY <1>3, <2>3, <3>3 DEF ReplicaInv, RemovalInv
    <3> QED BY <3>3, <3>4
  <2> QED BY <2>1, <2>2, <2>3
<1>4. CASE e \in F \ D
  <2>1. /\ R[p].clock < e.version.counter /\ e.version.counter <= S[p].clock
        /\ e.seen = S[p].frontier
        /\ Grows(R[p], S[p], p, {Null})
    BY <1>4, NewDeletes
  <2>2. S[p].frontier[p] = S[p].clock
    BY <1>2, GrownClocks
  <2>3. ASSUME NEW q \in Peers, q # p
        PROVE  /\ e.seen[q] <= R[p].clock /\ e.seen[q] <= R[q].clock
               /\ e.seen[q] < e.version.counter
    <3>1. S[p].frontier[q] = R[p].frontier[q]
      BY <1>2, <2>3, GrownClocks
    <3>2. /\ R[p].frontier[q] <= R[p].clock /\ R[p].frontier[q] <= R[q].clock
          /\ R[p].frontier[q] \in Nat /\ R[p].clock \in Nat
      BY <1>2, ClockFields
    <3> QED BY <1>2, <2>1, <3>1, <3>2
  <2>4. ASSUME NEW q \in Peers
        PROVE  e.seen[q] <= S[q].clock
    <3>1. CASE q = p
      BY <1>2, <2>1, <2>2, <3>1, GrownClocks
    <3>2. CASE q # p
      <4>1. e.seen[q] <= R[q].clock /\ R[q].clock \in Nat
        BY <2>3, <3>2, ClockFields
      <4> QED BY <1>2, <4>1, GrownClocks
    <3> QED BY <3>1, <3>2
  <2>5. ASSUME NEW q \in Peers, NEW k \in Keys, NEW c \in Cols,
               S[q].rows[k].cells[c].version # NoVersion,
               Seen(e.seen, S[q].rows[k].cells[c].version),
               S[q].rows[k].cells[c].version.counter >= e.version.counter
        PROVE  S[q].rows[k].cells[c].value = Null
    <3> DEFINE a == R[q].rows[k].cells[c]
               b == S[q].rows[k].cells[c]
               x == b.version.peer
    <3>1. a.version \in OptVersion /\ Seen(R[q].frontier, a.version)
          /\ b.version \in Version
      <4>1. R[q].rows[k] \in Row /\ S[q].rows[k] \in Row /\ Good(R[q], q)
        BY HeldIsGood, ClockFields, GrownClocks, ReplicaFields
      <4>2. a.version \in OptVersion /\ b.version \in OptVersion
        BY <4>1, RowFields, CellVersion
      <4> QED BY <2>5, <4>1, <4>2 DEF Good, OptVersion
    <3>2. x \in Peers /\ b.version.counter \in Nat /\ b.version.counter <= e.seen[x]
          /\ e.version.counter <= b.version.counter
      BY <1>2, <2>5, <3>1 DEF Version, Seen
    <3> DEFINE n == b.version.counter
    <3>3. x = p
      <4> HIDE DEF x, n
      <4>1. ASSUME x # p PROVE FALSE
        <5>1. e.seen[x] < e.version.counter /\ e.seen[x] \in Nat
          BY <1>2, <2>3, <3>2, <4>1
        <5>2. n <= e.seen[x] /\ e.version.counter <= n /\ n \in Nat
          BY <3>2 DEF n, x
        <5> QED BY <1>2, <5>1, <5>2
      <4> QED BY <4>1
    <3>4. R[p].clock < b.version.counter /\ R[p].clock \in Nat
      <4>1. R[p].clock \in Nat /\ R[p].clock < e.version.counter
        BY <1>2, <2>1, ClockFields
      <4>2. e.version.counter <= n /\ n \in Nat
        BY <3>2
      <4> HIDE DEF n
      <4>3. R[p].clock < n
        BY <1>2, <4>1, <4>2
      <4> QED BY <4>1, <4>3 DEF n
    <3>5. a # b
      <4>1. ASSUME a = b PROVE FALSE
        <5> DEFINE f == R[q].frontier[p]
                   now == R[p].clock
        <5>1. n <= f
          BY <2>5, <3>1, <3>3, <4>1 DEF Seen
        <5>2. f <= now /\ f \in Nat
          BY <1>2, ClockFields
        <5>3. now < n /\ now \in Nat /\ n \in Nat
          BY <3>2, <3>4
        <5> HIDE DEF n, f, now
        <5> QED BY <5>1, <5>2, <5>3
      <4> QED BY <4>1
    <3>6. q = p
      <4>1. CellGrows(R[q], S[q], q, Values, k, c)
        BY DEF Grown, Grows
      <4> QED BY <3>3, <3>5, <4>1 DEF CellGrows, Fresh
    <3>7. CellGrows(R[q], S[q], q, {Null}, k, c)
      BY <2>1, <3>6 DEF Grows
    <3> QED BY <3>5, <3>7 DEF CellGrows
  <2> QED BY <1>2, <2>1, <2>2, <2>3, <2>4, <2>5
<1> QED BY <1>3, <1>4

LEMMA GrownReplicaInv ==
  ASSUME NEW R, NEW D, NEW S, NEW F, ReplicaInv(R, D), Grown(R, S, D, F)
  PROVE  ReplicaInv(S, F)
<1>1. S \in [Peers -> ReplicaState] /\ F \subseteq Removal
  BY DEF Grown
<1> QED BY <1>1, GrownClockInv, GrownHeldInv, GrownDeletedInv, GrownRemovalInv DEF ReplicaInv

-----------------------------------------------------------------------------
(***************************************************************************)
(* Merges.                                                                 *)
(***************************************************************************)

\* Row k of p's replica r and of q's replica o, merged into that of s.
RowReceived(r, o, s, k) ==
  LET a == r.rows[k]
      b == o.rows[k]
      n == s.rows[k]
  IN  /\ \A c \in Cols : \/ n.cells[c] = a.cells[c]
                         \/ /\ n.cells[c] = b.cells[c]
                            /\ VLess(a.cells[c].version, b.cells[c].version)
      /\ DeletedWithVersion(n)
      /\ n.delVersion \in {a.delVersion, b.delVersion, o.tombs[k]}
      /\ a.deleted => n.deleted
      /\ VLeq(a.delVersion, n.delVersion)
      /\ b.deleted /\ ~Seen(r.frontier, b.delVersion) =>
           n.deleted /\ VLeq(b.delVersion, n.delVersion)
      /\ \/ s.tombs[k] = r.tombs[k]
         \/ s.tombs[k] = o.tombs[k] /\ ~Seen(r.frontier, o.tombs[k])

\* p, whose replica is r, has received the delta of a peer whose replica is o.
Receives(r, o, s, p) ==
  /\ s \in ReplicaState
  /\ r.clock <= s.clock
  /\ s.frontier[p] = s.clock
  /\ \A x \in Peers : /\ s.frontier[x] <= s.clock
                      /\ r.frontier[x] <= s.frontier[x]
                      /\ o.frontier[x] <= s.frontier[x]
                      /\ x # p => s.frontier[x] \in {r.frontier[x], o.frontier[x]}
  /\ \A k \in Keys : RowReceived(r, o, s, k)

LEMMA ApplyDeltaType ==
  ASSUME NEW r \in ReplicaState, NEW d \in Payload, NEW p \in Peers,
         \A k \in Keys : DeletedWithVersion(r.rows[k]) /\ DeletedWithVersion(d.rows[k]),
         apply_delta(r, p, d).clock \in Nat, apply_delta(r, p, d).frontier \in Frontier
  PROVE  apply_delta(r, p, d) \in ReplicaState
<1> DEFINE n == apply_delta(r, p, d)
<1>1. n = [rows |-> n.rows, tombs |-> n.tombs, clock |-> n.clock, frontier |-> n.frontier]
      /\ n.rows = [k \in Keys |-> n.rows[k]] /\ n.tombs = [k \in Keys |-> n.tombs[k]]
  BY DEF apply_delta
<1>2. \A k \in Keys : n.rows[k] \in Row /\ n.tombs[k] \in OptVersion
  BY ApplyDeltaRow
<1> HIDE DEF n
<1>3. n.rows \in [Keys -> Row] /\ n.tombs \in [Keys -> OptVersion]
  BY <1>1, <1>2
<1>4. n.clock \in Nat /\ n.frontier \in Frontier
  BY DEF n
<1>5. n \in ReplicaState
  BY <1>1, <1>3, <1>4 DEF ReplicaState, Tombs
<1> QED BY <1>5 DEF n

\* A cell gives way to a newer one only.
LEMMA ApplyDeltaCell ==
  ASSUME NEW r \in ReplicaState, NEW d \in Payload, NEW p, NEW k \in Keys, NEW c \in Cols
  PROVE  LET a == r.rows[k].cells[c]
             b == d.rows[k].cells[c]
             n == apply_delta(r, p, d).rows[k].cells[c]
         IN  n = a \/ (n = b /\ VLess(a.version, b.version))
<1> DEFINE a == r.rows[k]
           b == d.rows[k]
           m == Received(a, b)
           n == apply_delta(r, p, d).rows[k]
<1>1. a \in Row /\ b \in Row /\ a.cells[c] \in Cell /\ b.cells[c] \in Cell
  BY ReplicaFields, PayloadFields, RowFields
<1>2. n.cells = m.cells
  <2>1. n = Tombstoned(m, d.tombs[k])
    BY DEF apply_delta
  <2> HIDE DEF m, n
  <2> QED BY <2>1 DEF Tombstoned, DeletedRow
<1>3. CASE m = a
  BY <1>2, <1>3
<1>4. CASE m = b /\ a = NoRow
  <2>1. a.cells[c] = NoCell /\ NoCell.version = NoVersion
    BY <1>4, NoRowType DEF NoCell
  <2>2. CASE b.cells[c].version = NoVersion
    BY <1>1, <1>2, <1>4, <2>1, <2>2, CellVersion
  <2>3. CASE b.cells[c].version # NoVersion
    <3>1. VLess(NoVersion, b.cells[c].version)
      BY <1>1, <2>3, CellVersion, NoVersionIsLeast DEF VLeq
    <3> QED BY <1>2, <1>4, <2>1, <3>1
  <2> QED BY <2>2, <2>3
<1>5. CASE m = merge_row(a, b)
  <2>1. m.cells[c] = merge_cell(a.cells[c], b.cells[c])
    BY <1>5 DEF merge_row
  <2> QED BY <1>2, <2>1 DEF merge_cell
<1>6. m = a \/ (m = b /\ a = NoRow) \/ m = merge_row(a, b)
  BY DEF Received
<1> QED BY <1>3, <1>4, <1>5, <1>6

LEMMA MergeReceives ==
  ASSUME NEW r, NEW o, NEW p \in Peers, NEW q \in Peers, Good(r, p), Good(o, q)
  PROVE  Receives(r, o, apply_delta(r, p, extract_delta(o, r.frontier)), p)
<1> DEFINE d == extract_delta(o, r.frontier)
           s == apply_delta(r, p, d)
<1>1. /\ r \in ReplicaState /\ o \in ReplicaState
      /\ \A x \in Peers : r.frontier[x] <= r.clock /\ o.frontier[x] <= o.frontier[q]
      /\ \A k \in Keys : DeletedWithVersion(r.rows[k]) /\ DeletedWithVersion(o.rows[k])
  BY DEF Good
<1>2. r.frontier \in Frontier /\ o.frontier \in Frontier
  BY <1>1, ReplicaFields
<1>3. /\ d \in Payload /\ d.frontier = o.frontier
      /\ \A k \in Keys :
           /\ d.rows[k] = IF Unseen(o.rows[k], r.frontier) THEN o.rows[k] ELSE NoRow
           /\ d.tombs[k] = IF Seen(r.frontier, o.tombs[k]) THEN NoVersion ELSE o.tombs[k]
  BY <1>1, <1>2, ExtractType
<1> HIDE DEF d
<1>4. \A k \in Keys : DeletedWithVersion(d.rows[k])
  BY <1>1, <1>3, NoRowType
<1>5. /\ s.clock \in Nat
      /\ s.frontier \in Frontier
      /\ r.clock <= s.clock
      /\ s.frontier[p] = s.clock
      /\ \A x \in Peers : /\ s.frontier[x] <= s.clock
                          /\ r.frontier[x] <= s.frontier[x]
                          /\ d.frontier[x] <= s.frontier[x]
                          /\ x # p => s.frontier[x] \in {r.frontier[x], d.frontier[x]}
  BY <1>1, <1>3, ApplyDeltaClock
<1>6. s \in ReplicaState
  BY <1>1, <1>3, <1>4, <1>5, ApplyDeltaType
<1>7. ASSUME NEW k \in Keys
      PROVE  RowReceived(r, o, s, k)
  <2> DEFINE a == r.rows[k]
             b == o.rows[k]
             e == d.rows[k]
             n == s.rows[k]
  <2>1. /\ n \in Row
        /\ DeletedWithVersion(n)
        /\ \A c \in Cols : /\ n.cells[c] \in {a.cells[c], e.cells[c]}
                           /\ VLeq(a.cells[c].version, n.cells[c].version)
        /\ n.delVersion \in {a.delVersion, e.delVersion, d.tombs[k]}
        /\ VLeq(a.delVersion, n.delVersion) /\ VLeq(e.delVersion, n.delVersion)
        /\ s.tombs[k] \in {r.tombs[k], d.tombs[k]}
        /\ a.deleted \/ e.deleted => n.deleted
    BY <1>1, <1>3, <1>4, ApplyDeltaRow
  <2>2. s.tombs[k] = IF VLess(r.tombs[k], d.tombs[k]) THEN d.tombs[k] ELSE r.tombs[k]
    BY DEF apply_delta
  <2>3. a \in Row /\ b \in Row /\ e \in Row /\ r.tombs[k] \in OptVersion
        /\ o.tombs[k] \in OptVersion
    BY <1>1, <1>3, ReplicaFields, PayloadFields
  <2>4. /\ e = IF Unseen(b, r.frontier) THEN b ELSE NoRow
        /\ d.tombs[k] = IF Seen(r.frontier, o.tombs[k]) THEN NoVersion ELSE o.tombs[k]
    BY <1>3
  <2>5. DeletedWithVersion(a) /\ DeletedWithVersion(b)
    BY <1>1
  <2> HIDE DEF a, b, e, n, s
  <2>6. ASSUME NEW c \in Cols
        PROVE  \/ n.cells[c] = a.cells[c]
               \/ n.cells[c] = b.cells[c] /\ VLess(a.cells[c].version, b.cells[c].version)
    <3>1. \/ n.cells[c] = a.cells[c]
          \/ n.cells[c] = e.cells[c] /\ VLess(a.cells[c].version, e.cells[c].version)
      BY <1>1, <1>3, ApplyDeltaCell DEF a, e, n, s
    <3>2. CASE e = b
      BY <3>1, <3>2
    <3>3. CASE e = NoRow
      <4>1. a.cells[c].version \in OptVersion
        BY <2>3, RowFields, CellVersion
      <4>2. e.cells[c].version = NoVersion
        BY <3>3, NoRowType DEF NoCell
      <4>3. ~VLess(a.cells[c].version, NoVersion)
        BY <4>1, NoVersionIsLeast, VLessIrreflexive DEF VLeq
      <4> QED BY <3>1, <4>2, <4>3
    <3> QED BY <2>4, <3>2, <3>3
  <2>7. n.delVersion \in {a.delVersion, b.delVersion, o.tombs[k]}
    <3>1. a.delVersion \in OptVersion /\ NoRow.delVersion = NoVersion
      BY <2>3, RowFields, NoRowType
    <3>2. VLeq(a.delVersion, NoVersion) => a.delVersion = NoVersion
      BY <3>1, NoVersionIsLeast
    <3> QED BY <2>1, <2>4, <3>1, <3>2
  <2>8. b.deleted /\ ~Seen(r.frontier, b.delVersion) =>
          n.deleted /\ VLeq(b.delVersion, n.delVersion)
    BY <2>1, <2>4 DEF Unseen
  <2>9. \/ s.tombs[k] = r.tombs[k]
        \/ s.tombs[k] = o.tombs[k] /\ ~Seen(r.frontier, o.tombs[k])
    <3>1. ~VLess(r.tombs[k], NoVersion)
      BY <2>3, NoVersionIsLeast, VLessIrreflexive DEF VLeq
    <3> QED BY <2>2, <2>4, <3>1
  <2>10. RowReceived(r, o, s, k)
    BY <2>1, <2>5, <2>6, <2>7, <2>8, <2>9 DEF RowReceived, a, b, n
  <2> QED BY <2>10
<1> HIDE DEF s
<1>8. Receives(r, o, s, p)
  BY <1>3, <1>5, <1>6, <1>7 DEF Receives
<1> QED BY <1>8 DEF s, d

\* A peer that receives nothing.
LEMMA ReceivesFromItself ==
  ASSUME NEW r, NEW p \in Peers, Good(r, p)
  PROVE  Receives(r, r, r, p)
<1>1. /\ r \in ReplicaState /\ r.frontier[p] = r.clock
      /\ \A x \in Peers : r.frontier[x] <= r.clock
      /\ \A k \in Keys : DeletedWithVersion(r.rows[k])
  BY DEF Good
<1>2. r.clock \in Nat /\ \A x \in Peers : r.frontier[x] \in Nat
  BY <1>1, ReplicaFields DEF Frontier
<1>3. \A k \in Keys : RowReceived(r, r, r, k)
  BY <1>1 DEF RowReceived, VLeq
<1> QED BY <1>1, <1>2, <1>3 DEF Receives

\* Every peer receives the delta of one peer, or nothing.
Exchanged(R, S) ==
  /\ S \in [Peers -> ReplicaState]
  /\ \A p \in Peers : \E q \in Peers : Receives(R[p], R[q], S[p], p)

LEMMA ReceivedClocks ==
  ASSUME NEW R, NEW D, NEW S, ReplicaInv(R, D), NEW p \in Peers, NEW q \in Peers,
         Receives(R[p], R[q], S[p], p)
  PROVE  /\ S[p] \in ReplicaState /\ S[p].clock \in Nat /\ S[p].frontier \in Frontier
         /\ R[p].clock <= S[p].clock
         /\ S[p].frontier[p] = S[p].clock
         /\ \A x \in Peers : /\ S[p].frontier[x] \in Nat
                             /\ S[p].frontier[x] <= S[p].clock
                             /\ x # p => S[p].frontier[x] <= R[x].clock
         /\ \A v \in OptVersion : Seen(R[p].frontier, v) \/ Seen(R[q].frontier, v)
                                    => Seen(S[p].frontier, v)
<1>1. S[p] \in ReplicaState
  BY DEF Receives
<1>2. S[p].clock \in Nat /\ S[p].frontier \in Frontier
  BY <1>1, ReplicaFields
<1>3. \A x \in Peers : S[p].frontier[x] \in Nat
  BY <1>2 DEF Frontier
<1>4. R[p].frontier \in Frontier /\ R[q].frontier \in Frontier
  BY ClockFields
<1>5. \A x \in Peers : x # p => S[p].frontier[x] <= R[x].clock
  BY ClockFields DEF Receives
<1>6. /\ \A x \in Peers : R[p].frontier[x] <= S[p].frontier[x]
      /\ \A x \in Peers : R[q].frontier[x] <= S[p].frontier[x]
  BY DEF Receives
<1>7. \A v \in OptVersion : Seen(R[p].frontier, v) \/ Seen(R[q].frontier, v)
                              => Seen(S[p].frontier, v)
  BY <1>2, <1>4, <1>6, SeenMonotone
<1> QED BY <1>1, <1>2, <1>3, <1>5, <1>7 DEF Receives

\* What a peer knows after it has received a delta, one of the two knew.
LEMMA ReceivedSeen ==
  ASSUME NEW R, NEW D, NEW S, ReplicaInv(R, D), NEW p \in Peers, NEW q \in Peers,
         Receives(R[p], R[q], S[p], p), NEW e \in D, Seen(S[p].frontier, e.version)
  PROVE  Seen(R[p].frontier, e.version) \/ Seen(R[q].frontier, e.version)
<1> DEFINE x == e.version.peer
<1>1. e \in Removal
  BY DEF ReplicaInv
<1>2. x \in Peers /\ e.version.counter \in Nat /\ e.version # NoVersion /\ e.seen[x] \in Nat
  BY <1>1, RemovalFields
<1>3. CASE x = p
  <2>1. e.version.counter <= e.seen[x] /\ e.seen[x] <= R[x].clock
    BY <1>2 DEF ReplicaInv, RemovalInv
  <2>2. R[p].frontier[p] = R[p].clock /\ R[p].clock \in Nat
    BY ClockFields
  <2>3. e.version.counter <= R[p].frontier[x]
    BY <1>2, <1>3, <2>1, <2>2
  <2> QED BY <2>3 DEF Seen
<1>4. CASE x # p
  <2>1. e.version.counter <= S[p].frontier[x]
    BY <1>2 DEF Seen
  <2>2. S[p].frontier[x] = R[p].frontier[x] \/ S[p].frontier[x] = R[q].frontier[x]
    BY <1>2, <1>4 DEF Receives
  <2> QED BY <2>1, <2>2 DEF Seen
<1> QED BY <1>3, <1>4

LEMMA ExchangedReplicaInv ==
  ASSUME NEW R, NEW D, NEW S, ReplicaInv(R, D), Exchanged(R, S)
  PROVE  ReplicaInv(S, D)
<1>1. S \in [Peers -> ReplicaState] /\ D \subseteq Removal
  BY DEF Exchanged, ReplicaInv
<1>2. \A p \in Peers : R[p].clock <= S[p].clock /\ R[p].clock \in Nat /\ S[p].clock \in Nat
  BY ClockFields, ReceivedClocks DEF Exchanged
<1>3. ClockInv(S)
  <2>1. SUFFICES ASSUME NEW p \in Peers, NEW x \in Peers
                 PROVE  /\ S[p].frontier[x] <= S[x].clock
                        /\ S[p].frontier[x] <= S[p].clock
                        /\ S[p].frontier[p] = S[p].clock
    BY DEF ClockInv
  <2>2. PICK q \in Peers : Receives(R[p], R[q], S[p], p)
    BY DEF Exchanged
  <2>3. /\ S[p].frontier[p] = S[p].clock /\ S[p].frontier[x] <= S[p].clock
        /\ S[p].frontier[x] \in Nat
        /\ x # p => S[p].frontier[x] <= R[x].clock
    BY <2>2, ReceivedClocks
  <2>4. S[p].frontier[x] <= S[x].clock
    BY <1>2, <2>3
  <2> QED BY <2>3, <2>4
<1>4. HeldInv(S, D)
  <2>1. SUFFICES ASSUME NEW p \in Peers, NEW k \in Keys
                 PROVE  /\ \A c \in Cols : Seen(S[p].frontier, S[p].rows[k].cells[c].version)
                        /\ S[p].rows[k].deleted <=> S[p].rows[k].delVersion # NoVersion
                        /\ S[p].rows[k].deleted => DeletedAs(S, D, p, k, S[p].rows[k].delVersion)
                        /\ S[p].tombs[k] # NoVersion => DeletedAs(S, D, p, k, S[p].tombs[k])
    BY DEF HeldInv
  <2>2. PICK q \in Peers : Receives(R[p], R[q], S[p], p)
    BY DEF Exchanged
  <2> DEFINE n == S[p].rows[k]
             a == R[p].rows[k]
             b == R[q].rows[k]
  <2>3. RowReceived(R[p], R[q], S[p], k)
    BY <2>2 DEF Receives
  <2>4. \A v \in OptVersion : Seen(R[p].frontier, v) \/ Seen(R[q].frontier, v)
                                => Seen(S[p].frontier, v)
    BY <2>2, ReceivedClocks
  <2>5. a \in Row /\ b \in Row /\ n \in Row
    BY <1>1, ClockFields, ReplicaFields
  <2>6. ASSUME NEW x \in {p, q}, NEW v \in OptVersion, v # NoVersion,
               v = R[x].rows[k].delVersion \/ v = R[x].tombs[k]
        PROVE  DeletedAs(S, D, p, k, v)
    <3>1. x \in Peers
      OBVIOUS
    <3>2. DeletedAs(R, D, x, k, v)
      BY <2>6, <3>1 DEF ReplicaInv, HeldInv
    <3> QED BY <2>4, <3>2 DEF DeletedAs
  <2>7. ASSUME NEW c \in Cols
        PROVE  Seen(S[p].frontier, n.cells[c].version)
    <3>1. Seen(R[p].frontier, a.cells[c].version) /\ Seen(R[q].frontier, b.cells[c].version)
      BY DEF ReplicaInv, HeldInv
    <3>2. a.cells[c].version \in OptVersion /\ b.cells[c].version \in OptVersion
      BY <2>5, RowFields, CellVersion
    <3>3. n.cells[c] = a.cells[c] \/ n.cells[c] = b.cells[c]
      BY <2>3 DEF RowReceived
    <3> QED BY <2>4, <3>1, <3>2, <3>3
  <2>8. n.deleted <=> n.delVersion # NoVersion
    BY <2>3 DEF RowReceived, DeletedWithVersion
  <2>9. n.deleted => DeletedAs(S, D, p, k, n.delVersion)
    <3>1. n.delVersion \in {a.delVersion, b.delVersion, R[q].tombs[k]}
      BY <2>3 DEF RowReceived
    <3>2. n.delVersion \in OptVersion
      BY <2>5, RowFields
    <3> QED BY <2>6, <2>8, <3>1, <3>2
  <2>10. S[p].tombs[k] # NoVersion => DeletedAs(S, D, p, k, S[p].tombs[k])
    <3>1. S[p].tombs[k] \in {R[p].tombs[k], R[q].tombs[k]}
      BY <2>3 DEF RowReceived
    <3>2. S[p].tombs[k] \in OptVersion
      BY <1>1, ReplicaFields
    <3> QED BY <2>6, <3>1, <3>2
  <2> QED BY <2>7, <2>8, <2>9, <2>10
<1>5. DeletedInv(S, D)
  <2>1. SUFFICES ASSUME NEW p \in Peers, NEW e \in D, Seen(S[p].frontier, e.version)
                 PROVE  /\ S[p].rows[e.key].deleted
                        /\ VLeq(e.version, S[p].rows[e.key].delVersion)
    BY DEF DeletedInv
  <2>2. PICK q \in Peers : Receives(R[p], R[q], S[p], p)
    BY DEF Exchanged
  <2> DEFINE k == e.key
             n == S[p].rows[k]
             a == R[p].rows[k]
             b == R[q].rows[k]
  <2>3. k \in Keys /\ e.version \in OptVersion
    BY RemovalFields DEF ReplicaInv
  <2>4. RowReceived(R[p], R[q], S[p], k)
    BY <2>2, <2>3 DEF Receives
  <2>5. /\ a.delVersion \in OptVersion /\ b.delVersion \in OptVersion
        /\ n.delVersion \in OptVersion
    BY <1>1, <2>3, ClockFields, ReplicaFields, RowFields
  <2>6. ASSUME a.deleted, NEW v \in OptVersion, VLeq(v, a.delVersion)
        PROVE  n.deleted /\ VLeq(v, n.delVersion)
    BY <2>4, <2>5, <2>6, VLeqTransitive DEF RowReceived
  <2>7. CASE Seen(R[p].frontier, e.version)
    <3>1. a.deleted /\ VLeq(e.version, a.delVersion)
      BY <2>7 DEF ReplicaInv, DeletedInv
    <3> QED BY <2>3, <2>6, <3>1
  <2>8. CASE Seen(R[q].frontier, e.version)
    <3>1. b.deleted /\ VLeq(e.version, b.delVersion)
      BY <2>8 DEF ReplicaInv, DeletedInv
    <3>2. CASE ~Seen(R[p].frontier, b.delVersion)
      <4>1. n.deleted /\ VLeq(b.delVersion, n.delVersion)
        BY <2>4, <3>1, <3>2 DEF RowReceived
      <4> QED BY <2>3, <2>5, <3>1, <4>1, VLeqTransitive
    <3>3. CASE Seen(R[p].frontier, b.delVersion)
      <4>1. PICK f \in D : f.key = k /\ f.version = b.delVersion
        BY <2>3, <3>1 DEF ReplicaInv, HeldInv, DeletedAs
      <4>2. a.deleted /\ VLeq(b.delVersion, a.delVersion)
        BY <3>3, <4>1 DEF ReplicaInv, DeletedInv
      <4>3. n.deleted /\ VLeq(b.delVersion, n.delVersion)
        BY <2>5, <2>6, <4>2
      <4> QED BY <2>3, <2>5, <3>1, <4>3, VLeqTransitive
    <3> QED BY <3>2, <3>3
  <2> QED BY <2>1, <2>2, <2>7, <2>8, ReceivedSeen
<1>6. RemovalInv(S, D)
  <2>1. SUFFICES ASSUME NEW e \in D
                 PROVE  /\ e.version.counter <= e.seen[e.version.peer]
                        /\ \A q \in Peers : /\ e.seen[q] <= S[q].clock
                                            /\ q # e.version.peer => e.seen[q] < e.version.counter
                        /\ \A p \in Peers, k \in Keys, c \in Cols :
                             LET cell == S[p].rows[k].cells[c]
                             IN  /\ cell.version # NoVersion
                                 /\ Seen(e.seen, cell.version)
                                 /\ cell.version.counter >= e.version.counter
                                 => cell.value = Null
    BY DEF RemovalInv
  <2>2. \A q \in Peers : e.seen[q] \in Nat
    BY RemovalFields DEF ReplicaInv
  <2>3. /\ e.version.counter <= e.seen[e.version.peer]
        /\ \A q \in Peers : /\ e.seen[q] <= R[q].clock
                            /\ q # e.version.peer => e.seen[q] < e.version.counter
    BY DEF ReplicaInv, RemovalInv
  <2>4. \A q \in Peers : e.seen[q] <= S[q].clock
    BY <1>2, <2>2, <2>3
  <2>5. ASSUME NEW p \in Peers, NEW k \in Keys, NEW c \in Cols,
               S[p].rows[k].cells[c].version # NoVersion,
               Seen(e.seen, S[p].rows[k].cells[c].version),
               S[p].rows[k].cells[c].version.counter >= e.version.counter
        PROVE  S[p].rows[k].cells[c].value = Null
    <3>1. PICK q \in Peers : Receives(R[p], R[q], S[p], p)
      BY DEF Exchanged
    <3>2. PICK x \in Peers : S[p].rows[k].cells[c] = R[x].rows[k].cells[c]
      BY <3>1 DEF Receives, RowReceived
    <3>3. LET cell == R[x].rows[k].cells[c]
          IN  /\ cell.version # NoVersion
              /\ Seen(e.seen, cell.version)
              /\ cell.version.counter >= e.version.counter
              => cell.value = Null
      BY DEF ReplicaInv, RemovalInv
    <3> QED BY <2>5, <3>2, <3>3
  <2> QED BY <2>3, <2>4, <2>5
<1> QED BY <1>1, <1>3, <1>4, <1>5, <1>6 DEF ReplicaInv

\* A peer does not receive its own deletes.
LEMMA OwnTombsStay ==
  ASSUME NEW R, NEW D, NEW S, ReplicaInv(R, D), NEW p \in Peers, NEW q \in Peers,
         Receives(R[p], R[q], S[p], p), NEW k \in Keys, S[p].tombs[k].peer = p
  PROVE  S[p].tombs[k] = R[p].tombs[k]
<1> DEFINE v == S[p].tombs[k]
<1>1. SUFFICES ASSUME v = R[q].tombs[k], ~Seen(R[p].frontier, v) PROVE FALSE
  BY DEF Receives, RowReceived
<1>2. v # NoVersion
  BY <1>1 DEF Seen
<1>3. PICK e \in D : e.version = v
  BY <1>1, <1>2 DEF ReplicaInv, HeldInv, DeletedAs
<1>4. e.version.counter \in Nat /\ e.seen[p] \in Nat
  BY RemovalFields DEF ReplicaInv
<1>5. e.version.counter <= e.seen[p] /\ e.seen[p] <= R[p].clock
  BY <1>3 DEF ReplicaInv, RemovalInv
<1>6. R[p].frontier[p] = R[p].clock /\ R[p].clock \in Nat
  BY ClockFields
<1>7. v.counter <= R[p].frontier[p]
  BY <1>3, <1>4, <1>5, <1>6
<1> QED BY <1>1, <1>7 DEF Seen

-----------------------------------------------------------------------------
(***************************************************************************)
(* References to deleted rows.                                             *)
(***************************************************************************)

\* NoReferenceOutlivesItsDelete, at a peer whose replica is r.
NoReference(r, D) ==
  \A e \in D : Seen(r.frontier, e.version) =>
    \A fk \in ForeignKeysOf({"Cascade", "Orphan"}), j \in Keys :
      Refers(r, j, fk, e) => ~SeenBefore(r, j, fk, e)

\* A cell that refers to a row has been written.
LEMMA ReferenceFacts ==
  ASSUME NEW r \in ReplicaState, NEW D, NEW e \in Removal, NEW j \in Keys,
         NEW fk \in ForeignKeysOf({"Cascade", "Orphan"}), Refers(r, j, fk, e)
  PROVE  LET cell == r.rows[j].cells[fk.column]
         IN  /\ fk \in ToSet(ForeignKeyDefs) /\ fk.on_delete \in {"Cascade", "Orphan"}
             /\ fk.table \in Tables /\ fk.column \in Cols /\ fk.ref_table \in Tables
             /\ cell \in Cell /\ cell.value \in Keys /\ cell.value # Null
             /\ cell.version \in Version /\ cell.version # NoVersion
<1> DEFINE cell == r.rows[j].cells[fk.column]
<1>1. fk \in ToSet(ForeignKeyDefs) /\ fk.on_delete \in {"Cascade", "Orphan"}
  BY DEF ForeignKeysOf
<1>2. fk.table \in Tables /\ fk.column \in Cols /\ fk.ref_table \in Tables
  <2>1. fk \in ForeignKeyDef
    BY <1>1, ForeignKeyDefsType DEF ToSet
  <2> QED BY <2>1, ForeignKeyFields
<1>3. cell \in Cell
  BY <1>2, ReplicaFields, RowFields
<1>4. cell.value \in Keys
  BY RemovalFields DEF Refers
<1>5. cell.value # Null /\ cell # NoCell
  BY <1>4, ReferenceAssumption
<1>6. cell.version \in OptVersion /\ cell.version # NoVersion
  BY <1>3, <1>5, CellVersion
<1>7. cell.version \in Version
  BY <1>6 DEF OptVersion
<1> QED BY <1>1, <1>2, <1>3, <1>4, <1>5, <1>6, <1>7

\* The cascades leave no reference to a deleted row that the deleting peer knew.
LEMMA QuietNoReference ==
  ASSUME NEW S, NEW F, ReplicaInv(S, F), NEW p \in Peers, NothingToCascade(S[p])
  PROVE  NoReference(S[p], F)
<1>1. SUFFICES ASSUME NEW e \in F, Seen(S[p].frontier, e.version), NEW j \in Keys,
                      NEW fk \in ForeignKeysOf({"Cascade", "Orphan"}),
                      Refers(S[p], j, fk, e), SeenBefore(S[p], j, fk, e)
               PROVE  FALSE
  BY DEF NoReference
<1> DEFINE r == S[p]
           k == e.key
           cell == r.rows[j].cells[fk.column]
           v == cell.version
           d == r.rows[k].delVersion
           t == fk.ref_table
           dead == Tombstones(r, t)
<1>2. e \in Removal /\ r \in ReplicaState
  BY DEF ReplicaInv
<1>3. /\ k \in Keys /\ e.version \in OptVersion /\ e.version.counter \in Nat
      /\ e.version.peer \in Peers
  BY <1>2, RemovalFields
<1>4. /\ fk \in ToSet(ForeignKeyDefs) /\ fk.on_delete \in {"Cascade", "Orphan"}
      /\ t \in Tables /\ fk.column \in Cols
      /\ cell.value # Null /\ v \in Version /\ v # NoVersion
  BY <1>1, <1>2, ReferenceFacts
<1>5. r.rows[k].deleted /\ VLeq(e.version, d)
  BY <1>1 DEF ReplicaInv, DeletedInv
<1>6. d # NoVersion /\ d \in OptVersion
  <2>1. r.rows[k] \in Row
    BY <1>2, <1>3, ReplicaFields
  <2>2. d \in OptVersion
    BY <2>1, RowFields
  <2>3. r.rows[k].deleted <=> d # NoVersion
    BY <1>3 DEF ReplicaInv, HeldInv
  <2> QED BY <1>5, <2>2, <2>3
<1>7. TableOf[j] = fk.table /\ TableOf[k] = t /\ Visible(r, j) /\ cell.value = k
  BY <1>1 DEF Refers
<1>8. k \in DOMAIN dead /\ dead[k] = d
  BY <1>3, <1>5, <1>6, <1>7 DEF Tombstones, RowsOf
<1>9. Affected(r, dead, fk) = {}
  <2>1. fk \in ToSet(ForeignKeysTo(t))
    BY <1>4, ForeignKeysToFacts
  <2> QED BY <1>4, <2>1 DEF NothingToCascade, QuietFrom, Quiet
<1>10. ~NotNewer(v, d)
  <2>1. j \in RowsOf(fk.table)
    BY <1>7 DEF RowsOf
  <2> QED BY <1>7, <1>8, <1>9, <2>1 DEF Affected
<1>11. ~(v.counter >= e.version.counter)
  BY <1>1, <1>4 DEF ReplicaInv, RemovalInv, SeenBefore
<1>12. v.counter \in Nat /\ d.counter \in Nat
  BY <1>4, <1>6 DEF OptVersion, Version
<1>13. e.version.counter <= d.counter
  BY <1>3, <1>5, <1>12 DEF VLeq, VLess
<1> HIDE DEF v, d
<1>14. v.counter < d.counter
  BY <1>3, <1>11, <1>12, <1>13
<1> QED BY <1>10, <1>12, <1>14 DEF NotNewer

\* Writes of its own do not make a peer refer anew to a row as it was known to
\* one that has deleted it.
LEMMA GrownNoReference ==
  ASSUME NEW R, NEW D, NEW S, NEW F, ReplicaInv(R, D), Grown(R, S, D, F),
         NEW p \in Peers, NoReference(R[p], D), \A e \in F \ D : e.version.peer # p
  PROVE  NoReference(S[p], F)
<1>1. SUFFICES ASSUME NEW e \in F, Seen(S[p].frontier, e.version), NEW j \in Keys,
                      NEW fk \in ForeignKeysOf({"Cascade", "Orphan"}),
                      Refers(S[p], j, fk, e), SeenBefore(S[p], j, fk, e)
               PROVE  FALSE
  BY DEF NoReference
<1> DEFINE c == fk.column
           a == R[p].rows[j].cells[c]
           b == S[p].rows[j].cells[c]
<1>2. e \in D
  BY <1>1, NewDeletes
<1>3. Seen(R[p].frontier, e.version)
  BY <1>1, <1>2, OldDeletes
<1>4. e \in Removal /\ S[p] \in ReplicaState /\ R[p] \in ReplicaState
  BY DEF Grown, ReplicaInv
<1>5. c \in Cols /\ b.version \in Version /\ b.version # NoVersion /\ b.value \in Keys
  BY <1>1, <1>4, ReferenceFacts
<1>6. Grows(R[p], S[p], p, Values)
  BY DEF Grown
<1>7. a = b
  <2>1. SUFFICES ASSUME Fresh(R[p], S[p], p, b.version) PROVE FALSE
    BY <1>5, <1>6 DEF Grows, CellGrows
  <2>2. b.version.peer = p /\ R[p].clock < b.version.counter
    BY <2>1 DEF Fresh
  <2>3. b.version.counter <= e.seen[p]
    BY <1>1, <1>5, <2>2 DEF SeenBefore, Seen
  <2>4. e.seen[p] <= R[p].clock
    BY <1>2 DEF ReplicaInv, RemovalInv
  <2>5. e.seen[p] \in Nat /\ R[p].clock \in Nat /\ b.version.counter \in Nat
    BY <1>4, <1>5, RemovalFields, ClockFields DEF Version
  <2> QED BY <2>2, <2>3, <2>4, <2>5
<1>8. Visible(R[p], j)
  <2>1. R[p].rows[j] # NoRow
    BY <1>5, <1>7, NoRowType, ReferenceAssumption
  <2>2. ~S[p].rows[j].deleted
    BY <1>1 DEF Refers, Visible
  <2>3. ~R[p].rows[j].deleted
    BY <1>6, <2>2 DEF Grows, DeleteGrows
  <2> QED BY <2>1, <2>3 DEF Visible
<1>9. Refers(R[p], j, fk, e) /\ SeenBefore(R[p], j, fk, e)
  BY <1>1, <1>7, <1>8 DEF Refers, SeenBefore
<1> QED BY <1>2, <1>3, <1>9 DEF NoReference

-----------------------------------------------------------------------------
(***************************************************************************)
(* The inductive invariant, of the peers P and the deletes D, and with the *)
(* three properties of the registry in one.                                *)
(***************************************************************************)
ReplicasOf(P) == [p \in Peers |-> P[p].replica]

\* SeenClaims.
ClaimsSeen(P, p, x) ==
  {e \in UNION {P[q].filed : q \in Peers} :
     e.value = x /\ Seen(P[p].replica.frontier, e.version)}

EntriesSeen(P, p, x) == {Loser(e.row, e.version) : e \in ClaimsSeen(P, p, x)}

Entries(P, p) == [x \in ClaimKeys |-> EntriesSeen(P, p, x)]

\* FiledInv.
FiledBy(P) ==
  \A p \in Peers : \A e \in P[p].filed :
    e.version.peer = p /\ e.version.counter <= P[p].replica.clock

\* TickInv.
TicksBy(P) ==
  \A p \in Peers : \A e, f \in P[p].filed : e.version = f.version => e.row = f.row

\* ValueInv, of one value.
HasClaimed(P, p, k, x) == OnOneColumn(x) => \E e \in ClaimsSeen(P, p, x) : e.row = k

ValuesBy(P) ==
  \A p \in Peers, k \in Keys : \A x \in ValueKeys(k, P[p].replica.rows[k]) :
    HasClaimed(P, p, k, x)

\* The claims of each peer record what it has seen.
RegistryInv(P) ==
  \A p \in Peers, x \in ClaimKeys : Settled(P[p].uniqueness[x], EntriesSeen(P, p, x))

\* OwnerIsLatestClaim, ClaimantsArePreserved and LosersHaveClaimed.
RecordInv(P) ==
  \A p \in Peers, x \in ClaimKeys :
    LET c == P[p].uniqueness[x]
        E == ClaimsSeen(P, p, x)
    IN  /\ IF c = NoClaim THEN E = {}
           ELSE /\ [row |-> c.owner, value |-> x, version |-> c.version] \in E
                /\ \A e \in E : VLeq(e.version, c.version)
        /\ \A e \in E : e.row = c.owner \/ e.row \in LoserRows(c)
        /\ \A i \in DOMAIN c.losers :
             [row |-> c.losers[i].row, value |-> x, version |-> c.losers[i].version] \in E

HostInv(P, D) ==
  /\ P \in [Peers -> PeerState]
  /\ ReplicaInv(ReplicasOf(P), D)
  /\ \A p \in Peers : NoReference(P[p].replica, D)
  /\ \A p \in Peers : WellTyped(P[p].replica)
  /\ FiledBy(P)
  /\ TicksBy(P)
  /\ ValuesBy(P)
  /\ RegistryInv(P)

LEMMA ClaimsSeenFacts ==
  ASSUME NEW P \in [Peers -> PeerState], NEW p \in Peers, NEW x \in ClaimKeys
  PROVE  /\ ClaimsSeen(P, p, x) \subseteq ClaimEvent
         /\ EntriesSeen(P, p, x) \subseteq Entry
         /\ \A e \in ClaimsSeen(P, p, x) :
              /\ e.row \in Keys /\ e.version \in Version /\ e.value = x
              /\ e = [row |-> e.row, value |-> x, version |-> e.version]
         /\ \A k, v : /\ Loser(k, v).row = k /\ Loser(k, v).version = v
                      /\ Loser(k, v) \in EntriesSeen(P, p, x) <=>
                           [row |-> k, value |-> x, version |-> v] \in ClaimsSeen(P, p, x)
<1> DEFINE C == ClaimsSeen(P, p, x)
           E == EntriesSeen(P, p, x)
<1>1. ASSUME NEW q \in Peers
      PROVE  P[q].filed \subseteq ClaimEvent
  BY PeerFields
<1>2. C \subseteq ClaimEvent
  BY <1>1 DEF ClaimsSeen
<1>3. \A e \in C : /\ e.row \in Keys /\ e.version \in Version /\ e.value = x
                   /\ e = [row |-> e.row, value |-> x, version |-> e.version]
  <2>1. \A e \in C : e.value = x
    BY DEF ClaimsSeen
  <2>2. \A e \in ClaimEvent : e.row \in Keys /\ e.version \in Version
          /\ e = [row |-> e.row, value |-> e.value, version |-> e.version]
    BY DEF ClaimEvent
  <2> HIDE DEF C
  <2> QED BY <1>2, <2>1, <2>2
<1>4. E = {Loser(e.row, e.version) : e \in C}
  BY DEF EntriesSeen
<1> HIDE DEF C, E
<1>5. E \subseteq Entry
  BY <1>3, <1>4 DEF Entry, Loser
<1>6. ASSUME NEW k, NEW v
      PROVE  /\ Loser(k, v).row = k /\ Loser(k, v).version = v
             /\ Loser(k, v) \in E <=> [row |-> k, value |-> x, version |-> v] \in C
  <2> DEFINE f == [row |-> k, value |-> x, version |-> v]
  <2>1. f.row = k /\ f.version = v
    OBVIOUS
  <2>2. \A j, w : Loser(j, w).row = j /\ Loser(j, w).version = w
    BY DEF Loser
  <2>3. ASSUME f \in C PROVE Loser(k, v) \in E
    <3> HIDE DEF f
    <3> QED BY <1>4, <2>1, <2>3
  <2>4. ASSUME Loser(k, v) \in E PROVE f \in C
    <3>1. PICK e \in C : Loser(k, v) = Loser(e.row, e.version)
      BY <1>4, <2>4
    <3>2. e.row = k /\ e.version = v
      BY <2>2, <3>1
    <3> QED BY <1>3, <3>2
  <2> QED BY <2>2, <2>3, <2>4
<1> QED BY <1>2, <1>3, <1>5, <1>6 DEF C, E

LEMMA RegistryIsRecord ==
  ASSUME NEW P \in [Peers -> PeerState]
  PROVE  RegistryInv(P) <=> RecordInv(P)
<1>1. ASSUME NEW p \in Peers, NEW x \in ClaimKeys
      PROVE  LET c == P[p].uniqueness[x]
                 E == ClaimsSeen(P, p, x)
             IN  Settled(c, EntriesSeen(P, p, x)) <=>
                   /\ IF c = NoClaim THEN E = {}
                      ELSE /\ [row |-> c.owner, value |-> x, version |-> c.version] \in E
                           /\ \A e \in E : VLeq(e.version, c.version)
                   /\ \A e \in E : e.row = c.owner \/ e.row \in LoserRows(c)
                   /\ \A i \in DOMAIN c.losers :
                        [row |-> c.losers[i].row, value |-> x,
                         version |-> c.losers[i].version] \in E
  <2> DEFINE c == P[p].uniqueness[x]
             C == ClaimsSeen(P, p, x)
             E == EntriesSeen(P, p, x)
  <2>1. c \in ClaimOf(Keys)
    BY PeerFields DEF Registry
  <2>2. /\ E \subseteq Entry
        /\ \A e \in C : /\ e.row \in Keys /\ e.version \in Version /\ e.value = x
                        /\ e = [row |-> e.row, value |-> x, version |-> e.version]
        /\ \A k, v : /\ Loser(k, v).row = k /\ Loser(k, v).version = v
                     /\ Loser(k, v) \in E <=> [row |-> k, value |-> x, version |-> v] \in C
    BY ClaimsSeenFacts
  <2>3. E = {Loser(e.row, e.version) : e \in C}
    BY DEF EntriesSeen
  <2>4. NoClaim.losers = <<>>
    BY DEF NoClaim
  <2> HIDE DEF c, C, E
  <2>5. E = {} <=> C = {}
    BY <2>3
  <2>6. CASE c = NoClaim
    <3>1. DOMAIN c.losers = {}
      BY <2>4, <2>6
    <3>2. Settled(c, E) <=> E = {}
      BY <2>1, <2>2, <2>6 DEF Settled
    <3> QED BY <2>5, <2>6, <3>1, <3>2 DEF c, C, E
  <2>7. CASE c # NoClaim
    <3>1. c.losers \in Seq(Entry) /\ LoserRows(c) = RowsIn(c.losers)
      BY <2>1, <2>7, ClaimFields, LoserRowsAreRowsIn
    <3>2. (\A e \in E : VLeq(e.version, c.version)) <=> (\A e \in C : VLeq(e.version, c.version))
      BY <2>2, <2>3
    <3>3. (\A e \in E : e.row = c.owner \/ e.row \in RowsIn(c.losers))
            <=> (\A e \in C : e.row = c.owner \/ e.row \in LoserRows(c))
      BY <2>2, <2>3, <3>1
    <3>4. ToSet(c.losers) \subseteq E <=>
            \A i \in DOMAIN c.losers :
              [row |-> c.losers[i].row, value |-> x, version |-> c.losers[i].version] \in C
      <4>1. \A i \in DOMAIN c.losers : c.losers[i] = Loser(c.losers[i].row, c.losers[i].version)
        <5>1. \A i \in DOMAIN c.losers : c.losers[i] \in Entry
          BY <3>1
        <5> QED BY <5>1, EntryFields
      <4>2. ToSet(c.losers) \subseteq E <=> \A i \in DOMAIN c.losers : c.losers[i] \in E
        BY DEF ToSet
      <4>3. ASSUME NEW i \in DOMAIN c.losers
            PROVE  c.losers[i] \in E <=>
                     [row |-> c.losers[i].row, value |-> x, version |-> c.losers[i].version] \in C
        <5> DEFINE k == c.losers[i].row
                   v == c.losers[i].version
        <5>1. Loser(k, v) \in E <=> [row |-> k, value |-> x, version |-> v] \in C
          BY <2>2
        <5> QED BY <4>1, <5>1
      <4> QED BY <4>2, <4>3
    <3>5. Loser(c.owner, c.version) \in E <=>
            [row |-> c.owner, value |-> x, version |-> c.version] \in C
      BY <2>2
    <3>6. Settled(c, E) <=> /\ Loser(c.owner, c.version) \in E
                            /\ \A e \in E : VLeq(e.version, c.version)
                            /\ ToSet(c.losers) \subseteq E
                            /\ \A e \in E : e.row = c.owner \/ e.row \in RowsIn(c.losers)
      BY <2>1, <2>2, <2>7 DEF Settled
    <3> QED BY <2>7, <3>2, <3>3, <3>4, <3>5, <3>6 DEF c, C, E
  <2> QED BY <2>6, <2>7
<1> QED BY <1>1 DEF RegistryInv, RecordInv

-----------------------------------------------------------------------------
(***************************************************************************)
(* A call as a merge followed by writes of its own.                        *)
(***************************************************************************)

\* The merge before the writes brings no deletes of p.
LEMMA DeletedBySame ==
  ASSUME NEW p \in Peers, NEW r, NEW q, NEW s, Good(r, p), Good(q, p),
         Grows(q, s, p, Values), r.clock <= q.clock,
         \A k \in Keys : q.tombs[k].peer = p => q.tombs[k] = r.tombs[k]
  PROVE  DeletedBy(p, r, s) = DeletedBy(p, q, s)
<1>1. ASSUME NEW k \in Keys, s.tombs[k].peer = p
      PROVE  s.tombs[k] # r.tombs[k] <=> s.tombs[k] # q.tombs[k]
  <2>1. ASSUME s.tombs[k] # q.tombs[k], s.tombs[k] = r.tombs[k]
        PROVE  FALSE
    <3>1. Fresh(q, s, p, s.tombs[k])
      BY <2>1 DEF Grows, DeleteGrows
    <3>2. /\ s.tombs[k] \in Version /\ s.tombs[k].counter \in Nat
          /\ q.clock < s.tombs[k].counter
      BY <3>1 DEF Fresh, Version
    <3>3. /\ Seen(r.frontier, s.tombs[k]) /\ r.frontier[p] = r.clock
          /\ r.clock \in Nat /\ q.clock \in Nat
      BY <2>1, ReplicaFields DEF Good
    <3>4. s.tombs[k] # NoVersion
      BY <3>2, VersionIsOpt
    <3>5. s.tombs[k].counter <= r.clock
      BY <1>1, <3>3, <3>4 DEF Seen
    <3> QED BY <3>2, <3>3, <3>5
  <2> QED BY <1>1, <2>1
<1> QED BY <1>1 DEF DeletedBy

LEMMA DeletedByFacts ==
  ASSUME NEW p \in Peers, NEW r, NEW s, Good(r, p), Grows(r, s, p, Values)
  PROVE  \A e \in DeletedBy(p, r, s) :
           /\ e \in Removal
           /\ e.version.peer = p /\ e.version = s.tombs[e.key]
           /\ e.version # r.tombs[e.key] /\ e.seen = s.frontier
<1>1. s \in ReplicaState /\ s.frontier \in Frontier
  BY ReplicaFields DEF Grows, Good
<1>2. SUFFICES ASSUME NEW e \in DeletedBy(p, r, s)
               PROVE  /\ e \in Removal
                      /\ e.version.peer = p /\ e.version = s.tombs[e.key]
                      /\ e.version # r.tombs[e.key] /\ e.seen = s.frontier
  OBVIOUS
<1>3. PICK k \in Keys : /\ s.tombs[k] # r.tombs[k]
                        /\ s.tombs[k].peer = p
                        /\ e = [key |-> k, version |-> s.tombs[k], seen |-> s.frontier]
  BY <1>2 DEF DeletedBy
<1>4. e.key = k /\ e.version = s.tombs[k] /\ e.seen = s.frontier
  BY <1>3
<1>5. s.tombs[k] \in Version
  BY <1>3 DEF Grows, DeleteGrows, Fresh
<1> QED BY <1>1, <1>3, <1>4, <1>5 DEF Removal

\* F adds to D the deletes of the peers of X on the way from M to S.
AddsDeletes(M, S, D, X, F) == F = D \cup UNION {DeletedBy(p, M[p], S[p]) : p \in X}

\* The peers of X lead from M to S by deletes and NULLs, the others by writes
\* that delete nothing.
OwnWrites(M, S, X) ==
  /\ S \in [Peers -> ReplicaState]
  /\ X \subseteq Peers
  /\ \A p \in Peers : Grows(M[p], S[p], p, Values)
  /\ \A p \in X : Grows(M[p], S[p], p, {Null})
  /\ \A p \in Peers \ X : \A k \in Keys : S[p].tombs[k] = M[p].tombs[k]

LEMMA GrownFrom ==
  ASSUME NEW M, NEW D, ReplicaInv(M, D), NEW S, NEW X, OwnWrites(M, S, X),
         NEW F, AddsDeletes(M, S, D, X, F)
  PROVE  Grown(M, S, D, F) /\ \A e \in F \ D : e.version.peer \in X
<1>1. \A p \in Peers : Good(M[p], p)
  BY HeldIsGood
<1>2. ASSUME NEW p \in X, NEW e \in DeletedBy(p, M[p], S[p])
      PROVE  /\ e \in Removal
             /\ e.version.peer = p /\ e.version = S[p].tombs[e.key]
             /\ e.version # M[p].tombs[e.key] /\ e.seen = S[p].frontier
  BY <1>1, DeletedByFacts DEF OwnWrites
<1>3. ASSUME NEW e \in F \ D
      PROVE  IsNewDelete(M, S, e) /\ e.version.peer \in X /\ e \in Removal
  <2>1. PICK p \in X : e \in DeletedBy(p, M[p], S[p])
    BY DEF AddsDeletes
  <2>2. /\ e \in Removal
        /\ e.version.peer = p /\ e.version = S[p].tombs[e.key]
        /\ e.version # M[p].tombs[e.key] /\ e.seen = S[p].frontier
    BY <1>2, <2>1
  <2>3. Grows(M[p], S[p], p, {Null})
    BY DEF OwnWrites
  <2> DEFINE x == e.version.peer
  <2>4. x = p
    BY <2>2
  <2> HIDE DEF x
  <2>5. /\ e.version = S[x].tombs[e.key] /\ e.version # M[x].tombs[e.key]
        /\ e.seen = S[x].frontier /\ Grows(M[x], S[x], x, {Null})
    BY <2>2, <2>3, <2>4
  <2> QED BY <2>2, <2>4, <2>5 DEF IsNewDelete, x
<1>4. F \subseteq Removal /\ D \subseteq F
  BY <1>3 DEF ReplicaInv, AddsDeletes
<1>5. ASSUME NEW p \in Peers, NEW k \in Keys,
             S[p].tombs[k] # M[p].tombs[k], S[p].tombs[k].peer = p
      PROVE  \E e \in F : e.key = k /\ e.version = S[p].tombs[k]
  <2> DEFINE e == [key |-> k, version |-> S[p].tombs[k], seen |-> S[p].frontier]
  <2>1. p \in X
    BY <1>5 DEF OwnWrites
  <2>2. e \in DeletedBy(p, M[p], S[p])
    BY <1>5 DEF DeletedBy
  <2>3. e \in F
    BY <2>1, <2>2 DEF AddsDeletes
  <2> QED BY <2>3
<1> QED BY <1>3, <1>4, <1>5 DEF Grown, OwnWrites

LEMMA GrowsMore ==
  ASSUME NEW r, NEW s, NEW p, Grows(r, s, p, {Null})
  PROVE  Grows(r, s, p, Values)
BY NullIsNoKey DEF Grows, CellGrows

-----------------------------------------------------------------------------
(***************************************************************************)
(* Statements.                                                             *)
(***************************************************************************)
LEMMA StatementStarts ==
  ASSUME NEW P, NEW D, HostInv(P, D), NEW p \in Peers
  PROVE  Starts(P[p], p, Entries(P, p))
<1>1. P[p] \in PeerState /\ WellTyped(P[p].replica)
  BY DEF HostInv
<1>2. Good(P[p].replica, p)
  <2>1. ReplicaInv(ReplicasOf(P), D) /\ ReplicasOf(P)[p] = P[p].replica
    BY DEF HostInv, ReplicasOf
  <2> QED BY <2>1, HeldIsGood
<1>3. ASSUME NEW x \in ClaimKeys
      PROVE  Settled(P[p].uniqueness[x], Entries(P, p)[x] \cup Claimed(P[p].filed, x))
  <2>1. Settled(P[p].uniqueness[x], EntriesSeen(P, p, x))
    BY DEF HostInv, RegistryInv
  <2>2. Claimed(P[p].filed, x) \subseteq EntriesSeen(P, p, x)
    <3>1. ASSUME NEW e \in P[p].filed, e.value = x
          PROVE  e \in ClaimsSeen(P, p, x)
      <4>1. e.version.peer = p /\ e.version.counter <= P[p].replica.clock
        BY DEF HostInv, FiledBy
      <4>2. P[p].replica.frontier[p] = P[p].replica.clock
        BY <1>2 DEF Good
      <4> QED BY <3>1, <4>1, <4>2 DEF ClaimsSeen, Seen
    <3> QED BY <3>1 DEF Claimed, EntriesSeen
  <2>3. Entries(P, p)[x] \cup Claimed(P[p].filed, x) = EntriesSeen(P, p, x)
    BY <2>2 DEF Entries
  <2> QED BY <2>1, <2>3
<1> QED BY <1>1, <1>2, <1>3 DEF Starts

\* The other peers are as they were.
IsStatement(P, Q, p, W) ==
  /\ Q \in [Peers -> PeerState]
  /\ \A q \in Peers : q # p => Q[q] = P[q]
  /\ Runs(P[p], Q[p], p, W, Entries(P, p))
  /\ Files(P[p], Q[p])

LEMMA StatementRecords ==
  ASSUME NEW P, NEW D, HostInv(P, D), NEW p \in Peers, NEW Q, NEW W, IsStatement(P, Q, p, W)
  PROVE  FiledBy(Q) /\ RegistryInv(Q) /\ \A q \in Peers : WellTyped(Q[q].replica)
<1> DEFINE r == P[p].replica
           s == Q[p].replica
<1>1. /\ Good(s, p) /\ s \in ReplicaState /\ r.clock <= s.clock
      /\ \A q \in Peers : q # p => s.frontier[q] = r.frontier[q]
      /\ WellTyped(s)
  BY DEF IsStatement, Runs, Grows, Good
<1>2. P \in [Peers -> PeerState] /\ Q \in [Peers -> PeerState]
      /\ P[p].filed \subseteq Q[p].filed
      /\ \A e \in Q[p].filed \ P[p].filed : Fresh(r, s, p, e.version)
  BY DEF HostInv, IsStatement, Runs
<1>3. ReplicaInv(ReplicasOf(P), D)
      /\ \A q \in Peers : ReplicasOf(P)[q] = P[q].replica
  BY DEF HostInv, ReplicasOf
<1>4. /\ r.clock \in Nat /\ s.clock \in Nat /\ s.frontier[p] = s.clock
      /\ \A q \in Peers : /\ P[q].replica.frontier[p] <= r.clock
                          /\ P[q].replica.frontier[p] \in Nat
                          /\ P[q].replica.frontier[q] = P[q].replica.clock
  BY <1>1, <1>3, ClockFields, ReplicaFields DEF Good
<1>5. \A q \in Peers : \A e \in Q[q].filed : e.version \in Version /\ e.version.counter \in Nat
                                             /\ e.version # NoVersion
  <2>1. \A q \in Peers : Q[q].filed \subseteq ClaimEvent
    BY <1>2, PeerFields
  <2> QED BY <2>1, VersionIsOpt DEF ClaimEvent, Version
<1>6. ASSUME NEW q \in Peers, NEW e \in Q[q].filed
      PROVE  e.version.peer = q /\ e.version.counter <= Q[q].replica.clock
  <2>1. CASE e \in P[q].filed
    <3>1. e.version.peer = q /\ e.version.counter <= P[q].replica.clock
      BY <2>1 DEF HostInv, FiledBy
    <3>2. CASE q = p
      BY <1>1, <1>4, <1>5, <3>1, <3>2
    <3>3. CASE q # p
      BY <3>1, <3>3 DEF IsStatement
    <3> QED BY <3>2, <3>3
  <2>2. CASE e \notin P[q].filed
    <3>1. q = p
      BY <1>6, <2>2 DEF IsStatement
    <3> QED BY <1>2, <1>6, <2>2, <3>1 DEF Fresh
  <2> QED BY <2>1, <2>2
<1>7. ASSUME NEW q \in Peers, q # p, NEW x \in ClaimKeys
      PROVE  ClaimsSeen(Q, q, x) = ClaimsSeen(P, q, x)
  <2>1. Q[q] = P[q]
    BY <1>7 DEF IsStatement
  <2>2. ASSUME NEW y \in Peers, NEW e \in Q[y].filed, Seen(Q[q].replica.frontier, e.version)
        PROVE  e \in P[y].filed
    <3>1. SUFFICES ASSUME y = p, Fresh(r, s, p, e.version) PROVE FALSE
      BY <1>2, <2>2 DEF IsStatement
    <3>2. e.version.peer = p /\ r.clock < e.version.counter
      BY <3>1 DEF Fresh
    <3>3. e.version.counter <= P[q].replica.frontier[p]
      BY <1>5, <2>1, <2>2, <3>2 DEF Seen
    <3> QED BY <1>4, <1>5, <2>2, <3>2, <3>3
  <2>3. \A y \in Peers : P[y].filed \subseteq Q[y].filed
    BY <1>2 DEF IsStatement
  <2> QED BY <2>1, <2>2, <2>3 DEF ClaimsSeen
<1>8. ASSUME NEW x \in ClaimKeys
      PROVE  EntriesSeen(Q, p, x) = EntriesSeen(P, p, x) \cup Claimed(Q[p].filed, x)
  <2>1. ASSUME NEW e, e \in ClaimsSeen(Q, p, x)
        PROVE  e \in ClaimsSeen(P, p, x) \/ e \in {f \in Q[p].filed : f.value = x}
    <3>1. PICK y \in Peers : e \in Q[y].filed /\ e.value = x /\ Seen(s.frontier, e.version)
      BY <2>1 DEF ClaimsSeen
    <3>2. SUFFICES ASSUME y # p PROVE e \in ClaimsSeen(P, p, x)
      BY <3>1
    <3>3. e \in P[y].filed
      BY <3>1, <3>2 DEF IsStatement
    <3>4. e.version.peer = y
      BY <1>6, <3>1
    <3>5. Seen(r.frontier, e.version)
      BY <1>1, <3>1, <3>2, <3>4 DEF Seen
    <3> QED BY <3>1, <3>3, <3>5 DEF ClaimsSeen
  <2>2. ASSUME NEW e, e \in ClaimsSeen(P, p, x)
        PROVE  e \in ClaimsSeen(Q, p, x)
    <3>1. PICK y \in Peers : e \in P[y].filed /\ e.value = x /\ Seen(r.frontier, e.version)
      BY <2>2 DEF ClaimsSeen
    <3>2. e \in Q[y].filed
      BY <1>2, <3>1 DEF IsStatement
    <3>3. e.version.peer = y /\ e.version.counter <= Q[y].replica.clock
      BY <1>6, <3>2
    <3>4. Seen(s.frontier, e.version)
      BY <1>1, <1>4, <3>1, <3>3 DEF Seen
    <3> QED BY <3>1, <3>2, <3>4 DEF ClaimsSeen
  <2>3. ASSUME NEW e \in Q[p].filed, e.value = x
        PROVE  e \in ClaimsSeen(Q, p, x)
    <3>1. Seen(s.frontier, e.version)
      BY <1>4, <1>6 DEF Seen
    <3> QED BY <2>3, <3>1 DEF ClaimsSeen
  <2>4. ClaimsSeen(Q, p, x) = ClaimsSeen(P, p, x) \cup {f \in Q[p].filed : f.value = x}
    BY <2>1, <2>2, <2>3
  <2> QED BY <2>4 DEF EntriesSeen, Claimed
<1>9. ASSUME NEW q \in Peers, NEW x \in ClaimKeys
      PROVE  Settled(Q[q].uniqueness[x], EntriesSeen(Q, q, x))
  <2>1. CASE q = p
    BY <1>8, <2>1 DEF IsStatement, Runs, Entries
  <2>2. CASE q # p
    <3>1. Q[q] = P[q] /\ EntriesSeen(Q, q, x) = EntriesSeen(P, q, x)
      BY <1>7, <2>2 DEF IsStatement, EntriesSeen
    <3> QED BY <3>1 DEF HostInv, RegistryInv
  <2> QED BY <2>1, <2>2
<1>10. \A q \in Peers : WellTyped(Q[q].replica)
  BY <1>1 DEF HostInv, IsStatement
<1> QED BY <1>6, <1>9, <1>10 DEF FiledBy, RegistryInv

\* The claims a statement files are for rows of their own, and cover the values
\* it has written.
LEMMA StatementClaims ==
  ASSUME NEW P, NEW D, HostInv(P, D), NEW p \in Peers, NEW Q, NEW W, IsStatement(P, Q, p, W)
  PROVE  TicksBy(Q) /\ ValuesBy(Q)
<1>1. FiledBy(Q) /\ P \in [Peers -> PeerState] /\ Q \in [Peers -> PeerState]
  BY StatementRecords DEF HostInv, IsStatement
<1>2. /\ P[p].filed \subseteq Q[p].filed /\ Files(P[p], Q[p])
      /\ \A q \in Peers : q # p => Q[q] = P[q]
  BY DEF IsStatement, Runs
<1>3. NamesRows(P[p].filed, P[p].replica.clock)
  BY DEF HostInv, FiledBy, TicksBy, NamesRows
<1>4. TicksBy(Q)
  <2>1. NamesRows(Q[p].filed, Q[p].replica.clock)
    BY <1>2, <1>3 DEF Files
  <2> QED BY <1>2, <2>1 DEF HostInv, TicksBy, NamesRows
<1>5. \A q \in Peers : Q[q].replica.frontier \in Frontier /\ P[q].replica.frontier \in Frontier
                       /\ P[q].filed \subseteq Q[q].filed
  BY <1>1, <1>2, PeerFields, ReplicaFields
<1>6. Q[p].replica.frontier[p] = Q[p].replica.clock
      /\ \A q \in Peers : P[p].replica.frontier[q] <= Q[p].replica.frontier[q]
  <2>1. /\ Q[p].replica.frontier[p] = Q[p].replica.clock
        /\ P[p].replica.clock <= Q[p].replica.clock
        /\ \A q \in Peers : q # p => Q[p].replica.frontier[q] = P[p].replica.frontier[q]
    BY DEF IsStatement, Runs, Grows, Good
  <2>2. P[p].replica.frontier[p] = P[p].replica.clock
    BY StatementStarts DEF Starts, Good
  <2>3. \A q \in Peers : P[p].replica.frontier[q] \in Nat
    BY <1>5 DEF Frontier
  <2> QED BY <2>1, <2>2, <2>3
<1>7. ASSUME NEW x \in ClaimKeys, NEW q \in Peers, NEW e \in ClaimsSeen(P, q, x)
      PROVE  e \in ClaimsSeen(Q, q, x)
  <2>1. PICK y \in Peers : e \in P[y].filed
    BY DEF ClaimsSeen
  <2>2. e.value = x /\ Seen(P[q].replica.frontier, e.version) /\ e.version \in Version
    BY <1>1, <1>7, ClaimsSeenFacts DEF ClaimsSeen
  <2>3. Seen(Q[q].replica.frontier, e.version)
    <3>1. CASE q = p
      BY <1>5, <1>6, <2>2, <3>1, SeenMonotone, VersionIsOpt
    <3>2. CASE q # p
      BY <1>2, <2>2, <3>2
    <3> QED BY <3>1, <3>2
  <2> QED BY <1>5, <2>1, <2>2, <2>3 DEF ClaimsSeen
<1>8. ASSUME NEW q \in Peers, NEW k \in Keys, NEW x \in ValueKeys(k, Q[q].replica.rows[k]),
             OnOneColumn(x)
      PROVE  \E e \in ClaimsSeen(Q, q, x) : e.row = k
  <2>1. x \in ClaimKeys
    <3>1. WellTyped(Q[q].replica) /\ Q[q].replica \in ReplicaState
      BY <1>1, StatementRecords, PeerFields
    <3>2. Q[q].replica.rows[k] \in Row
      BY <3>1, ReplicaFields
    <3> QED BY <3>1, <3>2, ValueKeysAreClaimKeys DEF WellTyped
  <2>2. CASE x \in ValueKeys(k, P[q].replica.rows[k])
    <3>1. \E e \in ClaimsSeen(P, q, x) : e.row = k
      BY <1>8, <2>2 DEF HostInv, ValuesBy, HasClaimed
    <3> QED BY <1>7, <2>1, <3>1
  <2>3. CASE x \notin ValueKeys(k, P[q].replica.rows[k])
    <3>1. q = p
      BY <1>2, <1>8, <2>3
    <3>2. PICK e \in Q[p].filed : e.row = k /\ e.value = x
      BY <1>2, <1>8, <2>3, <3>1 DEF Files
    <3>3. Seen(Q[p].replica.frontier, e.version)
      BY <1>1, <1>6 DEF FiledBy, Seen
    <3>4. e \in ClaimsSeen(Q, p, x)
      BY <3>2, <3>3 DEF ClaimsSeen
    <3> QED BY <3>1, <3>2, <3>4
  <2> QED BY <2>2, <2>3
<1>9. ValuesBy(Q)
  BY <1>8 DEF ValuesBy, HasClaimed
<1> QED BY <1>4, <1>9

\* INSERT and UPDATE delete nothing; DELETE writes only NULL and cascades.
LEMMA StatementInv ==
  ASSUME NEW P, NEW D, HostInv(P, D), NEW p \in Peers, NEW Q, NEW F, NEW W \in SUBSET Values,
         IsStatement(P, Q, p, W),
         F = D \cup DeletedBy(p, P[p].replica, Q[p].replica),
         \/ \A k \in Keys : Q[p].replica.tombs[k] = P[p].replica.tombs[k]
         \/ W = {Null} /\ NothingToCascade(Q[p].replica)
  PROVE  HostInv(Q, F)
<1> DEFINE R == ReplicasOf(P)
           S == ReplicasOf(Q)
<1>1. P \in [Peers -> PeerState] /\ Q \in [Peers -> PeerState]
  BY DEF HostInv, IsStatement
<1>2. /\ \A q \in Peers : R[q] = P[q].replica /\ S[q] = Q[q].replica
      /\ S \in [Peers -> ReplicaState]
      /\ ReplicaInv(R, D)
  BY <1>1, PeerFields DEF ReplicasOf, HostInv
<1> HIDE DEF R, S
<1>3. \A q \in Peers : NoReference(R[q], D)
  BY <1>2 DEF HostInv
<1>4. Grows(R[p], S[p], p, W)
  BY <1>2 DEF IsStatement, Runs
<1>5. \A q \in Peers : q # p => S[q] = R[q]
  BY <1>2 DEF IsStatement
<1>6. \A q \in Peers : Grows(R[q], S[q], q, Values)
  <2>1. \A q \in Peers : Good(R[q], q)
    BY <1>2, HeldIsGood
  <2>2. Grows(R[p], S[p], p, Values)
    BY <1>4 DEF Grows, CellGrows
  <2> QED BY <1>5, <2>1, <2>2, GrowsFromItself
<1>7. CASE \A k \in Keys : S[p].tombs[k] = R[p].tombs[k]
  <2>1. F = D
    BY <1>2, <1>7 DEF DeletedBy
  <2> DEFINE X == {}
  <2>2. \A q \in Peers \ X : \A k \in Keys : S[q].tombs[k] = R[q].tombs[k]
    BY <1>5, <1>7
  <2>3. OwnWrites(R, S, X) /\ AddsDeletes(R, S, D, X, F)
    BY <1>2, <1>6, <2>1, <2>2 DEF AddsDeletes, OwnWrites
  <2>4. Grown(R, S, D, F)
    <3> HIDE DEF X
    <3> QED BY <1>2, <2>3, GrownFrom
  <2>5. \A q \in Peers : NoReference(S[q], F)
    BY <1>2, <1>3, <2>1, <2>4, GrownNoReference
  <2> QED BY <1>1, <1>2, <2>4, <2>5, GrownReplicaInv, StatementRecords, StatementClaims DEF HostInv, S
<1>8. CASE W = {Null} /\ NothingToCascade(S[p])
  <2> DEFINE X == {p}
  <2>1. AddsDeletes(R, S, D, X, F)
    BY <1>2 DEF AddsDeletes
  <2>2. \A q \in Peers \ X : \A k \in Keys : S[q].tombs[k] = R[q].tombs[k]
    BY <1>5
  <2>3. \A q \in X : Grows(R[q], S[q], q, {Null})
    BY <1>4, <1>8
  <2>4. Grown(R, S, D, F) /\ \A e \in F \ D : e.version.peer = p
    <3> HIDE DEF X
    <3>1. Grown(R, S, D, F) /\ \A e \in F \ D : e.version.peer \in X
      <4>1. OwnWrites(R, S, X)
        BY <1>2, <1>6, <2>2, <2>3 DEF OwnWrites, X
      <4> QED BY <1>2, <2>1, <4>1, GrownFrom
    <3> QED BY <3>1 DEF X
  <2>5. ReplicaInv(S, F)
    BY <1>2, <2>4, GrownReplicaInv
  <2>6. \A q \in Peers : NoReference(S[q], F)
    <3>1. NoReference(S[p], F)
      BY <1>8, <2>5, QuietNoReference
    <3>2. \A q \in Peers : q # p => NoReference(S[q], F)
      BY <1>2, <1>3, <2>4, GrownNoReference
    <3> QED BY <3>1, <3>2
  <2> QED BY <1>1, <1>2, <2>5, <2>6, StatementRecords, StatementClaims DEF HostInv, S
<1> QED BY <1>2, <1>7, <1>8

-----------------------------------------------------------------------------
(***************************************************************************)
(* Syncs.                                                                  *)
(***************************************************************************)

\* The replica of s after apply_delta of what q sends it.
MergedReplica(s, p, q) == apply_delta(s.replica, p, extract_delta(q.replica, s.replica.frontier))

MergedRegistry(s, q) == [x \in ClaimKeys |-> merge(s.uniqueness[x], rebuilt(q.uniqueness[x]))]

LEMMA MergedFields ==
  ASSUME NEW s \in PeerState, NEW p, NEW q
  PROVE  Merged(s, p, q) = [replica |-> MergedReplica(s, p, q),
                            uniqueness |-> MergedRegistry(s, q),
                            indexes |-> s.indexes, filed |-> s.filed]
<1> DEFINE m == MergedReplica(s, p, q)
           u == MergedRegistry(s, q)
           n == [replica |-> m, uniqueness |-> s.uniqueness, indexes |-> s.indexes,
                 filed |-> s.filed]
           merged == [replica |-> m, uniqueness |-> u, indexes |-> s.indexes,
                      filed |-> s.filed]
<1>1. s = [replica |-> s.replica, uniqueness |-> s.uniqueness, indexes |-> s.indexes,
           filed |-> s.filed]
  BY DEF PeerState
<1>2. Merged(s, p, q) = [s EXCEPT !.replica = m, !.uniqueness = u]
  BY DEF Merged, MergedReplica, MergedRegistry
<1> HIDE DEF m, u
<1>3. [s EXCEPT !.replica = m] = n
  BY <1>1
<1>4. [n EXCEPT !.uniqueness = u] = merged
  OBVIOUS
<1>5. [s EXCEPT !.replica = m, !.uniqueness = u] = [[s EXCEPT !.replica = m] EXCEPT !.uniqueness = u]
  OBVIOUS
<1> QED BY <1>2, <1>3, <1>4, <1>5 DEF m, u

\* The passes run on what the merge has brought.
LEMMA SyncedReplica ==
  ASSUME NEW s \in PeerState, NEW p, NEW q
  PROVE  /\ Merged(s, p, q).replica = MergedReplica(s, p, q)
         /\ Merged(s, p, q).uniqueness = MergedRegistry(s, q)
         /\ Synced(s, p, q).replica = Enforced(MergedReplica(s, p, q), p, MergedRegistry(s, q))
<1> DEFINE merged == Merged(s, p, q)
           r == Resolved(s, merged, p)
<1>1. /\ merged.replica = MergedReplica(s, p, q) /\ merged.uniqueness = MergedRegistry(s, q)
      /\ DOMAIN merged = {"replica", "uniqueness", "indexes", "filed"}
  BY MergedFields
<1>2. r = Enforced(MergedReplica(s, p, q), p, MergedRegistry(s, q))
  BY <1>1 DEF Resolved
<1>3. Synced(s, p, q) = [merged EXCEPT !.replica = r,
                                       !.indexes = [i \in DOMAIN @ |-> Rebuilt(i, r.rows)]]
  BY DEF Synced
<1> HIDE DEF merged, r
<1>4. Synced(s, p, q).replica = r
  BY <1>1, <1>3
<1> QED BY <1>1, <1>2, <1>4 DEF merged

\* The losers of every claim of s have given way.
LosersResolved(s) == \A x \in ClaimKeys : ResolvesClaim(s.replica, s.uniqueness, x)

\* The state of p after its side of a sync.
IsSynced(t, s, p, q) ==
  /\ t \in PeerState
  /\ t.filed = s.filed
  /\ t.uniqueness = MergedRegistry(s, q)
  /\ Clears(MergedReplica(s, p, q), t.replica, p)
  /\ NothingToCascade(t.replica)
  /\ Good(MergedReplica(s, p, q), p) => LosersResolved(t)
  /\ InTheirTables(t.uniqueness) => Spares(MergedReplica(s, p, q), t.replica)
  /\ Indexed(t)

LEMMA SyncedFacts ==
  ASSUME NEW s \in PeerState, NEW q \in PeerState, NEW p \in Peers,
         MergedReplica(s, p, q) \in ReplicaState, MergedRegistry(s, q) \in Registry
  PROVE  IsSynced(Synced(s, p, q), s, p, q)
<1> DEFINE m == MergedReplica(s, p, q)
           u == MergedRegistry(s, q)
           r == Enforced(m, p, u)
           i == [j \in DOMAIN s.indexes |-> Rebuilt(j, r.rows)]
           merged == [replica |-> m, uniqueness |-> u, indexes |-> s.indexes,
                      filed |-> s.filed]
           t == [replica |-> r, uniqueness |-> u, indexes |-> i, filed |-> s.filed]
<1>1. Merged(s, p, q) = merged
  BY MergedFields
<1> HIDE DEF m, u
<1>2. s.indexes \in IndexManager /\ s.filed \in SUBSET ClaimEvent
  BY PeerFields
<1>3. m \in ReplicaState /\ u \in Registry
  BY DEF m, u
<1>4. Clears(m, r, p) /\ NothingToCascade(r) /\ r \in ReplicaState
  BY <1>3, EnforcedFacts DEF Clears
<1>5. Synced(s, p, q) = t
  <2>1. Resolved(s, merged, p) = r
    BY DEF Resolved
  <2>2. Synced(s, p, q) = [merged EXCEPT !.replica = r, !.indexes = [j \in DOMAIN @ |-> Rebuilt(j, r.rows)]]
    BY <1>1, <2>1 DEF Synced
  <2>3. merged \in PeerState
    BY <1>2, <1>3, NewPeerState
  <2>4. merged.indexes = s.indexes /\ merged.uniqueness = u /\ merged.filed = s.filed
    OBVIOUS
  <2> HIDE DEF merged, r
  <2>5. Synced(s, p, q) = [merged EXCEPT !.replica = r, !.indexes = i]
    BY <2>2, <2>4
  <2> HIDE DEF i
  <2>6. [merged EXCEPT !.replica = r, !.indexes = i]
          = [replica |-> r, uniqueness |-> merged.uniqueness, indexes |-> i,
             filed |-> merged.filed]
    BY <2>3, PeerExcept
  <2> QED BY <2>4, <2>5, <2>6
<1> HIDE DEF r
<1>6. i \in IndexManager
  <2>1. DOMAIN s.indexes \in SUBSET Indexes
    BY <1>2, IndexManagerFacts
  <2>2. r.rows \in [Keys -> Row]
    BY <1>4 DEF ReplicaState
  <2>3. \A j \in DOMAIN s.indexes : i[j] \subseteq IndexEntry(j)
    BY <2>1, <2>2, RebuiltType
  <2>4. i = [j \in DOMAIN s.indexes |-> i[j]]
    OBVIOUS
  <2> HIDE DEF i
  <2> QED BY <2>1, <2>3, <2>4, IndexManagerFacts
<1> HIDE DEF i
<1>7. t \in PeerState
  BY <1>2, <1>3, <1>4, <1>6, NewPeerState
<1>8. t.replica = r /\ t.uniqueness = u /\ t.filed = s.filed /\ t.indexes = i
  OBVIOUS
<1> HIDE DEF t
<1>9. Good(m, p) => LosersResolved(t)
  <2>1. Good(m, p) => \A x \in ClaimKeys : ResolvesClaim(r, u, x)
    BY <1>3, LosersGiveWay DEF r
  <2> QED BY <1>8, <2>1 DEF LosersResolved
<1>10. InTheirTables(u) => Spares(m, r)
  BY <1>3, EnforcedSpares DEF r
<1>11. Indexed(t)
  BY <1>8 DEF Indexed, i
<1>12. IsSynced(t, s, p, q)
  BY <1>4, <1>7, <1>8, <1>9, <1>10, <1>11 DEF IsSynced, m, u
<1> QED BY <1>5, <1>12

\* Clearing keeps the cells in their columns.
LEMMA ClearedIsWellTyped ==
  ASSUME NEW r, NEW s, NEW p, Grows(r, s, p, {Null}), WellTyped(r)
  PROVE  WellTyped(s)
<1>1. ASSUME NEW k \in Keys, NEW c \in Cols
      PROVE  InColumn(k, c, ValueAt(s.rows[k], c))
  <2>1. InColumn(k, c, ValueAt(r.rows[k], c))
    BY DEF WellTyped
  <2>2. \/ s.rows[k].cells[c] = r.rows[k].cells[c]
        \/ s.rows[k].cells[c].value = Null
    BY DEF Grows, CellGrows
  <2> QED BY <2>1, <2>2 DEF ValueAt, InColumn
<1> QED BY <1>1 DEF WellTyped

LEMMA ReceivedIsWellTyped ==
  ASSUME NEW r, NEW o, NEW s, NEW p, Receives(r, o, s, p), WellTyped(r), WellTyped(o)
  PROVE  WellTyped(s)
<1>1. ASSUME NEW k \in Keys, NEW c \in Cols
      PROVE  InColumn(k, c, ValueAt(s.rows[k], c))
  <2>1. InColumn(k, c, ValueAt(r.rows[k], c)) /\ InColumn(k, c, ValueAt(o.rows[k], c))
    BY DEF WellTyped
  <2>2. \/ s.rows[k].cells[c] = r.rows[k].cells[c]
        \/ s.rows[k].cells[c] = o.rows[k].cells[c]
    BY DEF Receives, RowReceived
  <2> QED BY <2>1, <2>2 DEF ValueAt
<1> QED BY <1>1 DEF WellTyped

\* p has received from q, which led to m, and has then run its passes.
SyncsWith(P, Q, p, q, m) ==
  /\ \A y \in Peers : Q[y].filed = P[y].filed
  /\ Receives(P[p].replica, P[q].replica, m, p)
  /\ Grows(m, Q[p].replica, p, {Null})

\* After a sync p has seen the claims that the two peers had seen.
LEMMA SyncedSeen ==
  ASSUME NEW P, NEW D, HostInv(P, D), NEW Q \in [Peers -> PeerState],
         NEW p \in Peers, NEW q \in Peers, NEW m, SyncsWith(P, Q, p, q, m),
         NEW x \in ClaimKeys
  PROVE  /\ ClaimsSeen(Q, p, x) = ClaimsSeen(P, p, x) \cup ClaimsSeen(P, q, x)
         /\ EntriesSeen(Q, p, x) = EntriesSeen(P, p, x) \cup EntriesSeen(P, q, x)
<1> DEFINE f == P[p].replica.frontier
           g == P[q].replica.frontier
           h == Q[p].replica.frontier
<1>1. /\ \A y \in Peers : y # p => h[y] \in {f[y], g[y]}
      /\ \A y \in Peers : y # p => f[y] <= h[y] /\ g[y] <= h[y]
      /\ h[p] = Q[p].replica.clock
      /\ P[p].replica.clock <= m.clock /\ m.clock <= Q[p].replica.clock
  <2>1. /\ \A y \in Peers : /\ f[y] <= m.frontier[y] /\ g[y] <= m.frontier[y]
                            /\ y # p => m.frontier[y] \in {f[y], g[y]}
        /\ P[p].replica.clock <= m.clock
    BY DEF SyncsWith, Receives
  <2>2. /\ \A y \in Peers : y # p => h[y] = m.frontier[y]
        /\ h[p] = Q[p].replica.clock /\ m.clock <= Q[p].replica.clock
    BY DEF SyncsWith, Grows, Good
  <2> HIDE DEF f, g, h
  <2> QED BY <2>1, <2>2
<1>2. P[p].replica.clock \in Nat /\ m.clock \in Nat /\ Q[p].replica.clock \in Nat
      /\ g \in Frontier
  BY PeerFields, ReplicaFields DEF HostInv, SyncsWith, Receives
<1>3. ReplicaInv(ReplicasOf(P), D) /\ \A y \in Peers : ReplicasOf(P)[y] = P[y].replica
  BY DEF HostInv, ReplicasOf
<1>4. f \in Frontier /\ h \in Frontier
  BY PeerFields, ReplicaFields DEF HostInv
<1>5. ASSUME NEW y \in Peers, NEW e \in P[y].filed
      PROVE  Seen(h, e.version) <=> Seen(f, e.version) \/ Seen(g, e.version)
  <2>1. e.version.peer = y /\ e.version.counter <= P[y].replica.clock
        /\ e.version.counter \in Nat
    <3>1. e \in ClaimEvent
      BY PeerFields DEF HostInv
    <3> QED BY <3>1 DEF HostInv, FiledBy, ClaimEvent, Version
  <2>2. f[y] \in Nat /\ g[y] \in Nat /\ h[y] \in Nat
    BY <1>2, <1>4 DEF Frontier
  <2>3. CASE y = p
    <3>1. e.version.counter <= h[p]
      BY <1>1, <1>2, <2>1, <2>3
    <3>2. f[p] = P[p].replica.clock
      BY <1>3, ClockFields
    <3> QED BY <2>1, <2>3, <3>1, <3>2 DEF Seen
  <2>4. CASE y # p
    <3>1. h[y] = f[y] \/ h[y] = g[y]
      BY <1>1, <2>4
    <3>2. f[y] <= h[y] /\ g[y] <= h[y]
      BY <1>1, <2>4
    <3> HIDE DEF f, g, h
    <3> QED BY <2>1, <2>2, <3>1, <3>2 DEF Seen
  <2> QED BY <2>3, <2>4
<1>6. ClaimsSeen(Q, p, x) = ClaimsSeen(P, p, x) \cup ClaimsSeen(P, q, x)
  BY <1>5 DEF ClaimsSeen, SyncsWith
<1> QED BY <1>6 DEF EntriesSeen

\* What a row holds after a sync on one column, it held at one of the peers.
LEMMA SyncedValues ==
  ASSUME NEW P, NEW Q, NEW p \in Peers, NEW q \in Peers, NEW m, SyncsWith(P, Q, p, q, m),
         NEW k \in Keys, NEW x \in ValueKeys(k, Q[p].replica.rows[k]), OnOneColumn(x)
  PROVE  \/ x \in ValueKeys(k, P[p].replica.rows[k])
         \/ x \in ValueKeys(k, P[q].replica.rows[k])
<1>1. PICK c \in Cols : DOMAIN x.value = {c}
  BY DEF OnOneColumn
<1> DEFINE value(r) == ValueAt(r.rows[k], c)
<1>2. value(Q[p].replica) # Null
  BY <1>1, KeyOfColumn
<1>3. value(Q[p].replica) = value(m)
  BY <1>2 DEF SyncsWith, Grows, CellGrows, ValueAt
<1>4. value(m) = value(P[p].replica) \/ value(m) = value(P[q].replica)
  BY DEF SyncsWith, Receives, RowReceived, ValueAt
<1> QED BY <1>1, <1>3, <1>4, KeyOfColumn

LEMMA MergedRegistrySettles ==
  ASSUME NEW P, NEW D, HostInv(P, D), NEW p \in Peers, NEW q \in Peers
  PROVE  /\ MergedRegistry(P[p], P[q]) \in Registry
         /\ \A x \in ClaimKeys :
              Settled(MergedRegistry(P[p], P[q])[x], EntriesSeen(P, p, x) \cup EntriesSeen(P, q, x))
<1> DEFINE u == MergedRegistry(P[p], P[q])
<1>1. ASSUME NEW x \in ClaimKeys
      PROVE  Settled(u[x], EntriesSeen(P, p, x) \cup EntriesSeen(P, q, x))
  <2>1. /\ Settled(P[p].uniqueness[x], EntriesSeen(P, p, x))
        /\ Settled(P[q].uniqueness[x], EntriesSeen(P, q, x))
    BY DEF HostInv, RegistryInv
  <2>2. Settled(rebuilt(P[q].uniqueness[x]), EntriesSeen(P, q, x))
    BY <2>1, RebuiltSettles
  <2>3. u[x] = merge(P[p].uniqueness[x], rebuilt(P[q].uniqueness[x]))
    BY DEF MergedRegistry
  <2> QED BY <2>1, <2>2, <2>3, MergeSettles
<1>2. u = [x \in ClaimKeys |-> u[x]]
  BY DEF MergedRegistry
<1> HIDE DEF u
<1>3. \A x \in ClaimKeys : u[x] \in ClaimOf(Keys)
  BY <1>1 DEF Settled
<1>4. u \in Registry
  BY <1>2, <1>3 DEF Registry
<1> QED BY <1>1, <1>4 DEF u

\* Both sides of a sync of a with b.
IsSync(P, Q, a, b) ==
  /\ Q \in [Peers -> PeerState]
  /\ \A p \in Peers : p # a /\ p # b => Q[p] = P[p]
  /\ IsSynced(Q[a], P[a], a, P[b])
  /\ IsSynced(Q[b], P[b], b, P[a])

LEMMA SyncInv ==
  ASSUME NEW P, NEW D, HostInv(P, D), NEW a \in Peers, NEW b \in Peers, a # b,
         NEW Q, IsSync(P, Q, a, b), NEW F,
         F = D \cup DeletedBy(b, P[b].replica, Q[b].replica)
               \cup DeletedBy(a, P[a].replica, Q[a].replica)
  PROVE  HostInv(Q, F) /\ LosersResolved(Q[a]) /\ LosersResolved(Q[b])
<1> DEFINE R == ReplicasOf(P)
           S == ReplicasOf(Q)
           ra == MergedReplica(P[a], a, P[b])
           rb == MergedReplica(P[b], b, P[a])
           M == [p \in Peers |-> IF p = a THEN ra ELSE IF p = b THEN rb ELSE R[p]]
           X == {a, b}
<1>1. P \in [Peers -> PeerState] /\ Q \in [Peers -> PeerState]
  BY DEF HostInv, IsSync
<1>2. /\ \A p \in Peers : R[p] = P[p].replica /\ S[p] = Q[p].replica
      /\ S \in [Peers -> ReplicaState]
      /\ ReplicaInv(R, D)
  BY <1>1, PeerFields DEF ReplicasOf, HostInv
<1>3. M[a] = ra /\ M[b] = rb /\ \A p \in Peers : p # a /\ p # b => M[p] = R[p] /\ S[p] = R[p]
  BY <1>2 DEF IsSync
<1> HIDE DEF R, S
<1>4. \A p \in Peers : Good(R[p], p)
  BY <1>2, HeldIsGood
<1>5. Receives(R[a], R[b], M[a], a) /\ Receives(R[b], R[a], M[b], b)
  BY <1>2, <1>3, <1>4, MergeReceives DEF MergedReplica
<1>6. Exchanged(R, M)
  <2>1. \A p \in Peers : p # a /\ p # b => Receives(R[p], R[p], M[p], p)
    BY <1>3, <1>4, ReceivesFromItself
  <2>2. \A p \in Peers : \E q \in Peers : Receives(R[p], R[q], M[p], p)
    BY <1>5, <2>1
  <2>3. M \in [Peers -> ReplicaState]
    <3>1. \A p \in Peers : M[p] \in ReplicaState
      BY <2>2 DEF Receives
    <3>2. M = [p \in Peers |-> M[p]]
      OBVIOUS
    <3> HIDE DEF M
    <3> QED BY <3>1, <3>2
  <2> HIDE DEF M
  <2> QED BY <2>2, <2>3 DEF Exchanged
<1> HIDE DEF M, X
<1>7. ReplicaInv(M, D)
  BY <1>2, <1>6, ExchangedReplicaInv
<1>8. \A p \in Peers : Good(M[p], p)
  BY <1>7, HeldIsGood
<1>9. ASSUME NEW p \in X
      PROVE  /\ Grows(M[p], S[p], p, {Null}) /\ NothingToCascade(S[p])
             /\ Q[p].filed = P[p].filed
  BY <1>2, <1>3, <1>8 DEF IsSync, IsSynced, Clears, X
<1>10. OwnWrites(M, S, X)
  <2>1. \A p \in Peers : p \notin X => S[p] = M[p]
    BY <1>3 DEF X
  <2>2. \A p \in Peers : Grows(M[p], S[p], p, Values)
    BY <1>8, <1>9, <2>1, GrowsMore, GrowsFromItself
  <2>3. X \subseteq Peers
    BY DEF X
  <2> QED BY <1>2, <1>9, <2>1, <2>2, <2>3 DEF OwnWrites
<1>11. AddsDeletes(M, S, D, X, F)
  <2>1. ASSUME NEW p \in Peers, NEW q \in Peers, Receives(R[p], R[q], M[p], p)
        PROVE  DeletedBy(p, R[p], S[p]) = DeletedBy(p, M[p], S[p])
    <3> DEFINE r == R[p]
               m == M[p]
               s == S[p]
    <3>1. Good(r, p) /\ Good(m, p) /\ Grows(m, s, p, Values) /\ r.clock <= m.clock
      BY <1>4, <1>8, <1>10, <2>1 DEF OwnWrites, Receives
    <3>2. \A k \in Keys : m.tombs[k].peer = p => m.tombs[k] = r.tombs[k]
      BY <1>2, <2>1, OwnTombsStay
    <3> HIDE DEF r, m, s
    <3>3. DeletedBy(p, r, s) = DeletedBy(p, m, s)
      BY <3>1, <3>2, DeletedBySame
    <3> QED BY <3>3 DEF r, m, s
  <2>2. F = D \cup DeletedBy(b, M[b], S[b]) \cup DeletedBy(a, M[a], S[a])
    BY <1>2, <1>5, <2>1
  <2> QED BY <2>2 DEF AddsDeletes, X
<1>12. Grown(M, S, D, F) /\ \A e \in F \ D : e.version.peer \in X
  BY <1>7, <1>10, <1>11, GrownFrom
<1>13. ReplicaInv(S, F)
  BY <1>7, <1>12, GrownReplicaInv
<1>14. \A p \in Peers : NoReference(S[p], F)
  <2>1. \A p \in X : NoReference(S[p], F)
    <3>1. X \subseteq Peers
      BY DEF X
    <3> QED BY <1>9, <1>13, <3>1, QuietNoReference
  <2>2. ASSUME NEW p \in Peers, p \notin X
        PROVE  NoReference(S[p], F)
    <3>1. NoReference(M[p], D)
      BY <1>2, <1>3, <2>2 DEF HostInv, X
    <3>2. \A e \in F \ D : e.version.peer # p
      BY <1>12, <2>2
    <3> QED BY <1>7, <1>12, <3>1, <3>2, GrownNoReference
  <2> QED BY <2>1, <2>2
<1>15. \A p \in Peers : WellTyped(Q[p].replica)
  <2>1. \A p \in Peers : WellTyped(R[p])
    BY <1>2 DEF HostInv
  <2>2. WellTyped(M[a]) /\ WellTyped(M[b])
    BY <1>5, <2>1, ReceivedIsWellTyped
  <2>3. WellTyped(S[a]) /\ WellTyped(S[b])
    BY <1>9, <2>2, ClearedIsWellTyped DEF X
  <2> QED BY <1>2, <1>3, <2>1, <2>3
<1>16. \A p \in Peers : Q[p].filed = P[p].filed
  BY <1>9 DEF IsSync, X
<1>17. FiledBy(Q)
  <2>1. ASSUME NEW p \in Peers, NEW e \in Q[p].filed
        PROVE  e.version.peer = p /\ e.version.counter <= Q[p].replica.clock
    <3>1. e.version.peer = p /\ e.version.counter <= R[p].clock
      BY <1>2, <1>16 DEF HostInv, FiledBy
    <3>2. PICK q \in Peers : Receives(R[p], R[q], M[p], p)
      BY <1>6 DEF Exchanged
    <3>3. R[p].clock <= M[p].clock /\ M[p].clock <= S[p].clock
      BY <1>10, <3>2 DEF Receives, OwnWrites, Grows
    <3>4. R[p].clock \in Nat /\ M[p].clock \in Nat /\ S[p].clock \in Nat
      BY <1>2, <1>7, <1>13, ClockFields
    <3>5. e.version.counter \in Nat
      <4>1. Q[p].filed \subseteq ClaimEvent
        BY <1>1, PeerFields
      <4> QED BY <4>1 DEF ClaimEvent, Version
    <3>6. S[p].clock = Q[p].replica.clock
      BY <1>2
    <3> QED BY <3>1, <3>3, <3>4, <3>5, <3>6
  <2> QED BY <2>1 DEF FiledBy
<1>18. RegistryInv(Q)
  <2>1. SUFFICES ASSUME NEW p \in Peers, NEW x \in ClaimKeys
                 PROVE  Settled(Q[p].uniqueness[x], EntriesSeen(Q, p, x))
    BY DEF RegistryInv
  <2>2. ASSUME NEW y \in Peers, NEW z \in Peers, IsSynced(Q[y], P[y], y, P[z]),
               Receives(R[y], R[z], M[y], y), y \in X
        PROVE  Settled(Q[y].uniqueness[x], EntriesSeen(Q, y, x))
    <3>1. Receives(P[y].replica, P[z].replica, M[y], y)
          /\ Grows(M[y], Q[y].replica, y, {Null})
      BY <1>2, <1>9, <2>2
    <3>2. EntriesSeen(Q, y, x) = EntriesSeen(P, y, x) \cup EntriesSeen(P, z, x)
      <4>1. SyncsWith(P, Q, y, z, M[y])
        BY <1>16, <3>1 DEF SyncsWith
      <4> QED BY <1>1, <4>1, SyncedSeen
    <3>3. Q[y].uniqueness = MergedRegistry(P[y], P[z])
      BY <2>2 DEF IsSynced
    <3> QED BY <3>2, <3>3, MergedRegistrySettles
  <2>3. CASE p \in X
    BY <1>5, <2>2, <2>3 DEF IsSync, X
  <2>4. CASE p \notin X
    <3>1. Q[p] = P[p]
      BY <2>4 DEF IsSync, X
    <3>2. EntriesSeen(Q, p, x) = EntriesSeen(P, p, x)
      BY <1>16, <3>1 DEF EntriesSeen, ClaimsSeen
    <3> QED BY <3>1, <3>2 DEF HostInv, RegistryInv
  <2> QED BY <2>3, <2>4
<1>19. \A p \in Peers : NoReference(Q[p].replica, F)
  BY <1>2, <1>14
<1>20. TicksBy(Q)
  BY <1>16 DEF HostInv, TicksBy
<1>21. ValuesBy(Q)
  <2>1. SUFFICES ASSUME NEW p \in Peers, NEW k \in Keys,
                        NEW x \in ValueKeys(k, Q[p].replica.rows[k]), OnOneColumn(x)
                 PROVE  \E e \in ClaimsSeen(Q, p, x) : e.row = k
    BY DEF ValuesBy, HasClaimed
  <2>2. x \in ClaimKeys
    <3>1. WellTyped(Q[p].replica) /\ Q[p].replica \in ReplicaState
      BY <1>1, <1>15, PeerFields
    <3>2. Q[p].replica.rows[k] \in Row
      BY <3>1, ReplicaFields
    <3> QED BY <3>1, <3>2, ValueKeysAreClaimKeys DEF WellTyped
  <2>3. \A y \in Peers : x \in ValueKeys(k, P[y].replica.rows[k]) =>
                            \E e \in ClaimsSeen(P, y, x) : e.row = k
    BY <2>1 DEF HostInv, ValuesBy, HasClaimed
  <2>4. ASSUME NEW y \in Peers, NEW z \in Peers, Receives(R[y], R[z], M[y], y), y \in X, p = y
        PROVE  \E e \in ClaimsSeen(Q, p, x) : e.row = k
    <3>1. SyncsWith(P, Q, y, z, M[y])
      BY <1>2, <1>9, <1>16, <2>4 DEF SyncsWith
    <3>2. ClaimsSeen(Q, y, x) = ClaimsSeen(P, y, x) \cup ClaimsSeen(P, z, x)
      BY <1>1, <2>2, <3>1, SyncedSeen
    <3>3. \/ x \in ValueKeys(k, P[y].replica.rows[k])
          \/ x \in ValueKeys(k, P[z].replica.rows[k])
      BY <2>1, <2>4, <3>1, SyncedValues
    <3> QED BY <2>3, <2>4, <3>2, <3>3
  <2>5. CASE p \in X
    BY <1>5, <2>4, <2>5 DEF X
  <2>6. CASE p \notin X
    <3>1. Q[p] = P[p]
      BY <2>6 DEF IsSync, X
    <3>2. ClaimsSeen(Q, p, x) = ClaimsSeen(P, p, x)
      BY <1>16, <3>1 DEF ClaimsSeen
    <3> QED BY <2>1, <2>3, <3>1, <3>2
  <2> QED BY <2>5, <2>6
<1>22. LosersResolved(Q[a]) /\ LosersResolved(Q[b])
  BY <1>3, <1>8 DEF IsSync, IsSynced
<1> QED BY <1>1, <1>13, <1>15, <1>17, <1>18, <1>19, <1>20, <1>21, <1>22 DEF HostInv, S

-----------------------------------------------------------------------------
(***************************************************************************)
(* Every step keeps the invariant.                                         *)
(***************************************************************************)
LEMMA HostParts ==
  ASSUME NEW P, NEW D
  PROVE  HostInv(P, D) <=>
           /\ P \in [Peers -> PeerState] /\ D \subseteq Removal
           /\ ClockInv(ReplicasOf(P))
           /\ HeldInv(ReplicasOf(P), D)
           /\ DeletedInv(ReplicasOf(P), D)
           /\ RemovalInv(ReplicasOf(P), D)
           /\ \A p \in Peers : NoReference(P[p].replica, D)
           /\ \A p \in Peers : WellTyped(P[p].replica)
           /\ FiledBy(P)
           /\ TicksBy(P)
           /\ ValuesBy(P)
           /\ RecordInv(P)
<1>1. P \in [Peers -> PeerState] => ReplicasOf(P) \in [Peers -> ReplicaState]
  BY PeerFields DEF ReplicasOf
<1> QED BY <1>1, RegistryIsRecord DEF HostInv, ReplicaInv

LEMMA IInvIsHostInv == IInv <=> HostInv(peers, deletes)
<1>1. Replicas = ReplicasOf(peers)
  BY DEF Replicas, ReplicasOf, Replica
<1>2. NoReferenceOutlivesItsDelete <=> \A p \in Peers : NoReference(peers[p].replica, deletes)
  BY DEF NoReferenceOutlivesItsDelete, NoReference, Replica
<1>3. ColumnInv <=> \A p \in Peers : WellTyped(peers[p].replica)
  BY DEF ColumnInv, Replica
<1>4. FiledInv <=> FiledBy(peers)
  BY DEF FiledInv, FiledBy, Replica
<1>7. (TickInv <=> TicksBy(peers)) /\ (ValueInv <=> ValuesBy(peers))
  BY DEF TickInv, TicksBy, ValueInv, ValuesBy, HasClaimed, SeenClaims, ClaimsSeen, Replica
<1>5. LosersHaveClaimed /\ OwnerIsLatestClaim /\ ClaimantsArePreserved <=> RecordInv(peers)
  BY DEF LosersHaveClaimed, OwnerIsLatestClaim, ClaimantsArePreserved, RecordInv,
         SeenClaims, ClaimsSeen, Replica
<1>6. TypeOK <=> peers \in [Peers -> PeerState] /\ deletes \subseteq Removal
  BY DEF TypeOK
<1> QED BY <1>1, <1>2, <1>3, <1>4, <1>5, <1>6, <1>7, HostParts DEF IInv

LEMMA NextIInvIsHostInv == IInv' <=> HostInv(peers', deletes')
<1>1. Replicas' = ReplicasOf(peers')
  BY DEF Replicas, ReplicasOf, Replica
<1>2. NoReferenceOutlivesItsDelete' <=> \A p \in Peers : NoReference(peers'[p].replica, deletes')
  BY DEF NoReferenceOutlivesItsDelete, NoReference, Replica
<1>3. ColumnInv' <=> \A p \in Peers : WellTyped(peers'[p].replica)
  BY DEF ColumnInv, Replica
<1>4. FiledInv' <=> FiledBy(peers')
  BY DEF FiledInv, FiledBy, Replica
<1>7. (TickInv' <=> TicksBy(peers')) /\ (ValueInv' <=> ValuesBy(peers'))
  BY DEF TickInv, TicksBy, ValueInv, ValuesBy, HasClaimed, SeenClaims, ClaimsSeen, Replica
<1>5. LosersHaveClaimed' /\ OwnerIsLatestClaim' /\ ClaimantsArePreserved' <=> RecordInv(peers')
  BY DEF LosersHaveClaimed, OwnerIsLatestClaim, ClaimantsArePreserved, RecordInv,
         SeenClaims, ClaimsSeen, Replica
<1>6. TypeOK' <=> peers' \in [Peers -> PeerState] /\ deletes' \subseteq Removal
  BY DEF TypeOK
<1> QED BY <1>1, <1>2, <1>3, <1>4, <1>5, <1>6, <1>7, HostParts DEF IInv

LEMMA NewPeerFacts ==
  /\ NewPeer \in PeerState
  /\ NewPeer.replica = NewReplica
  /\ NewPeer.filed = {}
  /\ \A x \in ClaimKeys : NewPeer.uniqueness[x] = NoClaim
<1>1. NewReplica \in ReplicaState
  BY NoRowType, VersionIsOpt, EmptyFrontierType DEF NewReplica, ReplicaState, Tombs
<1>2. [x \in ClaimKeys |-> NoClaim] \in Registry
  BY DEF Registry, ClaimOf
<1>3. <<>> \in IndexManager
  <2> DEFINE S == {i \in Indexes : FALSE}
             f == <<>>
  <2>1. f = [i \in S |-> f[i]]
    OBVIOUS
  <2>2. S \in SUBSET Indexes /\ \A i \in S : f[i] \subseteq IndexEntry(i)
    OBVIOUS
  <2> HIDE DEF S, f
  <2>3. f \in IndexManager
    BY <2>1, <2>2, IndexManagerFacts
  <2> QED BY <2>3 DEF f
<1>4. {} \in SUBSET ClaimEvent
  OBVIOUS
<1> QED BY <1>1, <1>2, <1>3, <1>4, NewPeerState DEF NewPeer

LEMMA InitIInv == Init => IInv
<1>1. SUFFICES ASSUME Init PROVE HostInv(peers, deletes)
  BY IInvIsHostInv
<1> DEFINE R == ReplicasOf(peers)
<1>2. deletes = {} /\ peers = [p \in Peers |-> NewPeer]
  BY <1>1 DEF Init
<1>3. peers \in [Peers -> PeerState] /\ R = [p \in Peers |-> NewReplica]
  BY <1>2, NewPeerFacts DEF ReplicasOf
<1>4. /\ NewReplica.clock = 0 /\ NewReplica.frontier = EmptyFrontier
      /\ \A k \in Keys : NewReplica.rows[k] = NoRow /\ NewReplica.tombs[k] = NoVersion
  BY DEF NewReplica
<1>5. \A p \in Peers : EmptyFrontier[p] = 0
  BY DEF EmptyFrontier
<1>6. /\ NoRow.deleted = FALSE /\ NoRow.delVersion = NoVersion
      /\ \A c \in Cols : NoRow.cells[c] = NoCell
      /\ NoCell.version = NoVersion
  BY DEF NoRow, NoCell
<1> HIDE DEF R
<1>7. ClockInv(R)
  BY <1>3, <1>4, <1>5 DEF ClockInv
<1>8. HeldInv(R, deletes)
  BY <1>3, <1>4, <1>6 DEF HeldInv, Seen
<1>9. DeletedInv(R, deletes) /\ RemovalInv(R, deletes) /\ deletes \subseteq Removal
  BY <1>2 DEF DeletedInv, RemovalInv
<1>10. \A p \in Peers : NoReference(peers[p].replica, deletes)
  BY <1>2 DEF NoReference
<1>11. \A p \in Peers : WellTyped(peers[p].replica)
  BY <1>2, <1>4, <1>6, NewPeerFacts DEF WellTyped, InColumn, ValueAt
<1>12. FiledBy(peers)
  BY <1>2, NewPeerFacts DEF FiledBy
<1>13. RecordInv(peers)
  <2>1. \A p \in Peers, x \in ClaimKeys : ClaimsSeen(peers, p, x) = {}
    BY <1>2, NewPeerFacts DEF ClaimsSeen
  <2>2. NoClaim.losers = <<>> /\ DOMAIN NoClaim.losers = {}
    BY DEF NoClaim
  <2> QED BY <1>2, <2>1, <2>2, NewPeerFacts DEF RecordInv
<1>14. TicksBy(peers)
  BY <1>2, NewPeerFacts DEF TicksBy
<1>15. ValuesBy(peers)
  <2>1. ASSUME NEW p \in Peers, NEW k \in Keys,
               NEW x \in ValueKeys(k, peers[p].replica.rows[k]), OnOneColumn(x)
        PROVE  FALSE
    <3>1. PICK c \in Cols : DOMAIN x.value = {c}
      BY <2>1 DEF OnOneColumn
    <3>2. ValueAt(peers[p].replica.rows[k], c) # Null
      BY <3>1, KeyOfColumn
    <3> QED BY <1>2, <1>4, <1>6, <3>2, NewPeerFacts, NoRowType DEF ValueAt
  <2> QED BY <2>1 DEF ValuesBy, HasClaimed
<1> QED BY <1>3, <1>7, <1>8, <1>9, <1>10, <1>11, <1>12, <1>13, <1>14, <1>15, HostParts DEF R

\* A call is a statement at a peer or a sync of two peers.
Stepped(P, Q) ==
  \/ \E p \in Peers : IsStatement(P, Q, p, Values)
  \/ \E a, b \in Peers : IsSync(P, Q, a, b)

\* A statement that deletes nothing.
LEMMA WriteStep ==
  ASSUME HostInv(peers, deletes), NEW p \in Peers, NEW t, peers' = [peers EXCEPT ![p] = t],
         deletes' = deletes, IsWrite(peers[p], t, p, Entries(peers, p))
  PROVE  HostInv(peers', deletes') /\ Stepped(peers, peers')
<1>1. peers \in [Peers -> PeerState] /\ t \in PeerState
  BY DEF HostInv, Runs, IsWrite
<1>2. /\ peers' \in [Peers -> PeerState] /\ peers'[p] = t
      /\ \A q \in Peers : q # p => peers'[q] = peers[q]
  BY <1>1
<1>3. IsStatement(peers, peers', p, Values)
  BY <1>2 DEF IsStatement, IsWrite
<1>4. \A k \in Keys : peers'[p].replica.tombs[k] = peers[p].replica.tombs[k]
  BY <1>2 DEF IsWrite
<1>5. DeletedBy(p, peers[p].replica, peers'[p].replica) = {}
  BY <1>4 DEF DeletedBy
<1>6. deletes' = deletes \cup DeletedBy(p, peers[p].replica, peers'[p].replica)
  BY <1>5
<1> QED BY <1>3, <1>4, <1>6, StatementInv DEF Stepped

\* The rows of an INSERT pass the validation.
LEMMA InsertFacts ==
  ASSUME NEW p \in Peers, NEW t \in Tables, NEW batch \in Batches(t), Insert(p, batch)
  PROVE  \E N : batch \in Seq(N) /\ \A i \in DOMAIN batch :
           /\ IsNew(batch[i]) /\ HasRequired(batch[i])
           /\ peers[p].replica.rows[batch[i].key] = NoRow
<1> DEFINE N == [key : RowsOf(t), vals : Assignments(t)]
<1>1. PICK n \in 1..MaxRows : batch \in [1..n -> N]
  BY DEF Batches
<1>2. batch \in Seq(N) /\ DOMAIN batch = 1..n
  <2> HIDE DEF N
  <2>1. n \in Nat
    BY HostAssumption
  <2> QED BY <1>1, <2>1
<1>3. \A i \in DOMAIN batch : /\ IsNew(batch[i])
                              /\ peers[p].replica.rows[batch[i].key] = NoRow
  BY <1>1, <1>2 DEF Insert, IsNew, RowsOf
<1>4. \A i \in DOMAIN batch : HasRequired(batch[i])
  BY DEF Insert, Accepted, HasRequired
<1> QED BY <1>2, <1>3, <1>4

LEMMA InsertStep ==
  ASSUME HostInv(peers, deletes), NEW p \in Peers, NEW t \in Tables, NEW batch \in Batches(t),
         Insert(p, batch)
  PROVE  HostInv(peers', deletes') /\ Stepped(peers, peers')
<1>1. PICK N : batch \in Seq(N) /\ \A i \in DOMAIN batch :
                 /\ IsNew(batch[i]) /\ HasRequired(batch[i])
                 /\ peers[p].replica.rows[batch[i].key] = NoRow
  BY InsertFacts
<1>2. Starts(peers[p], p, Entries(peers, p))
  BY StatementStarts
<1> DEFINE q == exec_insert(peers[p], p, batch)
<1>3. IsWrite(peers[p], q, p, Entries(peers, p))
  BY <1>1, <1>2, InsertRuns
<1>4. peers' = [peers EXCEPT ![p] = q] /\ deletes' = deletes
  BY DEF Insert
<1> HIDE DEF q
<1> QED BY <1>3, <1>4, WriteStep

LEMMA SetListFacts ==
  ASSUME NEW p \in Peers, NEW t \in Tables, NEW S \in Selections(p, t), NEW assign \in SetLists(t)
  PROVE  AreSetLists(S, assign) /\ S \subseteq LiveRows(peers[p].replica)
<1> DEFINE cols == Schemas[t].columns
<1>1. \A c \in DOMAIN assign :
        /\ c \in DOMAIN cols
        /\ \/ assign[c] \in cols[c]
           \/ assign[c] \in DOMAIN cols /\ cols[assign[c]] \subseteq cols[c]
  BY DEF SetLists
<1>2. \A k \in S : TableOf[k] = t
  BY DEF Selections, RowsOf
<1>3. \A k \in S : IsSetList(k, assign)
  BY <1>1, <1>2 DEF IsSetList
<1>4. S \subseteq LiveRows(peers[p].replica)
  BY DEF Selections, RowsOf, LiveRows
<1> QED BY <1>3, <1>4 DEF AreSetLists

LEMMA UpdateStep ==
  ASSUME HostInv(peers, deletes), NEW p \in Peers, NEW t \in Tables,
         NEW S \in Selections(p, t), NEW assign \in SetLists(t), Update(p, S, assign)
  PROVE  HostInv(peers', deletes') /\ Stepped(peers, peers')
<1>1. AreSetLists(S, assign)
  BY SetListFacts
<1>2. Starts(peers[p], p, Entries(peers, p))
  BY StatementStarts
<1> DEFINE q == exec_update(peers[p], p, S, assign)
<1>3. IsWrite(peers[p], q, p, Entries(peers, p))
  BY <1>1, <1>2, UpdateRuns
<1>4. peers' = [peers EXCEPT ![p] = q] /\ deletes' = deletes
  BY DEF Update
<1> HIDE DEF q
<1> QED BY <1>3, <1>4, WriteStep

LEMMA DeleteStep ==
  ASSUME HostInv(peers, deletes), NEW p \in Peers, NEW S, Delete(p, S)
  PROVE  HostInv(peers', deletes') /\ Stepped(peers, peers')
<1> DEFINE t == exec_delete(peers[p], p, S)
<1>1. Starts(peers[p], p, Entries(peers, p))
  BY StatementStarts
<1>2. /\ Runs(peers[p], t, p, {Null}, Entries(peers, p))
      /\ Files(peers[p], t)
      /\ NothingToCascade(t.replica)
  <2>1. /\ Runs(peers[p], t, p, {Null}, Entries(peers, p))
        /\ t.filed = peers[p].filed
        /\ NothingToCascade(t.replica)
    BY <1>1, DeleteRuns
  <2> HIDE DEF t
  <2> QED BY <1>1, <2>1, ClearedFiles DEF Runs, Starts
<1>3. /\ peers' = [peers EXCEPT ![p] = t]
      /\ deletes' = deletes \cup DeletedBy(p, peers[p].replica, peers'[p].replica)
  BY DEF Delete
<1> HIDE DEF t
<1>4. peers \in [Peers -> PeerState] /\ t \in PeerState
  BY <1>2 DEF HostInv, Runs
<1>5. /\ peers' \in [Peers -> PeerState] /\ peers'[p] = t
      /\ \A q \in Peers : q # p => peers'[q] = peers[q]
  BY <1>3, <1>4
<1> DEFINE W == {Null}
<1>6. IsStatement(peers, peers', p, W)
  BY <1>2, <1>5 DEF IsStatement
<1>7. W \in SUBSET Values /\ W = {Null} /\ NothingToCascade(peers'[p].replica)
  BY <1>2, <1>5, NullIsNoKey
<1> HIDE DEF W
<1>8. IsStatement(peers, peers', p, Values)
  <2>1. Grows(peers[p].replica, peers'[p].replica, p, Values)
    BY <1>6, <1>7 DEF IsStatement, Runs, Grows, CellGrows
  <2> QED BY <1>6, <2>1 DEF IsStatement, Runs
<1> QED BY <1>3, <1>6, <1>7, <1>8, StatementInv DEF Stepped

LEMMA CreateIndexStep ==
  ASSUME HostInv(peers, deletes), NEW p \in Peers, NEW i \in Indexes, CreateIndex(p, i)
  PROVE  /\ HostInv(peers', deletes') /\ Stepped(peers, peers')
         /\ \E t : peers' = [peers EXCEPT ![p] = t] /\ Keeps(peers[p], t)
<1> DEFINE s == peers[p]
           m == rebuild_table(create_index(s.indexes, i), i.table, s.replica.rows)
           t == [replica |-> s.replica, uniqueness |-> s.uniqueness, indexes |-> m,
                 filed |-> s.filed]
<1>1. Starts(s, p, Entries(peers, p)) /\ s \in PeerState
  BY StatementStarts DEF Starts
<1>2. s.replica \in ReplicaState /\ s.uniqueness \in Registry /\ s.indexes \in IndexManager
      /\ s.filed \in SUBSET ClaimEvent
  BY <1>1, PeerFields
<1>3. m \in IndexManager
  <2> DEFINE S == DOMAIN s.indexes \cup {i}
             n == create_index(s.indexes, i)
  <2>1. S \in SUBSET Indexes /\ \A j \in DOMAIN s.indexes : s.indexes[j] \subseteq IndexEntry(j)
    BY <1>2, IndexManagerFacts
  <2>2. n = [j \in S |-> IF j = i THEN {} ELSE s.indexes[j]]
    BY DEF create_index
  <2> DEFINE rows == s.replica.rows
  <2> HIDE DEF n, rows
  <2>3. rebuild_table(n, i.table, rows)
          = [j \in S |-> IF j.table = i.table THEN Rebuilt(j, rows) ELSE n[j]]
    <3>1. DOMAIN n = S
      BY <2>2
    <3> HIDE DEF S
    <3> QED BY <3>1 DEF rebuild_table
  <2>4. s.replica.rows \in [Keys -> Row]
    BY <1>2 DEF ReplicaState
  <2>5. \A j \in S : Rebuilt(j, rows) \subseteq IndexEntry(j)
    BY <2>1, <2>4, RebuiltType DEF rows
  <2>6. \A j \in S : n[j] \subseteq IndexEntry(j)
    BY <2>1, <2>2
  <2>7. m = rebuild_table(n, i.table, rows)
    BY DEF n, rows
  <2> HIDE DEF m
  <2>8. m = [j \in S |-> m[j]] /\ \A j \in S : m[j] \subseteq IndexEntry(j)
    BY <2>3, <2>5, <2>6, <2>7
  <2> HIDE DEF S
  <2> QED BY <2>1, <2>8, IndexManagerFacts
<1>4. Keeps(s, t)
  <2>1. ASSUME Indexed(s), NEW j \in DOMAIN m
        PROVE  m[j] = Rebuilt(j, s.replica.rows)
    BY <2>1 DEF Indexed, rebuild_table, create_index
  <2>2. t.indexes = m /\ t.replica = s.replica
    OBVIOUS
  <2> HIDE DEF m, t
  <2> QED BY <2>1, <2>2 DEF Keeps, Indexed
<1>5. peers' = [peers EXCEPT ![p] = t] /\ deletes' = deletes
  <2>1. peers' = [peers EXCEPT ![p].indexes = m] /\ deletes' = deletes
    BY DEF CreateIndex
  <2> HIDE DEF m
  <2>2. [s EXCEPT !.indexes = m] = t
    <3>1. s = [replica |-> s.replica, uniqueness |-> s.uniqueness, indexes |-> s.indexes,
               filed |-> s.filed]
      BY <1>1 DEF PeerState
    <3> QED BY <3>1
  <2>3. [peers EXCEPT ![p].indexes = m] = [peers EXCEPT ![p] = [s EXCEPT !.indexes = m]]
    OBVIOUS
  <2> QED BY <2>1, <2>2, <2>3
<1> HIDE DEF m
<1>6. t \in PeerState
  BY <1>2, <1>3, NewPeerState
<1>7. t.replica = s.replica /\ t.uniqueness = s.uniqueness /\ t.filed = s.filed
  OBVIOUS
<1>8. Runs(s, t, p, Values, Entries(peers, p))
  <2>1. Runs(s, s, p, Values, Entries(peers, p))
    BY <1>1, RunsFromItself
  <2> HIDE DEF t, s
  <2> QED BY <1>6, <1>7, <2>1 DEF Runs
<1>9. \A k \in Keys : t.replica.tombs[k] = peers[p].replica.tombs[k]
  BY <1>7
<1>10. IsWrite(peers[p], t, p, Entries(peers, p))
  <2>1. Files(s, s)
    BY FilesFromItself
  <2>2. Files(s, t)
    BY <1>7, <2>1 DEF Files
  <2> QED BY <1>8, <1>9, <2>2 DEF IsWrite
<1> HIDE DEF t
<1> QED BY <1>5, <1>10, <1>4, WriteStep

\* The state and the deletes after a sync of a with b.
PeersAfter(P, a, b) ==
  [P EXCEPT ![b] = Synced(@, b, P[a]), ![a] = Synced(@, a, P[b])]

DeletesAfter(P, D, a, b) ==
  LET Q == PeersAfter(P, a, b)
  IN  D \cup DeletedBy(b, P[b].replica, Q[b].replica)
        \cup DeletedBy(a, P[a].replica, Q[a].replica)

LEMMA AfterSyncInv ==
  ASSUME NEW P, NEW D, HostInv(P, D), NEW a \in Peers, NEW b \in Peers, a # b
  PROVE  /\ HostInv(PeersAfter(P, a, b), DeletesAfter(P, D, a, b))
         /\ IsSync(P, PeersAfter(P, a, b), a, b)
         /\ PeersAfter(P, a, b)[a] = Synced(P[a], a, P[b])
         /\ LosersResolved(Synced(P[a], a, P[b]))
<1> DEFINE sa == Synced(P[a], a, P[b])
           sb == Synced(P[b], b, P[a])
           Q == PeersAfter(P, a, b)
           F == DeletesAfter(P, D, a, b)
<1>0. F = D \cup DeletedBy(b, P[b].replica, Q[b].replica)
            \cup DeletedBy(a, P[a].replica, Q[a].replica)
  BY DEF DeletesAfter
<1>1. Q = [P EXCEPT ![b] = sb, ![a] = sa]
  BY DEF PeersAfter
<1> HIDE DEF Q, F
<1>2. P \in [Peers -> PeerState]
  BY DEF HostInv
<1>3. \A p \in Peers : Good(P[p].replica, p)
  BY StatementStarts DEF Starts
<1>4. ASSUME NEW p \in Peers, NEW q \in Peers
      PROVE  IsSynced(Synced(P[p], p, P[q]), P[p], p, P[q])
  <2>1. MergedReplica(P[p], p, P[q]) \in ReplicaState
    BY <1>3, MergeReceives DEF MergedReplica, Receives
  <2>2. MergedRegistry(P[p], P[q]) \in Registry
    BY MergedRegistrySettles
  <2> QED BY <1>2, <2>1, <2>2, SyncedFacts
<1>5. IsSynced(sa, P[a], a, P[b]) /\ IsSynced(sb, P[b], b, P[a])
  BY <1>4
<1> HIDE DEF sa, sb
<1>6. sa \in PeerState /\ sb \in PeerState
  BY <1>5 DEF IsSynced
<1>7. /\ Q \in [Peers -> PeerState]
      /\ Q[a] = sa /\ Q[b] = sb
      /\ \A p \in Peers : p # a /\ p # b => Q[p] = P[p]
  BY <1>1, <1>2, <1>6
<1>8. IsSync(P, Q, a, b)
  BY <1>5, <1>7 DEF IsSync
<1>9. HostInv(Q, F) /\ LosersResolved(Q[a])
  BY <1>0, <1>8, SyncInv
<1> QED BY <1>7, <1>8, <1>9 DEF Q, F, sa

LEMMA SyncStep ==
  ASSUME HostInv(peers, deletes), NEW a \in Peers, NEW b \in Peers, Sync(a, b)
  PROVE  HostInv(peers', deletes') /\ Stepped(peers, peers')
<1>1. a # b /\ peers' = PeersAfter(peers, a, b)
  BY DEF Sync, PeersAfter
<1>2. deletes' = DeletesAfter(peers, deletes, a, b)
  BY <1>1 DEF Sync, DeletesAfter
<1> QED BY <1>1, <1>2, AfterSyncInv DEF Stepped

-----------------------------------------------------------------------------
(***************************************************************************)
(* The theorems.                                                           *)
(***************************************************************************)
LEMMA NextSteps ==
  ASSUME HostInv(peers, deletes), Next
  PROVE  HostInv(peers', deletes') /\ Stepped(peers, peers')
<1>1. ASSUME NEW p \in Peers, NEW t \in Tables, NEW batch \in Batches(t), Insert(p, batch)
      PROVE  HostInv(peers', deletes') /\ Stepped(peers, peers')
  BY <1>1, InsertStep
<1>2. ASSUME NEW p \in Peers, NEW t \in Tables, NEW S \in Selections(p, t),
             NEW assign \in SetLists(t), Update(p, S, assign)
      PROVE  HostInv(peers', deletes') /\ Stepped(peers, peers')
  BY <1>2, UpdateStep
<1>3. ASSUME NEW p \in Peers, NEW t \in Tables, NEW S \in Selections(p, t), Delete(p, S)
      PROVE  HostInv(peers', deletes') /\ Stepped(peers, peers')
  BY <1>3, DeleteStep
<1>4. ASSUME NEW p \in Peers, NEW i \in Indexes, CreateIndex(p, i)
      PROVE  HostInv(peers', deletes') /\ Stepped(peers, peers')
  BY <1>4, CreateIndexStep
<1>5. ASSUME NEW a \in Peers, NEW b \in Peers, Sync(a, b)
      PROVE  HostInv(peers', deletes') /\ Stepped(peers, peers')
  BY <1>5, SyncStep
<1> QED BY <1>1, <1>2, <1>3, <1>4, <1>5 DEF Next

LEMMA NextIInv == IInv /\ [Next]_vars => IInv'
<1> SUFFICES ASSUME HostInv(peers, deletes), [Next]_vars
             PROVE  HostInv(peers', deletes')
  BY IInvIsHostInv, NextIInvIsHostInv
<1>1. CASE Next
  BY <1>1, NextSteps
<1>2. CASE UNCHANGED vars
  BY <1>2 DEF vars
<1> QED BY <1>1, <1>2

\* The inductive invariant: a statement of EngineHost::execute and a sync, with
\* the passes that follow it, lead from a state that satisfies it to another,
\* for any number of peers, tables, foreign keys and constraints.
THEOREM Invariance == Spec => []IInv
BY InitIInv, NextIInv, PTL DEF Spec

\* What the host keeps for every peer has its type: a statement that fails half
\* way, a cascade or an enforcement pass builds no malformed row, claim or index.
THEOREM TypeCorrect == Spec => []TypeOK
<1>1. IInv => TypeOK
  BY DEF IInv
<1> QED BY <1>1, Invariance, PTL

\* The registry's owner of a value is the row with the latest claim the peer
\* has seen (UniquenessRegistry::claim and merge), in whatever order the claims
\* reached it.
THEOREM OwnerIsLatestClaimHolds == Spec => []OwnerIsLatestClaim
<1>1. IInv => OwnerIsLatestClaim
  BY DEF IInv
<1> QED BY <1>1, Invariance, PTL

\* No statement and no merge of registries loses a row that has claimed a value
\* (UniquenessRegistry): it stays the owner or one of the losers.
THEOREM ClaimantsArePreservedHolds == Spec => []ClaimantsArePreserved
<1>1. IInv => ClaimantsArePreserved
  BY DEF IInv
<1> QED BY <1>1, Invariance, PTL

\* Cascades are complete (enforce_fk_cascades): a reference that the deleting peer
\* knew of outlives the delete at no peer that has seen it, at any depth.
THEOREM NoReferenceOutlivesItsDeleteHolds == Spec => []NoReferenceOutlivesItsDelete
<1>1. IInv => NoReferenceOutlivesItsDelete
  BY DEF IInv
<1> QED BY <1>1, Invariance, PTL

-----------------------------------------------------------------------------
(***************************************************************************)
(* Rows advance.                                                           *)
(***************************************************************************)

\* What a peer has written itself is newer than all it had seen.
LEMMA FreshIsNewer ==
  ASSUME NEW r, NEW s, NEW p \in Peers, Good(r, p), NEW v \in OptVersion, NEW w,
         Seen(r.frontier, v), Fresh(r, s, p, w)
  PROVE  VLess(v, w)
<1>1. /\ r.clock \in Nat /\ r.frontier \in Frontier
      /\ \A q \in Peers : r.frontier[q] <= r.clock
  BY ReplicaFields DEF Good
<1>2. w.counter \in Nat /\ r.clock < w.counter
  BY DEF Fresh, Version
<1>3. v.counter \in Nat /\ v.counter <= r.clock
  <2>1. CASE v = NoVersion
    BY <1>1, <2>1 DEF NoVersion
  <2>2. CASE v # NoVersion
    <3>1. v.peer \in Peers /\ v.counter \in Nat
      BY <2>2 DEF OptVersion, Version
    <3>2. v.counter <= r.frontier[v.peer]
      BY <2>2 DEF Seen
    <3>3. r.frontier[v.peer] \in Nat /\ r.frontier[v.peer] <= r.clock
      BY <1>1, <3>1 DEF Frontier
    <3> QED BY <1>1, <3>1, <3>2, <3>3
  <2> QED BY <2>1, <2>2
<1>4. v.counter < w.counter
  BY <1>1, <1>2, <1>3
<1> QED BY <1>4 DEF VLess

LEMMA GrowsAdvance ==
  ASSUME NEW r, NEW s, NEW p \in Peers, NEW W, Good(r, p), Grows(r, s, p, W), NEW k \in Keys
  PROVE  RowAdvances(r.rows[k], s.rows[k])
<1> DEFINE a == r.rows[k]
           b == s.rows[k]
<1>1. a \in Row
  BY ReplicaFields DEF Good
<1>2. ASSUME NEW c \in Cols
      PROVE  a.cells[c] = b.cells[c] \/ VLess(a.cells[c].version, b.cells[c].version)
  <2>1. a.cells[c] = b.cells[c] \/ Fresh(r, s, p, b.cells[c].version)
    BY DEF Grows, CellGrows
  <2>2. a.cells[c].version \in OptVersion
    BY <1>1, RowFields, CellVersion
  <2>3. Seen(r.frontier, a.cells[c].version)
    BY DEF Good
  <2> QED BY <2>1, <2>2, <2>3, FreshIsNewer
<1>3. \/ a.deleted = b.deleted /\ a.delVersion = b.delVersion
      \/ b.deleted /\ VLess(a.delVersion, b.delVersion)
  <2>1. \/ b.deleted = a.deleted /\ b.delVersion = a.delVersion
        \/ b.deleted /\ Fresh(r, s, p, b.delVersion)
    BY DEF Grows, DeleteGrows
  <2>2. a.delVersion \in OptVersion
    BY <1>1, RowFields
  <2>3. Seen(r.frontier, a.delVersion)
    BY DEF Good
  <2>4. Fresh(r, s, p, b.delVersion) => VLess(a.delVersion, b.delVersion)
    BY <2>2, <2>3, FreshIsNewer
  <2> QED BY <2>1, <2>4
<1> QED BY <1>2, <1>3 DEF RowAdvances

LEMMA ReceivesAdvance ==
  ASSUME NEW r, NEW o, NEW s, NEW p \in Peers, Good(r, p), Receives(r, o, s, p),
         NEW k \in Keys
  PROVE  RowAdvances(r.rows[k], s.rows[k])
<1> DEFINE a == r.rows[k]
           n == s.rows[k]
<1>1. a \in Row /\ n \in Row
  BY ReplicaFields DEF Good, Receives
<1>2. RowReceived(r, o, s, k) /\ DeletedWithVersion(a)
  BY DEF Receives, Good
<1>3. ASSUME NEW c \in Cols
      PROVE  a.cells[c] = n.cells[c] \/ VLess(a.cells[c].version, n.cells[c].version)
  BY <1>2 DEF RowReceived
<1>4. /\ a.deleted <=> a.delVersion # NoVersion
      /\ n.deleted <=> n.delVersion # NoVersion
      /\ a.delVersion = n.delVersion \/ VLess(a.delVersion, n.delVersion)
  BY <1>2 DEF RowReceived, DeletedWithVersion, VLeq
<1>5. a.deleted \in BOOLEAN /\ n.deleted \in BOOLEAN /\ a.delVersion \in OptVersion
  BY <1>1, RowFields
<1>6. CASE a.delVersion = n.delVersion
  <2>1. a.deleted = n.deleted
    BY <1>4, <1>5, <1>6
  <2> QED BY <1>3, <1>6, <2>1 DEF RowAdvances
<1>7. CASE VLess(a.delVersion, n.delVersion)
  <2>1. n.delVersion # NoVersion
    BY <1>5, <1>7, NoVersionIsLeast, VLessIrreflexive DEF VLeq
  <2> QED BY <1>3, <1>4, <1>7, <2>1 DEF RowAdvances
<1> QED BY <1>4, <1>6, <1>7

LEMMA AdvancesItself ==
  ASSUME NEW a
  PROVE  RowAdvances(a, a)
BY DEF RowAdvances

LEMMA AdvancesTransitive ==
  ASSUME NEW a \in Row, NEW b \in Row, NEW d \in Row, RowAdvances(a, b), RowAdvances(b, d)
  PROVE  RowAdvances(a, d)
<1>1. ASSUME NEW c \in Cols
      PROVE  a.cells[c] = d.cells[c] \/ VLess(a.cells[c].version, d.cells[c].version)
  <2>1. /\ a.cells[c].version \in OptVersion
        /\ b.cells[c].version \in OptVersion
        /\ d.cells[c].version \in OptVersion
    BY RowFields, CellVersion
  <2>2. /\ a.cells[c] = b.cells[c] \/ VLess(a.cells[c].version, b.cells[c].version)
        /\ b.cells[c] = d.cells[c] \/ VLess(b.cells[c].version, d.cells[c].version)
    BY DEF RowAdvances
  <2> QED BY <2>1, <2>2, VLessTransitive
<1>2. \/ a.deleted = d.deleted /\ a.delVersion = d.delVersion
      \/ d.deleted /\ VLess(a.delVersion, d.delVersion)
  <2>1. a.delVersion \in OptVersion /\ b.delVersion \in OptVersion /\ d.delVersion \in OptVersion
    BY RowFields
  <2>2. /\ \/ a.deleted = b.deleted /\ a.delVersion = b.delVersion
           \/ b.deleted /\ VLess(a.delVersion, b.delVersion)
        /\ \/ b.deleted = d.deleted /\ b.delVersion = d.delVersion
           \/ d.deleted /\ VLess(b.delVersion, d.delVersion)
    BY DEF RowAdvances
  <2> QED BY <2>1, <2>2, VLessTransitive
<1> QED BY <1>1, <1>2 DEF RowAdvances

LEMMA ReceivesGood ==
  ASSUME NEW r, NEW o, NEW s, NEW p \in Peers, NEW y \in Peers,
         Good(r, p), Good(o, y), Receives(r, o, s, p)
  PROVE  Good(s, p)
<1>1. r \in ReplicaState /\ o \in ReplicaState /\ s \in ReplicaState
  BY DEF Good, Receives
<1>2. /\ s.frontier[p] = s.clock
      /\ \A x \in Peers : /\ s.frontier[x] <= s.clock
                          /\ r.frontier[x] <= s.frontier[x]
                          /\ o.frontier[x] <= s.frontier[x]
  BY DEF Receives
<1>3. \A v \in OptVersion : Seen(r.frontier, v) \/ Seen(o.frontier, v) => Seen(s.frontier, v)
  BY <1>1, <1>2, ReplicaFields, SeenMonotone
<1>4. ASSUME NEW k \in Keys
      PROVE  /\ \A c \in Cols : Seen(s.frontier, s.rows[k].cells[c].version)
             /\ DeletedWithVersion(s.rows[k])
             /\ Seen(s.frontier, s.rows[k].delVersion)
             /\ Seen(s.frontier, s.tombs[k])
  <2> DEFINE a == r.rows[k]
             b == o.rows[k]
             n == s.rows[k]
  <2>1. RowReceived(r, o, s, k)
    BY DEF Receives
  <2>2. a \in Row /\ b \in Row /\ r.tombs[k] \in OptVersion /\ o.tombs[k] \in OptVersion
    BY <1>1, ReplicaFields
  <2>3. /\ \A c \in Cols : /\ Seen(r.frontier, a.cells[c].version)
                          /\ Seen(o.frontier, b.cells[c].version)
        /\ Seen(r.frontier, a.delVersion) /\ Seen(o.frontier, b.delVersion)
        /\ Seen(r.frontier, r.tombs[k]) /\ Seen(o.frontier, o.tombs[k])
    BY DEF Good
  <2>4. ASSUME NEW c \in Cols
        PROVE  Seen(s.frontier, n.cells[c].version)
    <3>1. a.cells[c].version \in OptVersion /\ b.cells[c].version \in OptVersion
      BY <2>2, RowFields, CellVersion
    <3>2. n.cells[c] = a.cells[c] \/ n.cells[c] = b.cells[c]
      BY <2>1 DEF RowReceived
    <3> QED BY <1>3, <2>3, <3>1, <3>2
  <2>5. Seen(s.frontier, n.delVersion)
    <3>1. a.delVersion \in OptVersion /\ b.delVersion \in OptVersion
      BY <2>2, RowFields
    <3>2. n.delVersion \in {a.delVersion, b.delVersion, o.tombs[k]}
      BY <2>1 DEF RowReceived
    <3> QED BY <1>3, <2>2, <2>3, <3>1, <3>2
  <2>6. Seen(s.frontier, s.tombs[k])
    <3>1. s.tombs[k] \in {r.tombs[k], o.tombs[k]}
      BY <2>1 DEF RowReceived
    <3> QED BY <1>3, <2>2, <2>3, <3>1
  <2> QED BY <2>1, <2>4, <2>5, <2>6 DEF RowReceived
<1> QED BY <1>1, <1>2, <1>4 DEF Good

\* The replica a sync leaves before its passes.
LEMMA MergedIsGood ==
  ASSUME NEW s, NEW t, NEW p \in Peers, NEW q \in Peers, Good(s.replica, p), Good(t.replica, q)
  PROVE  /\ Receives(s.replica, t.replica, MergedReplica(s, p, t), p)
         /\ Good(MergedReplica(s, p, t), p)
<1> DEFINE r == s.replica
           o == t.replica
           m == MergedReplica(s, p, t)
<1>1. m = apply_delta(r, p, extract_delta(o, r.frontier))
  BY DEF MergedReplica
<1> HIDE DEF r, o, m
<1>2. Good(r, p) /\ Good(o, q)
  BY DEF r, o
<1>3. Receives(r, o, m, p)
  BY <1>1, <1>2, MergeReceives
<1>4. Good(m, p)
  BY <1>2, <1>3, ReceivesGood
<1> QED BY <1>3, <1>4 DEF r, o, m

\* The merge of a sync and its passes.
LEMMA SyncedAdvance ==
  ASSUME NEW s, NEW q, NEW t, NEW p \in Peers, NEW y \in Peers,
         Good(s.replica, p), Good(q.replica, y), IsSynced(t, s, p, q), NEW k \in Keys
  PROVE  RowAdvances(s.replica.rows[k], t.replica.rows[k])
<1> DEFINE r == s.replica
           m == MergedReplica(s, p, q)
           n == t.replica
<1>1. Receives(r, q.replica, m, p)
  BY MergeReceives DEF MergedReplica
<1>2. Clears(m, n, p)
  BY DEF IsSynced
<1>3. m \in ReplicaState /\ \A j \in Keys : RowReceived(r, q.replica, m, j)
  BY <1>1 DEF Receives
<1> HIDE DEF r, m, n
<1>4. Good(r, p)
  BY DEF r
<1>5. Good(m, p)
  BY <1>4, <1>1, ReceivesGood
<1>6. RowAdvances(r.rows[k], m.rows[k])
  BY <1>1, <1>4, ReceivesAdvance
<1>7. Grows(m, n, p, {Null}) /\ n \in ReplicaState
  BY <1>2, <1>5 DEF Clears
<1>8. RowAdvances(m.rows[k], n.rows[k])
  BY <1>5, <1>7, GrowsAdvance
<1>9. r.rows[k] \in Row /\ m.rows[k] \in Row /\ n.rows[k] \in Row
  BY <1>3, <1>4, <1>7, ReplicaFields DEF Good
<1> QED BY <1>6, <1>8, <1>9, AdvancesTransitive DEF r, n

LEMMA SteppedAdvance ==
  ASSUME NEW P, NEW D, HostInv(P, D), NEW Q, Stepped(P, Q), NEW p \in Peers, NEW k \in Keys
  PROVE  RowAdvances(P[p].replica.rows[k], Q[p].replica.rows[k])
<1>1. \A x \in Peers : Good(P[x].replica, x)
  BY StatementStarts DEF Starts
<1>2. ASSUME NEW x \in Peers, IsStatement(P, Q, x, Values)
      PROVE  RowAdvances(P[p].replica.rows[k], Q[p].replica.rows[k])
  <2>1. CASE p = x
    <3>1. Grows(P[p].replica, Q[p].replica, p, Values)
      BY <1>2, <2>1 DEF IsStatement, Runs
    <3> QED BY <1>1, <3>1, GrowsAdvance
  <2>2. CASE p # x
    <3>1. Q[p] = P[p]
      BY <1>2, <2>2 DEF IsStatement
    <3> QED BY <3>1, AdvancesItself
  <2> QED BY <2>1, <2>2
<1>3. ASSUME NEW a \in Peers, NEW b \in Peers, IsSync(P, Q, a, b)
      PROVE  RowAdvances(P[p].replica.rows[k], Q[p].replica.rows[k])
  <2>1. CASE p = a
    <3>1. IsSynced(Q[p], P[p], p, P[b])
      BY <1>3, <2>1 DEF IsSync
    <3> QED BY <1>1, <3>1, SyncedAdvance
  <2>2. CASE p = b
    <3>1. IsSynced(Q[p], P[p], p, P[a])
      BY <1>3, <2>2 DEF IsSync
    <3> QED BY <1>1, <3>1, SyncedAdvance
  <2>3. CASE p # a /\ p # b
    <3>1. Q[p] = P[p]
      BY <1>3, <2>3 DEF IsSync
    <3> QED BY <3>1, AdvancesItself
  <2> QED BY <2>1, <2>2, <2>3
<1> QED BY <1>2, <1>3 DEF Stepped

\* No call takes a cell or a delete back, at any peer: what a statement, a cascade
\* or an enforcement pass writes is newer than all its peer had seen, and a merge
\* (merge_row) replaces a cell or a delete by a newer one only.
THEOREM RowsOnlyAdvanceHolds == Spec => RowsOnlyAdvance
<1>1. IInv /\ [Next]_vars =>
        [\A p \in Peers, k \in Keys : RowAdvances(Replica(p).rows[k], Replica(p)'.rows[k])]_vars
  <2>1. SUFFICES ASSUME IInv, Next, NEW p \in Peers, NEW k \in Keys
                 PROVE  RowAdvances(peers[p].replica.rows[k], peers'[p].replica.rows[k])
    BY DEF Replica
  <2>2. HostInv(peers, deletes)
    BY <2>1, IInvIsHostInv
  <2>3. Stepped(peers, peers')
    BY <2>1, <2>2, NextSteps
  <2> QED BY <2>2, <2>3, SteppedAdvance
<1> QED BY <1>1, Invariance, PTL DEF Spec, RowsOnlyAdvance

-----------------------------------------------------------------------------
(***************************************************************************)
(* What frontiers vouch for, and what a merge brings.                      *)
(***************************************************************************)

\* The parts of FrontiersAreHonest, of the replicas R.
CellShared(R, p, q, k, c) ==
  LET mine   == R[p].rows[k].cells[c]
      theirs == R[q].rows[k].cells[c]
  IN  /\ mine.version = theirs.version => mine = theirs
      /\ Seen(R[p].frontier, theirs.version) => VLeq(theirs.version, mine.version)

Buried(r) == \A k \in Keys : r.tombs[k] = r.rows[k].delVersion

Honest(R) == /\ \A p \in Peers : Buried(R[p])
             /\ \A p, q \in Peers, k \in Keys, c \in Cols : CellShared(R, p, q, k, c)

LEMMA CellFields ==
  ASSUME NEW R, NEW D, ReplicaInv(R, D), NEW p \in Peers, NEW k \in Keys, NEW c \in Cols
  PROVE  /\ R[p].rows[k] \in Row
         /\ R[p].rows[k].cells[c] \in Cell
         /\ R[p].rows[k].cells[c].version \in OptVersion
         /\ Seen(R[p].frontier, R[p].rows[k].cells[c].version)
<1>1. Good(R[p], p)
  BY HeldIsGood
<1>2. R[p].rows[k] \in Row
  BY <1>1, ReplicaFields DEF Good
<1>3. R[p].rows[k].cells[c] \in Cell
  BY <1>2, RowFields
<1> QED BY <1>1, <1>2, <1>3, CellVersion DEF Good

\* A peer has seen every version of its own, wherever it is held.
LEMMA OwnIsSeen ==
  ASSUME NEW R, NEW D, ReplicaInv(R, D), NEW p \in Peers, NEW q \in Peers,
         NEW v \in Version, v.peer = p, Seen(R[q].frontier, v)
  PROVE  Seen(R[p].frontier, v) /\ v.counter <= R[p].clock
<1>1. v.counter \in Nat /\ v # NoVersion
  BY VersionIsOpt DEF Version
<1>2. v.counter <= R[q].frontier[p]
  BY <1>1 DEF Seen
<1>3. /\ R[q].frontier[p] \in Nat /\ R[q].frontier[p] <= R[p].clock
      /\ R[p].clock \in Nat /\ R[p].frontier[p] = R[p].clock
  BY ClockFields
<1> QED BY <1>1, <1>2, <1>3 DEF Seen

\* What a peer has seen of a delete, it holds.
LEMMA DeleteIsHeld ==
  ASSUME NEW R, NEW D, ReplicaInv(R, D), NEW p \in Peers, NEW q \in Peers, NEW k \in Keys,
         Seen(R[p].frontier, R[q].rows[k].delVersion)
  PROVE  VLeq(R[q].rows[k].delVersion, R[p].rows[k].delVersion)
<1> DEFINE v == R[q].rows[k].delVersion
<1>1. Good(R[p], p) /\ Good(R[q], q)
  BY HeldIsGood
<1>2. v \in OptVersion /\ R[p].rows[k].delVersion \in OptVersion
  BY <1>1, ReplicaFields, RowFields DEF Good
<1>3. CASE v = NoVersion
  BY <1>2, <1>3, NoVersionIsLeast
<1>4. CASE v # NoVersion
  <2>1. R[q].rows[k].deleted
    BY <1>1, <1>4 DEF Good, DeletedWithVersion
  <2>2. PICK e \in D : e.key = k /\ e.version = v
    BY <2>1 DEF ReplicaInv, HeldInv, DeletedAs
  <2> QED BY <2>2 DEF ReplicaInv, DeletedInv
<1> QED BY <1>3, <1>4

-----------------------------------------------------------------------------
\* Writes of the peers' own.
LEMMA GrownHonest ==
  ASSUME NEW R, NEW D, ReplicaInv(R, D), Honest(R),
         NEW S, \A p \in Peers : Grows(R[p], S[p], p, Values)
  PROVE  Honest(S)
<1>1. \A p \in Peers : Good(R[p], p) /\ Good(S[p], p)
  BY HeldIsGood DEF Grows
<1>2. ASSUME NEW p \in Peers
      PROVE  Buried(S[p])
  BY DEF Honest, Buried, Grows, DeleteGrows
<1>3. ASSUME NEW p \in Peers, NEW q \in Peers, NEW k \in Keys, NEW c \in Cols
      PROVE  CellShared(S, p, q, k, c)
  <2> DEFINE a == R[p].rows[k].cells[c]
             b == R[q].rows[k].cells[c]
             m == S[p].rows[k].cells[c]
             n == S[q].rows[k].cells[c]
  <2>1. CASE p = q
    BY <2>1 DEF CellShared, VLeq
  <2>2. CASE p # q
    <3>1. /\ a = m \/ Fresh(R[p], S[p], p, m.version)
          /\ b = n \/ Fresh(R[q], S[q], q, n.version)
      BY DEF Grows, CellGrows
    <3>2. /\ a.version \in OptVersion /\ b.version \in OptVersion
          /\ Seen(R[p].frontier, a.version) /\ Seen(R[q].frontier, b.version)
      BY CellFields
    <3>3. m.version \in OptVersion
      BY <1>1, ReplicaFields, RowFields, CellVersion DEF Good
    <3>4. VLeq(a.version, m.version)
      BY <1>1, <3>1, <3>2, FreshIsNewer DEF VLeq
    <3>5. CellShared(R, p, q, k, c)
      BY DEF Honest
    <3>6. \A v : ~(Fresh(R[p], S[p], p, v) /\ Fresh(R[q], S[q], q, v))
      BY <2>2 DEF Fresh
    <3>7. ASSUME Fresh(R[p], S[p], p, m.version)
          PROVE  m.version # b.version
      <4> HIDE DEF a, b, m, n
      <4>1. m.version \in Version /\ m.version.peer = p /\ R[p].clock < m.version.counter
        BY <3>7 DEF Fresh
      <4>2. m.version.counter \in Nat /\ R[p].clock \in Nat
        BY <4>1, ClockFields DEF Version
      <4>3. ~Seen(R[q].frontier, m.version)
        <5>1. ~(m.version.counter <= R[p].clock)
          BY <4>1, <4>2
        <5> QED BY <4>1, <5>1, OwnIsSeen
      <4> QED BY <3>2, <4>3
    <3>8. ASSUME Fresh(R[q], S[q], q, n.version)
          PROVE  n.version # a.version
      <4> HIDE DEF a, b, m, n
      <4>1. n.version \in Version /\ n.version.peer = q /\ R[q].clock < n.version.counter
        BY <3>8 DEF Fresh
      <4>2. n.version.counter \in Nat /\ R[q].clock \in Nat
        BY <4>1, ClockFields DEF Version
      <4>3. ~Seen(R[p].frontier, n.version)
        <5>1. ~(n.version.counter <= R[q].clock)
          BY <4>1, <4>2
        <5> QED BY <4>1, <5>1, OwnIsSeen
      <4> QED BY <3>2, <4>3
    <3>9. m.version = n.version => m = n
      BY <3>1, <3>5, <3>6, <3>7, <3>8 DEF CellShared
    <3>10. ASSUME Fresh(R[q], S[q], q, n.version)
           PROVE  ~Seen(S[p].frontier, n.version)
      <4>1. /\ n.version \in Version /\ n.version.peer = q /\ R[q].clock < n.version.counter
            /\ n.version # NoVersion /\ n.version.counter \in Nat
        BY <3>10, VersionIsOpt DEF Fresh, Version
      <4>2. S[p].frontier[q] = R[p].frontier[q]
        BY <2>2 DEF Grows
      <4>3. R[p].frontier[q] \in Nat /\ R[p].frontier[q] <= R[q].clock /\ R[q].clock \in Nat
        BY ClockFields
      <4> QED BY <4>1, <4>2, <4>3 DEF Seen
    <3>11. ASSUME Seen(S[p].frontier, b.version)
           PROVE  Seen(R[p].frontier, b.version)
      <4>1. CASE b.version = NoVersion
        BY <4>1 DEF Seen
      <4>2. CASE b.version # NoVersion
        <5>1. b.version \in Version
          BY <3>2, <4>2 DEF OptVersion
        <5>2. b.version.peer \in Peers
          BY <5>1 DEF Version
        <5>3. CASE b.version.peer = p
          BY <3>2, <5>1, <5>3, OwnIsSeen
        <5>4. CASE b.version.peer # p
          <6>1. S[p].frontier[b.version.peer] = R[p].frontier[b.version.peer]
            BY <5>2, <5>4 DEF Grows
          <6> QED BY <3>11, <6>1 DEF Seen
        <5> QED BY <5>3, <5>4
      <4> QED BY <4>1, <4>2
    <3>12. ASSUME Seen(S[p].frontier, n.version)
           PROVE  VLeq(n.version, m.version)
      <4>1. n = b
        BY <3>1, <3>10, <3>12
      <4>2. VLeq(b.version, a.version)
        BY <3>5, <3>11, <3>12, <4>1 DEF CellShared
      <4> QED BY <3>2, <3>3, <3>4, <4>1, <4>2, VLeqTransitive
    <3> QED BY <3>9, <3>12 DEF CellShared
  <2> QED BY <2>1, <2>2
<1> QED BY <1>2, <1>3 DEF Honest

-----------------------------------------------------------------------------
(***************************************************************************)
(* Merges.                                                                 *)
(***************************************************************************)

\* n is the newer of a and b.
IsNewest(a, b, n) == n \in {a, b} /\ VLeq(a, n) /\ VLeq(b, n)

\* The replica s holds the newer of what r and o hold, of every cell, delete and
\* tombstone.
Joins(r, o, s) ==
  /\ s \in ReplicaState
  /\ \A k \in Keys :
       /\ \A c \in Cols :
            /\ s.rows[k].cells[c] \in {r.rows[k].cells[c], o.rows[k].cells[c]}
            /\ IsNewest(r.rows[k].cells[c].version, o.rows[k].cells[c].version,
                        s.rows[k].cells[c].version)
       /\ IsNewest(r.rows[k].delVersion, o.rows[k].delVersion, s.rows[k].delVersion)
       /\ DeletedWithVersion(s.rows[k])
       /\ s.tombs[k] = s.rows[k].delVersion

LEMMA JoinsItself ==
  ASSUME NEW R, NEW D, ReplicaInv(R, D), Honest(R), NEW p \in Peers
  PROVE  Joins(R[p], R[p], R[p])
<1>1. Good(R[p], p)
  BY HeldIsGood
<1>2. Buried(R[p])
  BY DEF Honest
<1> QED BY <1>1, <1>2 DEF Good, Joins, IsNewest, VLeq, Buried

\* A delta leaves out only what its receiver holds already, or a newer version of it.
LEMMA MergeJoins ==
  ASSUME NEW R, NEW D, ReplicaInv(R, D), Honest(R), NEW p \in Peers, NEW q \in Peers
  PROVE  Joins(R[p], R[q], apply_delta(R[p], p, extract_delta(R[q], R[p].frontier)))
<1> DEFINE r == R[p]
           o == R[q]
           d == extract_delta(o, r.frontier)
           s == apply_delta(r, p, d)
<1>1. Good(r, p) /\ Good(o, q) /\ r \in ReplicaState /\ o \in ReplicaState
      /\ r.frontier \in Frontier
  BY HeldIsGood, ClockFields
<1>2. Receives(r, o, s, p)
  BY <1>1, MergeReceives
<1>3. /\ d \in Payload
      /\ \A k \in Keys :
           /\ d.rows[k] = IF Unseen(o.rows[k], r.frontier) THEN o.rows[k] ELSE NoRow
           /\ d.tombs[k] = IF Seen(r.frontier, o.tombs[k]) THEN NoVersion ELSE o.tombs[k]
  BY <1>1, ExtractType
<1>4. ASSUME NEW k \in Keys
      PROVE  /\ \A c \in Cols :
                  /\ s.rows[k].cells[c] \in {r.rows[k].cells[c], o.rows[k].cells[c]}
                  /\ IsNewest(r.rows[k].cells[c].version, o.rows[k].cells[c].version,
                              s.rows[k].cells[c].version)
             /\ IsNewest(r.rows[k].delVersion, o.rows[k].delVersion, s.rows[k].delVersion)
             /\ DeletedWithVersion(s.rows[k])
             /\ s.tombs[k] = s.rows[k].delVersion
  <2> DEFINE a == r.rows[k]
             b == o.rows[k]
             e == d.rows[k]
             n == s.rows[k]
  <2>1. /\ a \in Row /\ b \in Row /\ n \in Row
        /\ a.delVersion \in OptVersion /\ b.delVersion \in OptVersion /\ n.delVersion \in OptVersion
    BY <1>1, <1>2, ReplicaFields, RowFields DEF Receives
  <2>2. RowReceived(r, o, s, k)
    BY <1>2 DEF Receives
  <2>3. r.tombs[k] = a.delVersion /\ o.tombs[k] = b.delVersion
    BY DEF Honest, Buried
  <2>4. /\ VLeq(e.delVersion, n.delVersion)
        /\ \A c \in Cols : VLeq(e.cells[c].version, n.cells[c].version)
    <3>1. DeletedWithVersion(a) /\ DeletedWithVersion(e)
      BY <1>1, <1>3, NoRowType DEF Good
    <3> HIDE DEF d
    <3> QED BY <1>1, <1>3, <3>1, ApplyDeltaRow
  <2>5. e = IF Unseen(b, r.frontier) THEN b ELSE NoRow
    BY <1>3
  <2>6. s.tombs[k] = IF VLess(r.tombs[k], d.tombs[k]) THEN d.tombs[k] ELSE r.tombs[k]
    BY DEF apply_delta
  <2>7. d.tombs[k] = IF Seen(r.frontier, o.tombs[k]) THEN NoVersion ELSE o.tombs[k]
    BY <1>3
  <2>8. Seen(r.frontier, b.delVersion) => VLeq(b.delVersion, a.delVersion)
    BY DeleteIsHeld
  <2>9. \A c \in Cols : CellShared(R, p, q, k, c) /\ a.cells[c].version \in OptVersion
          /\ b.cells[c].version \in OptVersion /\ n.cells[c].version \in OptVersion
    BY <2>1, RowFields, CellVersion DEF Honest
  <2>10. \A c \in Cols : Seen(r.frontier, b.cells[c].version) =>
                           VLeq(b.cells[c].version, a.cells[c].version)
    BY <2>9 DEF CellShared
  <2> HIDE DEF a, b, e, n, d, s, r, o
  <2>11. ASSUME NEW c \in Cols
         PROVE  /\ n.cells[c] \in {a.cells[c], b.cells[c]}
                /\ IsNewest(a.cells[c].version, b.cells[c].version, n.cells[c].version)
    <3>1. \/ n.cells[c] = a.cells[c]
          \/ n.cells[c] = b.cells[c] /\ VLess(a.cells[c].version, b.cells[c].version)
      BY <2>2 DEF RowReceived, a, b, n
    <3>2. VLeq(a.cells[c].version, n.cells[c].version)
      BY <3>1 DEF VLeq
    <3>3. VLeq(b.cells[c].version, n.cells[c].version)
      <4>1. CASE Unseen(b, r.frontier)
        BY <2>4, <2>5, <4>1
      <4>2. CASE ~Unseen(b, r.frontier)
        <5>1. VLeq(b.cells[c].version, a.cells[c].version)
          BY <2>10, <4>2 DEF Unseen
        <5> QED BY <2>9, <3>2, <5>1, VLeqTransitive
      <4> QED BY <4>1, <4>2
    <3> QED BY <3>1, <3>2, <3>3 DEF IsNewest
  <2>12. IsNewest(a.delVersion, b.delVersion, n.delVersion)
    <3>1. n.delVersion \in {a.delVersion, b.delVersion} /\ VLeq(a.delVersion, n.delVersion)
      BY <2>2, <2>3 DEF RowReceived, a, b, n
    <3>2. VLeq(b.delVersion, n.delVersion)
      <4>1. CASE Unseen(b, r.frontier)
        BY <2>4, <2>5, <4>1
      <4>2. CASE ~Unseen(b, r.frontier)
        <5>1. VLeq(b.delVersion, a.delVersion)
          BY <2>8, <4>2 DEF Unseen
        <5> QED BY <2>1, <3>1, <5>1, VLeqTransitive
      <4> QED BY <4>1, <4>2
    <3> QED BY <3>1, <3>2 DEF IsNewest
  <2>13. s.tombs[k] = n.delVersion
    <3>1. CASE Seen(r.frontier, b.delVersion)
      <4>1. d.tombs[k] = NoVersion /\ ~VLess(a.delVersion, NoVersion)
        BY <2>1, <2>3, <2>7, <3>1, NoVersionIsLeast, VLessIrreflexive DEF VLeq
      <4>2. s.tombs[k] = a.delVersion
        BY <2>3, <2>6, <4>1
      <4>3. n.delVersion = a.delVersion
        BY <2>1, <2>8, <2>12, <3>1, VLessTransitive, VLessIrreflexive DEF IsNewest, VLeq
      <4> QED BY <4>2, <4>3
    <3>2. CASE ~Seen(r.frontier, b.delVersion)
      <4>1. s.tombs[k] = IF VLess(a.delVersion, b.delVersion) THEN b.delVersion ELSE a.delVersion
        BY <2>3, <2>6, <2>7, <3>2
      <4> QED BY <2>1, <2>12, <4>1, VLessTransitive, VLessIrreflexive DEF IsNewest, VLeq
    <3> QED BY <3>1, <3>2
  <2>14. DeletedWithVersion(n)
    BY <2>2 DEF RowReceived, n
  <2> QED BY <2>11, <2>12, <2>13, <2>14 DEF a, b, n
<1>5. s \in ReplicaState
  BY <1>2 DEF Receives
<1> HIDE DEF r, o, s
<1>6. Joins(r, o, s)
  BY <1>4, <1>5 DEF Joins
<1> QED BY <1>6 DEF r, o, s, d

\* Every peer takes over what one peer holds, or nothing.
LEMMA ExchangedHonest ==
  ASSUME NEW R, NEW D, ReplicaInv(R, D), Honest(R), NEW S,
         \A p \in Peers : \E q \in Peers : Receives(R[p], R[q], S[p], p) /\ Joins(R[p], R[q], S[p])
  PROVE  Honest(S)
<1>1. ASSUME NEW p \in Peers
      PROVE  Buried(S[p])
  BY DEF Joins, Buried
<1>2. ASSUME NEW p \in Peers, NEW q \in Peers, NEW k \in Keys, NEW c \in Cols
      PROVE  CellShared(S, p, q, k, c)
  <2>1. PICK x \in Peers : Receives(R[p], R[x], S[p], p) /\ Joins(R[p], R[x], S[p])
    OBVIOUS
  <2>2. PICK y \in Peers : Joins(R[q], R[y], S[q])
    OBVIOUS
  <2> DEFINE m == S[p].rows[k].cells[c]
             n == S[q].rows[k].cells[c]
             mp == R[p].rows[k].cells[c]
             mx == R[x].rows[k].cells[c]
  <2>3. PICK z \in Peers : n = R[z].rows[k].cells[c]
    BY <2>2 DEF Joins
  <2>4. PICK w \in Peers : m = R[w].rows[k].cells[c]
    BY <2>1 DEF Joins
  <2>5. /\ m.version \in OptVersion /\ n.version \in OptVersion
        /\ mp.version \in OptVersion /\ mx.version \in OptVersion
        /\ Seen(R[z].frontier, n.version)
    BY <2>3, <2>4, CellFields
  <2>6. VLeq(mp.version, m.version) /\ VLeq(mx.version, m.version)
    BY <2>1 DEF Joins, IsNewest
  <2>7. m.version = n.version => m = n
    BY <2>3, <2>4 DEF Honest, CellShared
  <2>8. /\ Seen(R[p].frontier, n.version) => VLeq(n.version, mp.version)
        /\ Seen(R[x].frontier, n.version) => VLeq(n.version, mx.version)
    BY <2>3 DEF Honest, CellShared
  <2> HIDE DEF m, n, mp, mx
  <2>9. ASSUME Seen(S[p].frontier, n.version)
        PROVE  Seen(R[p].frontier, n.version) \/ Seen(R[x].frontier, n.version)
    <3>1. CASE n.version = NoVersion
      BY <3>1 DEF Seen
    <3>2. CASE n.version # NoVersion
      <4>1. n.version \in Version /\ n.version.peer \in Peers
        BY <2>5, <3>2 DEF OptVersion, Version
      <4>2. CASE n.version.peer = p
        BY <2>5, <4>1, <4>2, OwnIsSeen
      <4>3. CASE n.version.peer # p
        <5>1. \/ S[p].frontier[n.version.peer] = R[p].frontier[n.version.peer]
              \/ S[p].frontier[n.version.peer] = R[x].frontier[n.version.peer]
          BY <2>1, <4>1, <4>3 DEF Receives
        <5> QED BY <2>9, <3>2, <5>1 DEF Seen
      <4> QED BY <4>2, <4>3
    <3> QED BY <3>1, <3>2
  <2>10. Seen(S[p].frontier, n.version) => VLeq(n.version, m.version)
    BY <2>5, <2>6, <2>8, <2>9, VLeqTransitive
  <2> QED BY <2>7, <2>10 DEF CellShared, m, n
<1> QED BY <1>1, <1>2 DEF Honest

\* Two peers that take over what the other holds then hold the same.
LEMMA JoinsAgree ==
  ASSUME NEW R, NEW D, ReplicaInv(R, D), Honest(R), NEW p \in Peers, NEW q \in Peers,
         NEW s, NEW t, Joins(R[p], R[q], s), Joins(R[q], R[p], t)
  PROVE  s.rows = t.rows /\ s.tombs = t.tombs
<1>1. /\ s.rows \in [Keys -> Row] /\ t.rows \in [Keys -> Row]
      /\ s.tombs \in [Keys -> OptVersion] /\ t.tombs \in [Keys -> OptVersion]
  BY DEF Joins, ReplicaState, Tombs
<1>2. \A v, w, m, n \in OptVersion : IsNewest(v, w, m) /\ IsNewest(w, v, n) => m = n
  BY VLessTransitive, VLessIrreflexive DEF IsNewest, VLeq
<1>3. ASSUME NEW k \in Keys
      PROVE  s.rows[k] = t.rows[k] /\ s.tombs[k] = t.tombs[k]
  <2> DEFINE m == s.rows[k]
             n == t.rows[k]
             a == R[p].rows[k]
             b == R[q].rows[k]
  <2>1. /\ m \in Row /\ n \in Row /\ a \in Row /\ b \in Row
        /\ m.delVersion \in OptVersion /\ n.delVersion \in OptVersion
        /\ a.delVersion \in OptVersion /\ b.delVersion \in OptVersion
    <3>1. R[p] \in ReplicaState /\ R[q] \in ReplicaState
      BY ClockFields
    <3> QED BY <1>1, <3>1, ReplicaFields, RowFields
  <2>2. m.delVersion = n.delVersion
    <3>1. /\ IsNewest(a.delVersion, b.delVersion, m.delVersion)
          /\ IsNewest(b.delVersion, a.delVersion, n.delVersion)
      BY DEF Joins
    <3> HIDE DEF a, b, m, n
    <3> QED BY <1>2, <2>1, <3>1
  <2>3. m.deleted = n.deleted
    <3>1. DeletedWithVersion(m) /\ DeletedWithVersion(n)
      BY DEF Joins
    <3>2. m.deleted \in BOOLEAN /\ n.deleted \in BOOLEAN
      BY <2>1, RowFields
    <3> HIDE DEF m, n
    <3> QED BY <2>2, <3>1, <3>2 DEF DeletedWithVersion
  <2>4. ASSUME NEW c \in Cols
        PROVE  m.cells[c] = n.cells[c]
    <3>1. /\ m.cells[c].version \in OptVersion /\ n.cells[c].version \in OptVersion
          /\ a.cells[c].version \in OptVersion /\ b.cells[c].version \in OptVersion
      BY <2>1, RowFields, CellVersion
    <3>2. m.cells[c].version = n.cells[c].version
      <4>1. /\ IsNewest(a.cells[c].version, b.cells[c].version, m.cells[c].version)
            /\ IsNewest(b.cells[c].version, a.cells[c].version, n.cells[c].version)
        BY DEF Joins
      <4> HIDE DEF a, b, m, n
      <4> QED BY <1>2, <3>1, <4>1
    <3>3. m.cells[c] \in {a.cells[c], b.cells[c]} /\ n.cells[c] \in {a.cells[c], b.cells[c]}
      BY DEF Joins
    <3>4. a.cells[c].version = b.cells[c].version => a.cells[c] = b.cells[c]
      BY DEF Honest, CellShared
    <3> HIDE DEF a, b, m, n
    <3> QED BY <3>2, <3>3, <3>4
  <2>5. m.cells = n.cells
    <3>1. m.cells = [c \in Cols |-> m.cells[c]] /\ n.cells = [c \in Cols |-> n.cells[c]]
      BY <2>1, RowFields
    <3> HIDE DEF m, n
    <3>2. [c \in Cols |-> m.cells[c]] = [c \in Cols |-> n.cells[c]]
      BY <2>4
    <3> QED BY <3>1, <3>2
  <2>6. m = n
    <3>1. /\ m = [cells |-> m.cells, deleted |-> m.deleted, delVersion |-> m.delVersion]
          /\ n = [cells |-> n.cells, deleted |-> n.deleted, delVersion |-> n.delVersion]
      BY <2>1, RowFields
    <3> HIDE DEF m, n
    <3> QED BY <2>2, <2>3, <2>5, <3>1
  <2>7. s.tombs[k] = m.delVersion /\ t.tombs[k] = n.delVersion
    BY DEF Joins
  <2> QED BY <2>2, <2>6, <2>7
<1> QED BY <1>1, <1>3

LEMMA SyncHonest ==
  ASSUME NEW P, NEW D, HostInv(P, D), Honest(ReplicasOf(P)), NEW a \in Peers, NEW b \in Peers,
         NEW Q, IsSync(P, Q, a, b)
  PROVE  Honest(ReplicasOf(Q))
<1> DEFINE R == ReplicasOf(P)
           S == ReplicasOf(Q)
           M == [p \in Peers |-> IF p = a THEN MergedReplica(P[a], a, P[b])
                                 ELSE IF p = b THEN MergedReplica(P[b], b, P[a]) ELSE R[p]]
<1>1. /\ \A p \in Peers : R[p] = P[p].replica /\ S[p] = Q[p].replica
      /\ ReplicaInv(R, D)
  BY DEF ReplicasOf, HostInv
<1>2. \A p \in Peers : \E q \in Peers : M[p] = MergedReplica(P[p], p, P[q]) \/ (q = p /\ M[p] = R[p])
  OBVIOUS
<1>3. \A p \in Peers : M[p] = R[p] \/ \E q \in Peers : IsSynced(Q[p], P[p], p, P[q])
                                        /\ M[p] = MergedReplica(P[p], p, P[q])
  BY DEF IsSync
<1>4. \A p \in Peers : p # a /\ p # b => M[p] = R[p] /\ S[p] = R[p]
  BY <1>1 DEF IsSync
<1>5. (a \in Peers /\ IsSynced(Q[a], P[a], a, P[b]) /\ M[a] = MergedReplica(P[a], a, P[b]))
      /\ (IsSynced(Q[b], P[b], b, P[a]) /\ M[b] = MergedReplica(P[b], b, P[a]))
  BY DEF IsSync
<1> HIDE DEF R, S, M
<1>6. \A p \in Peers : Good(R[p], p)
  BY <1>1, HeldIsGood
<1>7. ASSUME NEW p \in Peers
      PROVE  \E q \in Peers : Receives(R[p], R[q], M[p], p) /\ Joins(R[p], R[q], M[p])
  <2>1. CASE M[p] = R[p]
    <3>1. Receives(R[p], R[p], M[p], p) /\ Joins(R[p], R[p], M[p])
      BY <1>1, <1>6, <2>1, ReceivesFromItself, JoinsItself DEF R
    <3> QED BY <3>1
  <2>2. ASSUME NEW q \in Peers, M[p] = MergedReplica(P[p], p, P[q])
        PROVE  Receives(R[p], R[q], M[p], p) /\ Joins(R[p], R[q], M[p])
    <3>1. M[p] = apply_delta(R[p], p, extract_delta(R[q], R[p].frontier))
      BY <1>1, <2>2 DEF MergedReplica
    <3>2. Honest(R)
      BY DEF R
    <3> QED BY <1>1, <1>6, <3>1, <3>2, MergeReceives, MergeJoins
  <2> QED BY <1>2, <2>1, <2>2
<1>8. Exchanged(R, M)
  <2>1. \A p \in Peers : M[p] \in ReplicaState
    BY <1>7 DEF Receives
  <2>2. M = [p \in Peers |-> M[p]]
    BY DEF M
  <2>3. M \in [Peers -> ReplicaState]
    BY <2>1, <2>2
  <2> QED BY <1>7, <2>3 DEF Exchanged
<1>9. ReplicaInv(M, D)
  BY <1>1, <1>8, ExchangedReplicaInv
<1>10. Honest(M)
  BY <1>1, <1>7, ExchangedHonest DEF R
<1>11. \A p \in Peers : Good(M[p], p)
  BY <1>9, HeldIsGood
<1>12. ASSUME NEW p \in Peers
       PROVE  Grows(M[p], S[p], p, Values)
  <2>1. CASE p = a \/ p = b
    <3>1. Clears(M[p], S[p], p)
      BY <1>1, <1>5, <2>1 DEF IsSynced
    <3> QED BY <1>11, <3>1, GrowsMore DEF Clears
  <2>2. CASE p # a /\ p # b
    BY <1>4, <1>11, <2>2, GrowsFromItself
  <2> QED BY <2>1, <2>2
<1>13. Honest(S)
  BY <1>9, <1>10, <1>12, GrownHonest
<1> QED BY <1>13 DEF S

LEMMA SteppedHonest ==
  ASSUME NEW P, NEW D, HostInv(P, D), Honest(ReplicasOf(P)), NEW Q, Stepped(P, Q)
  PROVE  Honest(ReplicasOf(Q))
<1>1. ASSUME NEW x \in Peers, IsStatement(P, Q, x, Values)
      PROVE  Honest(ReplicasOf(Q))
  <2> DEFINE R == ReplicasOf(P)
             S == ReplicasOf(Q)
  <2>1. /\ \A p \in Peers : R[p] = P[p].replica /\ S[p] = Q[p].replica
        /\ ReplicaInv(R, D)
    BY DEF ReplicasOf, HostInv
  <2>2. Honest(R)
    OBVIOUS
  <2> HIDE DEF R, S
  <2>3. \A p \in Peers : Good(R[p], p)
    BY <2>1, HeldIsGood
  <2>4. ASSUME NEW p \in Peers
        PROVE  Grows(R[p], S[p], p, Values)
    <3>1. CASE p = x
      BY <1>1, <2>1, <3>1 DEF IsStatement, Runs
    <3>2. CASE p # x
      <4>1. S[p] = R[p]
        BY <1>1, <2>1, <3>2 DEF IsStatement
      <4> QED BY <2>3, <4>1, GrowsFromItself
    <3> QED BY <3>1, <3>2
  <2>5. Honest(S)
    BY <2>1, <2>2, <2>4, GrownHonest
  <2> QED BY <2>5 DEF S
<1> QED BY <1>1, SyncHonest DEF Stepped

LEMMA InitHonest == Init => FrontiersAreHonest
<1> SUFFICES ASSUME Init PROVE FrontiersAreHonest
  OBVIOUS
<1>1. \A p \in Peers : Replica(p) = NewReplica
  BY DEF Init, Replica, NewPeer
<1>2. \A k \in Keys : /\ NewReplica.tombs[k] = NewReplica.rows[k].delVersion
                      /\ \A c \in Cols : NewReplica.rows[k].cells[c] = NoCell
  BY NoRowType DEF NewReplica
<1> QED BY <1>1, <1>2 DEF FrontiersAreHonest, VLeq

LEMMA HonestIsHonest ==
  /\ FrontiersAreHonest <=> Honest(ReplicasOf(peers))
  /\ FrontiersAreHonest' <=> Honest(ReplicasOf(peers'))
<1>1. /\ \A p \in Peers : ReplicasOf(peers)[p] = Replica(p)
      /\ \A p \in Peers : ReplicasOf(peers')[p] = Replica(p)'
  BY DEF ReplicasOf, Replica
<1>2. FrontiersAreHonest <=> Honest(ReplicasOf(peers))
  BY <1>1 DEF FrontiersAreHonest, Honest, Buried, CellShared
<1>3. FrontiersAreHonest' <=> Honest(ReplicasOf(peers'))
  BY <1>1 DEF FrontiersAreHonest, Honest, Buried, CellShared
<1> QED BY <1>2, <1>3

\* What a frontier vouches for is there, at every peer and after any calls: the
\* filter of extract_delta leaves out nothing its receiver lacks.
THEOREM FrontiersAreHonestHolds == Spec => []FrontiersAreHonest
<1>1. IInv /\ FrontiersAreHonest /\ [Next]_vars => FrontiersAreHonest'
  <2>1. ASSUME IInv, FrontiersAreHonest, Next
        PROVE  FrontiersAreHonest'
    <3>1. HostInv(peers, deletes) /\ Honest(ReplicasOf(peers))
      BY <2>1, IInvIsHostInv, HonestIsHonest
    <3>2. Stepped(peers, peers')
      BY <2>1, <3>1, NextSteps
    <3>3. Honest(ReplicasOf(peers'))
      BY <3>1, <3>2, SteppedHonest
    <3> QED BY <3>3, HonestIsHonest
  <2>2. ASSUME FrontiersAreHonest, UNCHANGED vars
        PROVE  FrontiersAreHonest'
    BY <2>2 DEF vars, FrontiersAreHonest, Replica
  <2> QED BY <2>1, <2>2
<1> QED BY <1>1, InitHonest, Invariance, PTL DEF Spec

\* A version of E names its row.
VersionsNameRows(E) == \A e, f \in E : e.version = f.version => e.row = f.row

\* Two claims that record the same entries agree on who stands where.
LEMMA StandingIsRecorded ==
  ASSUME NEW c, NEW d, NEW E, Settled(c, E), Settled(d, E), VersionsNameRows(E)
  PROVE  Standing(c) = Standing(d)
<1>1. CASE E = {}
  <2>1. c = NoClaim /\ d = NoClaim
    BY <1>1 DEF Settled
  <2> QED BY <2>1
<1>2. CASE E # {}
  <2>1. c # NoClaim /\ d # NoClaim
    BY <1>2 DEF Settled
  <2>2. /\ Loser(c.owner, c.version) \in E /\ Loser(d.owner, d.version) \in E
        /\ c.version \in OptVersion /\ d.version \in OptVersion
    BY <2>1, ClaimFields, VersionIsOpt DEF Settled
  <2>3. VLeq(c.version, d.version) /\ VLeq(d.version, c.version)
    BY <2>1, <2>2 DEF Settled, Loser
  <2>4. c.version = d.version
    BY <2>2, <2>3, VLessTransitive, VLessIrreflexive DEF VLeq
  <2>5. c.owner = d.owner
    BY <2>2, <2>4 DEF VersionsNameRows, Loser
  <2>6. ASSUME NEW b, Settled(b, E), b # NoClaim
        PROVE  LoserRows(b) \ {b.owner} = {e.row : e \in E} \ {b.owner}
    <3>1. LoserRows(b) = RowsIn(b.losers)
      <4>1. b.losers \in Seq(Entry)
        BY <2>6, ClaimFields DEF Settled
      <4> QED BY <4>1, LoserRowsAreRowsIn
    <3>2. /\ ToSet(b.losers) \subseteq E
          /\ \A e \in E : e.row = b.owner \/ e.row \in RowsIn(b.losers)
      BY <2>6 DEF Settled
    <3> QED BY <3>1, <3>2 DEF RowsIn
  <2>7. LoserRows(c) \ {c.owner} = LoserRows(d) \ {d.owner}
    BY <2>1, <2>5, <2>6
  <2> QED BY <2>4, <2>5, <2>7 DEF Standing
<1> QED BY <1>1, <1>2

\* What either of two peers has seen of claims on x names the rows.
LEMMA SeenVersionsNameRows ==
  ASSUME NEW P, NEW D, HostInv(P, D), NEW p \in Peers, NEW q \in Peers, NEW x \in ClaimKeys
  PROVE  VersionsNameRows(EntriesSeen(P, p, x) \cup EntriesSeen(P, q, x))
<1> DEFINE E == EntriesSeen(P, p, x) \cup EntriesSeen(P, q, x)
<1>1. ASSUME NEW e \in E
      PROVE  \E y \in Peers : \E g \in P[y].filed :
               g.row = e.row /\ g.version = e.version /\ g.version.peer = y
  <2>1. PICK g \in ClaimsSeen(P, p, x) \cup ClaimsSeen(P, q, x) : e = Loser(g.row, g.version)
    BY DEF EntriesSeen
  <2>2. PICK y \in Peers : g \in P[y].filed
    BY DEF ClaimsSeen
  <2>3. g.version.peer = y
    BY <2>2 DEF HostInv, FiledBy
  <2> QED BY <2>1, <2>2, <2>3 DEF Loser
<1>2. ASSUME NEW e \in E, NEW f \in E, e.version = f.version
      PROVE  e.row = f.row
  <2>1. PICK y \in Peers : \E g \in P[y].filed :
          g.row = e.row /\ g.version = e.version /\ g.version.peer = y
    BY <1>1
  <2>2. PICK z \in Peers : \E g \in P[z].filed :
          g.row = f.row /\ g.version = f.version /\ g.version.peer = z
    BY <1>1
  <2>3. y = z
    BY <1>2, <2>1, <2>2
  <2> QED BY <1>2, <2>1, <2>2, <2>3 DEF HostInv, TicksBy
<1> QED BY <1>2 DEF VersionsNameRows

\* The merges of a sync leave both peers with the same rows, tombstones and owners,
\* and the same rows among the losers, before any conflict is resolved.
THEOREM MergesAgreeHolds == Spec => []MergesAgree
<1>1. IInv /\ FrontiersAreHonest => MergesAgree
  <2>1. SUFFICES ASSUME IInv, FrontiersAreHonest, NEW a \in Peers, NEW b \in Peers
                 PROVE  LET left  == Merged(peers[a], a, peers[b])
                            right == Merged(peers[b], b, peers[a])
                        IN  /\ left.replica.rows = right.replica.rows
                            /\ left.replica.tombs = right.replica.tombs
                            /\ \A x \in ClaimKeys :
                                 Standing(left.uniqueness[x]) = Standing(right.uniqueness[x])
    BY DEF MergesAgree
  <2> DEFINE R == ReplicasOf(peers)
             m == MergedReplica(peers[a], a, peers[b])
             n == MergedReplica(peers[b], b, peers[a])
             u == MergedRegistry(peers[a], peers[b])
             w == MergedRegistry(peers[b], peers[a])
  <2>2. HostInv(peers, deletes) /\ Honest(R)
    BY <2>1, IInvIsHostInv, HonestIsHonest
  <2>3. ReplicaInv(R, deletes) /\ R[a] = peers[a].replica /\ R[b] = peers[b].replica
    BY <2>2 DEF HostInv, ReplicasOf
  <2>4. peers[a] \in PeerState /\ peers[b] \in PeerState
    BY <2>2 DEF HostInv
  <2>5. /\ Merged(peers[a], a, peers[b]).replica = m
        /\ Merged(peers[a], a, peers[b]).uniqueness = u
        /\ Merged(peers[b], b, peers[a]).replica = n
        /\ Merged(peers[b], b, peers[a]).uniqueness = w
    BY <2>4, SyncedReplica
  <2>6. m.rows = n.rows /\ m.tombs = n.tombs
    <3> HIDE DEF R
    <3>1. Joins(R[a], R[b], m) /\ Joins(R[b], R[a], n)
      BY <2>2, <2>3, MergeJoins DEF MergedReplica
    <3> HIDE DEF m, n
    <3> QED BY <2>2, <2>3, <3>1, JoinsAgree
  <2>7. ASSUME NEW x \in ClaimKeys
        PROVE  Standing(u[x]) = Standing(w[x])
    <3> DEFINE E == EntriesSeen(peers, a, x) \cup EntriesSeen(peers, b, x)
               F == EntriesSeen(peers, b, x) \cup EntriesSeen(peers, a, x)
    <3>1. Settled(u[x], E) /\ Settled(w[x], F) /\ E = F
      BY <2>2, MergedRegistrySettles
    <3>2. VersionsNameRows(E)
      BY <2>2, SeenVersionsNameRows
    <3> HIDE DEF u, w, E, F
    <3> QED BY <3>1, <3>2, StandingIsRecorded
  <2> QED BY <2>5, <2>6, <2>7
<1> QED BY <1>1, Invariance, FrontiersAreHonestHolds, PTL

\* Two peers that hold the same rows and tombstones are alike: what is stored is no
\* later than either clock.
LEMMA SameRowsAreAlike ==
  ASSUME NEW r, NEW s, NEW p \in Peers, NEW q \in Peers, Good(r, p), Good(s, q),
         r.rows = s.rows, r.tombs = s.tombs
  PROVE  \E n : Alike(r, s, n)
<1> DEFINE n == IF r.clock <= s.clock THEN r.clock ELSE s.clock
<1>1. /\ r \in ReplicaState /\ s \in ReplicaState
      /\ r.clock \in Nat /\ s.clock \in Nat
      /\ r.frontier \in Frontier /\ s.frontier \in Frontier
  BY ReplicaFields DEF Good
<1>2. n \in Nat /\ n <= r.clock /\ n <= s.clock /\ n \in {r.clock, s.clock}
  BY <1>1
<1> HIDE DEF n
<1>3. ASSUME NEW k \in Keys, NEW c \in Cols
      PROVE  r.rows[k].cells[c].version.counter <= n
  <2> DEFINE v == r.rows[k].cells[c].version
  <2>1. v \in OptVersion
    BY <1>1, ReplicaFields, RowFields, CellVersion
  <2>2. Seen(r.frontier, v) /\ Seen(s.frontier, v)
    BY DEF Good
  <2>3. \A x \in Peers : /\ r.frontier[x] <= r.clock /\ s.frontier[x] <= s.clock
                         /\ r.frontier[x] \in Nat /\ s.frontier[x] \in Nat
    BY <1>1 DEF Good, Frontier
  <2> HIDE DEF v
  <2>4. CASE v = NoVersion
    <3>1. v.counter = 0
      BY <2>4 DEF NoVersion
    <3> QED BY <1>2, <3>1 DEF v
  <2>5. CASE v # NoVersion
    <3>1. v.peer \in Peers /\ v.counter \in Nat
      BY <2>1, <2>5 DEF OptVersion, Version
    <3>2. v.counter <= r.clock /\ v.counter <= s.clock
      BY <1>1, <2>2, <2>3, <2>5, <3>1 DEF Seen
    <3> QED BY <1>2, <3>2 DEF v
  <2> QED BY <2>4, <2>5
<1>4. \A k \in Keys : AlikeRows(r.rows[k], s.rows[k], n)
  BY <1>3 DEF AlikeRows
<1>5. \A k \in Keys : Visible(r, k) <=> Visible(s, k)
  BY DEF Visible
<1> QED BY <1>1, <1>2, <1>4, <1>5 DEF Alike

\* Both peers of a sync end with the same rows, values, tombstones and owners, each
\* having resolved the conflicts by itself (step 3 of EngineHost::sync).
THEOREM SyncAgreesHolds == Spec => []SyncAgrees
<1>1. IInv /\ MergesAgree => SyncAgrees
  <2>1. SUFFICES ASSUME IInv, MergesAgree, NEW a \in Peers, NEW b \in Peers, a < b,
                        \A x \in ClaimKeys :
                          SameLosers(Merged(peers[a], a, peers[b]).uniqueness[x],
                                     Merged(peers[b], b, peers[a]).uniqueness[x],
                                     LiveRows(enforce_fk_cascades(
                                       Merged(peers[a], a, peers[b]).replica, a)))
                 PROVE  Snapshot(AfterSync(a, b)) = Snapshot(AfterSync(b, a))
    BY DEF SyncAgrees
  <2> DEFINE m == MergedReplica(peers[a], a, peers[b])
             n == MergedReplica(peers[b], b, peers[a])
             u == MergedRegistry(peers[a], peers[b])
             w == MergedRegistry(peers[b], peers[a])
             s == AfterSync(a, b)
             t == AfterSync(b, a)
  <2>2. /\ HostInv(peers, deletes)
        /\ peers[a] \in PeerState /\ peers[b] \in PeerState
    BY <2>1, IInvIsHostInv DEF HostInv
  <2>3. /\ Merged(peers[a], a, peers[b]).replica = m
        /\ Merged(peers[a], a, peers[b]).uniqueness = u
        /\ Merged(peers[b], b, peers[a]).replica = n
        /\ Merged(peers[b], b, peers[a]).uniqueness = w
        /\ s.replica = Enforced(m, a, u)
        /\ t.replica = Enforced(n, b, w)
    BY <2>2, SyncedReplica DEF AfterSync
  <2>4. Good(peers[a].replica, a) /\ Good(peers[b].replica, b)
    BY <2>2, StatementStarts DEF Starts
  <2>5. Good(m, a) /\ Good(n, b)
    BY <2>4, MergedIsGood
  <2>6. u \in Registry /\ w \in Registry
    BY <2>2, MergedRegistrySettles
  <2>7. s.uniqueness = u /\ t.uniqueness = w
    <3>1. m \in ReplicaState /\ n \in ReplicaState
      BY <2>5 DEF Good
    <3> QED BY <2>2, <2>6, <3>1, SyncedFacts DEF IsSynced, AfterSync
  <2> HIDE DEF m, n, u, w, s, t
  <2>8. /\ m.rows = n.rows /\ m.tombs = n.tombs
        /\ \A x \in ClaimKeys : Standing(u[x]) = Standing(w[x])
    BY <2>1, <2>3 DEF MergesAgree
  <2>9. \A x \in ClaimKeys : u[x].owner = w[x].owner
    BY <2>8 DEF Standing
  <2>10. AlikeClaims(u, w, LiveRows(enforce_fk_cascades(m, a)))
    BY <2>1, <2>3, <2>9 DEF AlikeClaims
  <2>11. PICK c : Alike(m, n, c)
    BY <2>5, <2>8, SameRowsAreAlike
  <2>12. /\ LiveRows(s.replica) = LiveRows(t.replica)
         /\ Contents(s.replica, LiveRows(s.replica)) = Contents(t.replica, LiveRows(t.replica))
         /\ \A k \in Keys : s.replica.tombs[k] = NoVersion <=> t.replica.tombs[k] = NoVersion
    BY <2>3, <2>6, <2>10, <2>11, ResolutionsAgree
  <2>13. {k \in Keys : s.replica.tombs[k] # NoVersion}
           = {k \in Keys : t.replica.tombs[k] # NoVersion}
    BY <2>12
  <2>14. [x \in ClaimKeys |-> s.uniqueness[x].owner] = [x \in ClaimKeys |-> t.uniqueness[x].owner]
    BY <2>7, <2>9
  <2>15. Snapshot(s) = Snapshot(t)
    BY <2>12, <2>13, <2>14 DEF Snapshot
  <2> QED BY <2>15 DEF s, t
<1> QED BY <1>1, Invariance, MergesAgreeHolds, PTL

\* A pass that ends on the tick it started on has written nothing.
LEMMA NoTickNoWrite ==
  ASSUME NEW r, NEW s, NEW p \in Peers, Good(r, p), Grows(r, s, p, {Null}),
         s.clock <= r.clock
  PROVE  s.rows = r.rows /\ s.tombs = r.tombs /\ s.clock = r.clock /\ s.frontier = r.frontier
<1>1. /\ r \in ReplicaState /\ s \in ReplicaState /\ Good(s, p)
      /\ r.clock \in Nat /\ s.clock \in Nat
      /\ r.frontier \in [Peers -> Nat] /\ s.frontier \in [Peers -> Nat]
  BY ReplicaFields DEF Good, Grows, Frontier
<1>2. s.clock = r.clock
  BY <1>1 DEF Grows
<1>3. \A v : ~Fresh(r, s, p, v)
  BY <1>1, <1>2 DEF Fresh, Version
<1>4. ASSUME NEW k \in Keys
      PROVE  s.rows[k] = r.rows[k] /\ s.tombs[k] = r.tombs[k]
  <2>1. /\ s.rows[k].deleted = r.rows[k].deleted
        /\ s.rows[k].delVersion = r.rows[k].delVersion
        /\ s.tombs[k] = r.tombs[k]
    BY <1>3 DEF Grows, DeleteGrows
  <2>2. \A c \in Cols : s.rows[k].cells[c] = r.rows[k].cells[c]
    BY <1>3 DEF Grows, CellGrows
  <2>3. s.rows[k] \in Row /\ r.rows[k] \in Row
    BY <1>1, ReplicaFields
  <2>4. /\ s.rows[k].cells = [c \in Cols |-> s.rows[k].cells[c]]
        /\ r.rows[k].cells = [c \in Cols |-> r.rows[k].cells[c]]
    BY <2>3, RowFields
  <2>5. s.rows[k].cells = r.rows[k].cells
    BY <2>2, <2>4
  <2>6. s.rows[k] = r.rows[k]
    BY <2>1, <2>3, <2>5, RowFields
  <2> QED BY <2>1, <2>6
<1>5. s.rows = r.rows /\ s.tombs = r.tombs
  BY <1>1, <1>4 DEF ReplicaState, Tombs
<1>6. \A q \in Peers : s.frontier[q] = r.frontier[q]
  BY <1>2 DEF Grows, Good
<1> QED BY <1>1, <1>2, <1>5, <1>6

\* A side of a sync that changes nothing: the merge has brought nothing, and the
\* other peer has seen nothing new.
Rests(m, r, o) ==
  /\ m.rows = r.rows /\ m.tombs = r.tombs
  /\ o.clock <= r.clock /\ \A x \in Peers : o.frontier[x] <= r.frontier[x]

LEMMA SyncRests ==
  ASSUME NEW P, NEW D, HostInv(P, D), NEW a \in Peers, NEW b \in Peers,
         Synced(P[a], a, P[b]) = P[a]
  PROVE  /\ Rests(MergedReplica(P[a], a, P[b]), P[a].replica, P[b].replica)
         /\ P[a].uniqueness = MergedRegistry(P[a], P[b])
         /\ LosersResolved(P[a])
<1> DEFINE m == MergedReplica(P[a], a, P[b])
           r == P[a].replica
           o == P[b].replica
<1>1. /\ P[a] \in PeerState /\ P[b] \in PeerState
      /\ Good(r, a) /\ Good(o, b)
  BY StatementStarts DEF HostInv, Starts
<1>2. Receives(r, o, m, a) /\ Good(m, a)
  BY <1>1, MergedIsGood
<1>3. IsSynced(P[a], P[a], a, P[b])
  <2>1. m \in ReplicaState
    BY <1>2 DEF Good
  <2> QED BY <1>1, <2>1, MergedRegistrySettles, SyncedFacts
<1> HIDE DEF m
<1>4. Grows(m, r, a, {Null}) /\ LosersResolved(P[a]) /\ P[a].uniqueness = MergedRegistry(P[a], P[b])
  BY <1>2, <1>3 DEF IsSynced, Clears, m
<1> HIDE DEF r, o
<1>5. r.rows = m.rows /\ r.tombs = m.tombs /\ r.clock = m.clock /\ r.frontier = m.frontier
  <2>1. r.clock <= m.clock
    BY <1>2 DEF Receives
  <2> QED BY <1>2, <1>4, <2>1, NoTickNoWrite
<1>6. \A x \in Peers : o.frontier[x] <= r.frontier[x] /\ r.frontier[x] <= r.clock
  BY <1>2, <1>5 DEF Receives
<1>7. o.clock <= r.clock
  <2>1. o.frontier[b] = o.clock /\ o.clock \in Nat /\ r.clock \in Nat /\ r.frontier \in [Peers -> Nat]
    BY <1>1, ReplicaFields DEF Good, Frontier
  <2>2. o.clock <= r.frontier[b] /\ r.frontier[b] <= r.clock /\ r.frontier[b] \in Nat
    BY <1>6, <2>1
  <2> QED BY <2>1, <2>2
<1> QED BY <1>4, <1>5, <1>6, <1>7 DEF Rests, r, o, m

LEMMA RestingReplicas ==
  ASSUME NEW r \in ReplicaState, NEW s \in ReplicaState, NEW m, NEW n,
         Rests(m, r, s), Rests(n, s, r), m.rows = n.rows, m.tombs = n.tombs
  PROVE  r = s
<1>1. /\ r.clock \in Nat /\ s.clock \in Nat
      /\ r.frontier \in [Peers -> Nat] /\ s.frontier \in [Peers -> Nat]
  BY ReplicaFields DEF Frontier
<1>2. r.rows = s.rows /\ r.tombs = s.tombs
  BY DEF Rests
<1>3. r.clock = s.clock
  BY <1>1 DEF Rests
<1>4. \A x \in Peers : r.frontier[x] = s.frontier[x]
  <2>1. \A x \in Peers : /\ r.frontier[x] \in Nat /\ s.frontier[x] \in Nat
                         /\ r.frontier[x] <= s.frontier[x] /\ s.frontier[x] <= r.frontier[x]
    BY <1>1 DEF Rests
  <2> QED BY <2>1
<1>5. r.frontier = s.frontier
  BY <1>1, <1>4
<1> QED BY <1>2, <1>3, <1>5 DEF ReplicaState

\* A row that has the value of a key holds it.
LEMMA KeyIsHeld ==
  ASSUME NEW k, NEW row, NEW x \in ValueKeys(k, row), x \in ClaimKeys
  PROVE  Held(row, DOMAIN x.value) # {}
<1>1. PICK u \in Schemas[TableOf[k]].unique :
        /\ Held(row, u) = u
        /\ x = [table |-> TableOf[k], value |-> [d \in u |-> ValueAt(row, d)]]
  BY DEF ValueKeys
<1>2. DOMAIN x.value = u
  <2>1. x.value = [d \in u |-> ValueAt(row, d)]
    BY <1>1
  <2> QED BY <2>1
<1>3. u # {}
  <2>1. PICK t \in Tables : \E w \in Schemas[t].unique :
          x \in {[table |-> t, value |-> y] :
                   y \in {f \in [w -> Values \ {Null}] : \A c \in w : f[c] \in Schemas[t].columns[c]}}
    BY DEF ClaimKeys
  <2>2. PICK w \in Schemas[t].unique : DOMAIN x.value = w
    BY <2>1
  <2>3. w # {}
    BY <2>2, SchemaAssumption
  <2> QED BY <1>2, <2>2, <2>3
<1> QED BY <1>1, <1>2, <1>3

\* Peers that agree on the standings and have made their losers give way show the
\* same rows, although their lists of losers may differ.
LEMMA SameShown ==
  ASSUME NEW s, NEW t, s.replica = t.replica, s.uniqueness \in Registry,
         t.uniqueness \in Registry, LosersResolved(t),
         \A k \in Keys : ValueKeys(k, s.replica.rows[k]) \subseteq ClaimKeys,
         \A x \in ClaimKeys : Standing(s.uniqueness[x]) = Standing(t.uniqueness[x])
  PROVE  Shown(s) \subseteq Shown(t)
<1> DEFINE r == s.replica
           live == LiveRows(r)
<1>1. ASSUME NEW k \in Shown(s), NEW x \in ValueKeys(k, r.rows[k])
      PROVE  is_effective_unique_winner(t.uniqueness[x], live, k)
  <2> DEFINE c == s.uniqueness[x]
             d == t.uniqueness[x]
  <2>1. k \in live /\ k \in Keys /\ x \in ClaimKeys /\ is_effective_unique_winner(c, live, k)
    BY <1>1 DEF Shown, LiveRows
  <2>2. c \in ClaimOf(Keys) /\ d \in ClaimOf(Keys)
    BY <2>1 DEF Registry
  <2>3. /\ c.owner = d.owner /\ c.version = d.version
        /\ LoserRows(c) \ {c.owner} = LoserRows(d) \ {d.owner}
    BY <2>1 DEF Standing
  <2>4. k \in LoserRows(d) =>
          d.owner \notin live /\ is_effective_unique_winner(d, live, k)
    BY <1>1, <2>1, KeyIsHeld DEF LosersResolved, ResolvesClaim, Resolves
  <2> HIDE DEF c, d
  <2>5. CASE c = NoClaim
    <3>1. d.version = NoVersion
      BY <2>3, <2>5 DEF NoClaim
    <3>2. d = NoClaim
      BY <2>2, <3>1, ClaimFields, VersionIsOpt
    <3> QED BY <3>2 DEF is_effective_unique_winner, d
  <2>6. CASE c.owner = k
    BY <2>3, <2>6 DEF is_effective_unique_winner, d
  <2>7. CASE c.owner \notin live /\ \E i \in DOMAIN c.losers : c.losers[i].row = k
    <3>1. k \in LoserRows(c) \ {c.owner}
      BY <2>1, <2>7 DEF LoserRows
    <3> QED BY <2>3, <2>4, <3>1 DEF d
  <2> QED BY <2>1, <2>5, <2>6, <2>7 DEF is_effective_unique_winner
<1>2. Shown(s) \subseteq live
  BY DEF Shown
<1> QED BY <1>1, <1>2 DEF Shown

\* What PeersConverge comes to rest on: where a sync changes nothing at either peer,
\* both hold the same replica and show the same rows.
THEOREM RestingPeersAgreeHolds == Spec => []RestingPeersAgree
<1>1. IInv /\ MergesAgree => RestingPeersAgree
  <2>1. SUFFICES ASSUME IInv, MergesAgree, NEW a \in Peers, NEW b \in Peers, a < b,
                        ~SyncHasWork(a, b)
                 PROVE  /\ Replica(a) = Replica(b)
                        /\ \A x \in ClaimKeys :
                             Standing(peers[a].uniqueness[x]) = Standing(peers[b].uniqueness[x])
                        /\ Result(peers[a]) = Result(peers[b])
    BY DEF RestingPeersAgree
  <2> DEFINE m == MergedReplica(peers[a], a, peers[b])
             n == MergedReplica(peers[b], b, peers[a])
             u == MergedRegistry(peers[a], peers[b])
             w == MergedRegistry(peers[b], peers[a])
             r == peers[a].replica
             s == peers[b].replica
  <2>2. /\ HostInv(peers, deletes)
        /\ peers[a] \in PeerState /\ peers[b] \in PeerState
        /\ r \in ReplicaState /\ s \in ReplicaState /\ WellTyped(r) /\ WellTyped(s)
    BY <2>1, IInvIsHostInv, PeerFields DEF HostInv
  <2>3. /\ Merged(peers[a], a, peers[b]).replica = m
        /\ Merged(peers[a], a, peers[b]).uniqueness = u
        /\ Merged(peers[b], b, peers[a]).replica = n
        /\ Merged(peers[b], b, peers[a]).uniqueness = w
    BY <2>2, SyncedReplica
  <2>4. /\ Synced(peers[a], a, peers[b]) = peers[a]
        /\ Synced(peers[b], b, peers[a]) = peers[b]
    BY <2>1 DEF SyncHasWork, AfterSync
  <2>5. /\ Rests(m, r, s) /\ peers[a].uniqueness = u /\ LosersResolved(peers[a])
        /\ Rests(n, s, r) /\ peers[b].uniqueness = w /\ LosersResolved(peers[b])
    BY <2>2, <2>4, SyncRests
  <2> HIDE DEF m, n, u, w
  <2>6. /\ m.rows = n.rows /\ m.tombs = n.tombs
        /\ \A x \in ClaimKeys : Standing(u[x]) = Standing(w[x])
    BY <2>1, <2>3 DEF MergesAgree
  <2>7. r = s
    BY <2>2, <2>5, <2>6, RestingReplicas
  <2>8. \A k \in Keys : ValueKeys(k, r.rows[k]) \subseteq ClaimKeys
    BY <2>2, ReplicaFields, ValueKeysAreClaimKeys DEF WellTyped
  <2>9. peers[a].uniqueness \in Registry /\ peers[b].uniqueness \in Registry
    BY <2>2, PeerFields
  <2>10. \A x \in ClaimKeys : Standing(peers[a].uniqueness[x]) = Standing(peers[b].uniqueness[x])
    BY <2>5, <2>6
  <2>11. Shown(peers[a]) = Shown(peers[b])
    <3>1. Shown(peers[a]) \subseteq Shown(peers[b])
      BY <2>5, <2>7, <2>8, <2>9, <2>10, SameShown
    <3>2. Shown(peers[b]) \subseteq Shown(peers[a])
      BY <2>5, <2>7, <2>8, <2>9, <2>10, SameShown
    <3> QED BY <3>1, <3>2
  <2> QED BY <2>7, <2>10, <2>11 DEF Replica, Result
<1> QED BY <1>1, Invariance, MergesAgreeHolds, PTL

-----------------------------------------------------------------------------
(***************************************************************************)
(* What readers see.                                                       *)
(***************************************************************************)

\* Two live losers of a claim cannot both be its effective winner: one of them
\* has the older version.
LEMMA OneEffectiveWinner ==
  ASSUME NEW P, NEW D, HostInv(P, D), NEW p \in Peers, NEW x \in ClaimKeys,
         P[p].uniqueness[x] # NoClaim, NEW alive, NEW j \in alive, NEW k \in alive,
         is_effective_unique_winner(P[p].uniqueness[x], alive, j),
         is_effective_unique_winner(P[p].uniqueness[x], alive, k)
  PROVE  j = k
<1> DEFINE c == P[p].uniqueness[x]
<1>1. SUFFICES ASSUME j # k PROVE FALSE
  OBVIOUS
<1>2. c.owner \notin alive /\ c.owner # j /\ c.owner # k
  BY <1>1 DEF is_effective_unique_winner
<1>3. PICK i \in DOMAIN c.losers :
        /\ c.losers[i].row = j
        /\ \A n \in DOMAIN c.losers :
             c.losers[n].row \in alive \ {j} => ~VLess(c.losers[i].version, c.losers[n].version)
  BY <1>2 DEF is_effective_unique_winner
<1>4. PICK m \in DOMAIN c.losers :
        /\ c.losers[m].row = k
        /\ \A n \in DOMAIN c.losers :
             c.losers[n].row \in alive \ {k} => ~VLess(c.losers[m].version, c.losers[n].version)
  BY <1>2 DEF is_effective_unique_winner
<1> DEFINE v == c.losers[i].version
           w == c.losers[m].version
<1>5. ~VLess(v, w) /\ ~VLess(w, v)
  BY <1>1, <1>3, <1>4
<1>6. /\ [row |-> j, value |-> x, version |-> v] \in ClaimsSeen(P, p, x)
      /\ [row |-> k, value |-> x, version |-> w] \in ClaimsSeen(P, p, x)
  <2>1. RecordInv(P)
    BY RegistryIsRecord DEF HostInv
  <2>2. \A n \in DOMAIN c.losers :
          [row |-> c.losers[n].row, value |-> x, version |-> c.losers[n].version]
            \in ClaimsSeen(P, p, x)
    BY <2>1 DEF RecordInv
  <2> QED BY <1>3, <1>4, <2>2
<1> HIDE DEF c, v, w
<1>7. v \in Version /\ w \in Version
  <2>1. \A e \in ClaimsSeen(P, p, x) : e.version \in Version
    BY ClaimsSeenFacts DEF HostInv
  <2> QED BY <1>6, <2>1
<1>8. v = w
  BY <1>5, <1>7, VersionIsOpt, VLessTotal
<1>9. PICK y \in Peers : [row |-> j, value |-> x, version |-> v] \in P[y].filed
  BY <1>6 DEF ClaimsSeen
<1>10. PICK z \in Peers : [row |-> k, value |-> x, version |-> w] \in P[z].filed
  BY <1>6 DEF ClaimsSeen
<1>11. v.peer = y /\ w.peer = z
  BY <1>9, <1>10 DEF HostInv, FiledBy
<1> QED BY <1>1, <1>8, <1>9, <1>10, <1>11 DEF HostInv, TicksBy

LEMMA ValuesAreClaimed ==
  ASSUME NEW P, NEW D, HostInv(P, D), NEW p \in Peers, NEW k \in Keys,
         NEW x \in ValueKeys(k, P[p].replica.rows[k]), OnOneColumn(x)
  PROVE  /\ x \in ClaimKeys
         /\ P[p].uniqueness[x] # NoClaim
         /\ k = P[p].uniqueness[x].owner \/ k \in LoserRows(P[p].uniqueness[x])
<1>1. x \in ClaimKeys
  <2>1. WellTyped(P[p].replica) /\ P[p].replica \in ReplicaState
    BY PeerFields DEF HostInv
  <2>2. P[p].replica.rows[k] \in Row
    BY <2>1, ReplicaFields
  <2> QED BY <2>1, <2>2, ValueKeysAreClaimKeys DEF WellTyped
<1>2. RecordInv(P)
  BY RegistryIsRecord DEF HostInv
<1>3. \E e \in ClaimsSeen(P, p, x) : e.row = k
  BY DEF HostInv, ValuesBy, HasClaimed
<1> QED BY <1>1, <1>2, <1>3 DEF RecordInv

LEMMA ShownOnce ==
  ASSUME NEW P, NEW D, HostInv(P, D), NEW p \in Peers, NEW j \in Shown(P[p]),
         NEW k \in Shown(P[p]), NEW x \in ValueKeys(j, P[p].replica.rows[j]),
         x \in ValueKeys(k, P[p].replica.rows[k]), OnOneColumn(x)
  PROVE  j = k
<1> DEFINE c == P[p].uniqueness[x]
           live == LiveRows(P[p].replica)
<1>1. /\ j \in live /\ k \in live /\ j \in Keys
      /\ is_effective_unique_winner(c, live, j)
      /\ is_effective_unique_winner(c, live, k)
  BY DEF Shown, LiveRows
<1>2. x \in ClaimKeys /\ c # NoClaim
  BY <1>1, ValuesAreClaimed
<1> HIDE DEF live
<1> QED BY <1>1, <1>2, OneEffectiveWinner

\* When every constraint is on one column, a reader never sees two rows with the
\* same value of a constraint: not after a statement that makes a duplicate,
\* not when the owner of a value has died, not after a sync (snapshot_state
\* and select_rows hide the rows that is_effective_unique_winner refuses).
THEOREM ReadsAreUniqueHolds ==
  ASSUME OnlySingleColumns
  PROVE  Spec => []ReadsAreUnique
<1>1. IInv => ReadsAreUnique
  <2>1. SUFFICES ASSUME IInv, NEW p \in Peers,
                        NEW j \in Shown(peers[p]), NEW k \in Shown(peers[p]),
                        NEW x \in ValueKeys(j, peers[p].replica.rows[j]),
                        x \in ValueKeys(k, peers[p].replica.rows[k])
                 PROVE  j = k
    BY DEF ReadsAreUnique, NoDuplicates, Replica
  <2>2. HostInv(peers, deletes)
    BY <2>1, IInvIsHostInv
  <2>3. j \in Keys
    BY DEF Shown, LiveRows
  <2>4. x \in ClaimKeys
    <3>1. WellTyped(peers[p].replica) /\ peers[p].replica \in ReplicaState
      BY <2>2, PeerFields DEF HostInv
    <3>2. peers[p].replica.rows[j] \in Row
      BY <2>3, <3>1, ReplicaFields
    <3> QED BY <2>3, <3>1, <3>2, ValueKeysAreClaimKeys DEF WellTyped
  <2>5. OnOneColumn(x)
    BY <2>4 DEF OnlySingleColumns
  <2> QED BY <2>1, <2>2, <2>5, ShownOnce
<1> QED BY <1>1, Invariance, PTL

\* Where all losers have given way, nothing is left to hide.
LEMMA ResolvedIsUnique ==
  ASSUME OnlySingleColumns, NEW P, NEW D, HostInv(P, D), NEW p \in Peers,
         LosersResolved(P[p])
  PROVE  RestoredUnique(P[p])
<1> DEFINE r == P[p].replica
           u == P[p].uniqueness
           live == LiveRows(r)
<1>1. live \subseteq Keys
  BY DEF LiveRows
<1>2. ASSUME NEW k \in live, NEW x \in ValueKeys(k, r.rows[k])
      PROVE  OnOneColumn(x) /\ is_effective_unique_winner(u[x], live, k)
  <2>1. x \in ClaimKeys
    <3>1. WellTyped(r) /\ r \in ReplicaState
      BY PeerFields DEF HostInv
    <3>2. r.rows[k] \in Row
      BY <1>1, <3>1, ReplicaFields
    <3> QED BY <1>1, <3>1, <3>2, ValueKeysAreClaimKeys DEF WellTyped
  <2>2. OnOneColumn(x)
    BY <2>1 DEF OnlySingleColumns
  <2>3. k = u[x].owner \/ k \in LoserRows(u[x])
    BY <1>1, <2>2, ValuesAreClaimed
  <2>4. Held(r.rows[k], DOMAIN x.value) # {}
    <3>1. PICK c \in Cols : DOMAIN x.value = {c}
      BY <2>2 DEF OnOneColumn
    <3>2. ValueAt(r.rows[k], c) # Null
      BY <3>1, KeyOfColumn
    <3> QED BY <3>1, <3>2 DEF Held
  <2>5. k \in LoserRows(u[x]) => is_effective_unique_winner(u[x], live, k)
    BY <2>1, <2>4 DEF LosersResolved, ResolvesClaim, Resolves
  <2>6. k = u[x].owner => is_effective_unique_winner(u[x], live, k)
    BY DEF is_effective_unique_winner
  <2> QED BY <2>2, <2>3, <2>5, <2>6
<1>3. Shown(P[p]) = live
  BY <1>2 DEF Shown
<1>4. NoDuplicates(r, live)
  <2>1. ASSUME NEW j \in live, NEW k \in live, NEW x \in ValueKeys(j, r.rows[j]),
               x \in ValueKeys(k, r.rows[k])
        PROVE  j = k
    BY <1>2, <1>3, <2>1, ShownOnce
  <2> QED BY <2>1 DEF NoDuplicates
<1> QED BY <1>3, <1>4 DEF RestoredUnique

\* When every constraint is on one column, each side of a sync ends with a table
\* that satisfies its constraints as it is stored, and with every live row
\* readable (enforce_uniqueness_tombstones between the two cascades of
\* EngineHost::sync).
THEOREM SyncRestoresUniquenessHolds ==
  ASSUME OnlySingleColumns
  PROVE  Spec => []SyncRestoresUniqueness
<1>1. IInv => SyncRestoresUniqueness
  <2>1. SUFFICES ASSUME IInv, NEW a \in Peers, NEW b \in Peers, a # b
                 PROVE  RestoredUnique(AfterSync(a, b))
    BY DEF SyncRestoresUniqueness
  <2> DEFINE P == PeersAfter(peers, a, b)
             D == DeletesAfter(peers, deletes, a, b)
  <2>2. HostInv(P, D) /\ P[a] = AfterSync(a, b) /\ LosersResolved(P[a])
    BY <2>1, IInvIsHostInv, AfterSyncInv DEF AfterSync
  <2> HIDE DEF P, D
  <2>3. RestoredUnique(P[a])
    BY <2>1, <2>2, ResolvedIsUnique
  <2> QED BY <2>2, <2>3
<1> QED BY <1>1, Invariance, PTL

\* The cells that make up a key keep it.
LEMMA KeyOfCells ==
  ASSUME NEW k, NEW old, NEW row, NEW x \in ValueKeys(k, old),
         \A d \in DOMAIN x.value : row.cells[d] = old.cells[d]
  PROVE  x \in ValueKeys(k, row)
<1>1. PICK u \in Schemas[TableOf[k]].unique :
        /\ Held(old, u) = u
        /\ x = [table |-> TableOf[k], value |-> [d \in u |-> ValueAt(old, d)]]
  BY DEF ValueKeys
<1>2. DOMAIN x.value = u
  <2>1. x.value = [d \in u |-> ValueAt(old, d)]
    BY <1>1
  <2> QED BY <2>1
<1>3. \A d \in u : ValueAt(row, d) = ValueAt(old, d)
  BY <1>2 DEF ValueAt
<1>4. Held(row, u) = u
  BY <1>1, <1>3 DEF Held
<1>5. [d \in u |-> ValueAt(row, d)] = [d \in u |-> ValueAt(old, d)]
  BY <1>3
<1> QED BY <1>1, <1>4, <1>5 DEF ValueKeys

\* The value x passes from its owner, which the cascade of m deletes, to an heir.
Replaced(m, u, s, p, x) ==
  LET cascaded == enforce_fk_cascades(m, p)
      heirs    == LoserRows(u[x]) \cap LiveRows(cascaded)
  IN  /\ u[x].owner \in Holders(m, x) \ LiveRows(cascaded)
      /\ heirs # {} /\ heirs \subseteq Holders(cascaded, x)
      /\ \A k \in heirs : LostOnly(u, k, x)
      => heirs \cap Holders(s, x) # {}

LEMMA PassesReplace ==
  ASSUME NEW m \in ReplicaState, NEW u \in Registry, NEW p \in Peers, NEW x \in ClaimKeys
  PROVE  Replaced(m, u, Enforced(m, p, u), p, x)
<1> DEFINE r == enforce_fk_cascades(m, p)
           s == Enforced(m, p, u)
           heirs == LoserRows(u[x]) \cap LiveRows(r)
<1>1. SUFFICES ASSUME u[x].owner \notin LiveRows(r),
                      heirs # {}, heirs \subseteq Holders(r, x),
                      \A k \in heirs : LostOnly(u, k, x)
               PROVE  heirs \cap Holders(s, x) # {}
  <2> HIDE DEF s
  <2> QED BY DEF Replaced, s
<1> HIDE DEF r, s
<1>2. PICK w \in heirs : KeepsCells(r, s, w, DOMAIN x.value)
  BY <1>1, HeirKeepsCells DEF r, s
<1>3. w \in LiveRows(s) /\ w \in Keys /\ x \in ValueKeys(w, r.rows[w])
  BY <1>1, <1>2 DEF KeepsCells, Holders, LiveRows
<1>4. x \in ValueKeys(w, s.rows[w])
  BY <1>2, <1>3, KeyOfCells DEF KeepsCells
<1>5. w \in Holders(s, x)
  BY <1>3, <1>4 DEF Holders
<1> QED BY <1>2, <1>5

\* When the first cascade of a sync deletes the owner of a value, a loser that still
\* holds the value keeps it: uniqueness is enforced after that cascade, which it
\* must see, and nothing that comes later takes the value away.
THEOREM CascadedWinnerIsReplacedHolds == Spec => []CascadedWinnerIsReplaced
<1>1. IInv => CascadedWinnerIsReplaced
  <2>1. ASSUME IInv, NEW a \in Peers, NEW b \in Peers, NEW x \in ClaimKeys
        PROVE  Replaced(Merged(peers[a], a, peers[b]).replica,
                        Merged(peers[a], a, peers[b]).uniqueness,
                        AfterSync(a, b).replica, a, x)
    <3> DEFINE m == MergedReplica(peers[a], a, peers[b])
               u == MergedRegistry(peers[a], peers[b])
    <3>1. HostInv(peers, deletes) /\ peers[a] \in PeerState
      BY <2>1, IInvIsHostInv DEF HostInv
    <3>2. /\ Merged(peers[a], a, peers[b]).replica = m
          /\ Merged(peers[a], a, peers[b]).uniqueness = u
          /\ AfterSync(a, b).replica = Enforced(m, a, u)
      BY <3>1, SyncedReplica DEF AfterSync
    <3>3. m \in ReplicaState
      <4>1. Good(peers[a].replica, a) /\ Good(peers[b].replica, b)
        BY <3>1, StatementStarts DEF Starts
      <4> QED BY <4>1, MergeReceives DEF MergedReplica, Receives
    <3>4. u \in Registry
      BY <3>1, MergedRegistrySettles
    <3> HIDE DEF m, u
    <3> QED BY <3>2, <3>3, <3>4, PassesReplace
  <2> QED BY <2>1 DEF CascadedWinnerIsReplaced, Replaced
<1> QED BY <1>1, Invariance, PTL

-----------------------------------------------------------------------------
(***************************************************************************)
(* Indexes and NOT NULL columns.                                           *)
(***************************************************************************)

\* A row that is visible after a merge was visible wherever it was stored.
LEMMA MergedRow ==
  ASSUME NEW r, NEW o, NEW p, NEW f, NEW k \in Keys,
         Visible(apply_delta(r, p, extract_delta(o, f)), k)
  PROVE  LET a == r.rows[k]
             b == o.rows[k]
             n == apply_delta(r, p, extract_delta(o, f)).rows[k]
         IN  \/ n = a /\ Visible(r, k)
             \/ n = b /\ Visible(o, k)
             \/ /\ Visible(r, k) /\ Visible(o, k)
                /\ \A c \in Cols : n.cells[c] \in {a.cells[c], b.cells[c]}
<1> DEFINE d == extract_delta(o, f)
           a == r.rows[k]
           b == o.rows[k]
           e == d.rows[k]
           m == Received(a, e)
           n == apply_delta(r, p, d).rows[k]
<1>1. n = Tombstoned(m, d.tombs[k])
  BY DEF apply_delta
<1>2. e = NoRow \/ e = b
  BY DEF extract_delta
<1>3. n # NoRow /\ ~n.deleted
  BY DEF Visible
<1> HIDE DEF d, n
<1>4. n = m
  <2> HIDE DEF m
  <2>1. n = m \/ n = DeletedRow(m, d.tombs[k])
    BY <1>1 DEF Tombstoned
  <2>2. DeletedRow(m, d.tombs[k]).deleted = TRUE
    BY DEF DeletedRow
  <2> QED BY <1>3, <2>1, <2>2
<1>5. CASE e = NoRow
  <2>1. n = a
    BY <1>4, <1>5 DEF Received
  <2> QED BY <1>3, <2>1 DEF Visible, n, d
<1>6. CASE e # NoRow /\ a = NoRow
  <2>1. n = b
    BY <1>2, <1>4, <1>6 DEF Received
  <2> QED BY <1>3, <2>1 DEF Visible, n, d
<1>7. CASE e # NoRow /\ a # NoRow
  <2>1. n = merge_row(a, b) /\ b # NoRow
    BY <1>2, <1>4, <1>7 DEF Received
  <2> HIDE DEF a, b, e
  <2>2. \A c \in Cols : n.cells[c] = merge_cell(a.cells[c], b.cells[c])
    BY <2>1 DEF merge_row
  <2>3. n.deleted = (a.deleted \/ b.deleted)
    BY <2>1 DEF merge_row
  <2>4. ~a.deleted /\ ~b.deleted
    BY <1>3, <2>3
  <2>5. \A c \in Cols : n.cells[c] \in {a.cells[c], b.cells[c]}
    BY <2>2 DEF merge_cell
  <2> QED BY <1>7, <2>1, <2>4, <2>5 DEF Visible, a, b, n, d
<1> QED BY <1>5, <1>6, <1>7

LEMMA MergedFilled ==
  ASSUME NEW s, NEW p, NEW q, Filled(s.replica), Filled(q.replica)
  PROVE  Filled(MergedReplica(s, p, q))
<1> DEFINE r == s.replica
           o == q.replica
           m == MergedReplica(s, p, q)
<1>1. ASSUME NEW k \in LiveRows(m), NEW c \in Schemas[TableOf[k]].notNull
      PROVE  ValueAt(m.rows[k], c) # Null
  <2>1. k \in Keys /\ Visible(m, k) /\ c \in Cols
    BY <1>1, NotNullColumns DEF LiveRows
  <2>2. \/ m.rows[k] = r.rows[k] /\ Visible(r, k)
        \/ m.rows[k] = o.rows[k] /\ Visible(o, k)
        \/ /\ Visible(r, k) /\ Visible(o, k)
           /\ m.rows[k].cells[c] \in {r.rows[k].cells[c], o.rows[k].cells[c]}
    BY <2>1, MergedRow DEF MergedReplica
  <2> HIDE DEF m
  <2>3. /\ Visible(r, k) => ValueAt(r.rows[k], c) # Null
        /\ Visible(o, k) => ValueAt(o.rows[k], c) # Null
    BY <1>1, <2>1 DEF Filled, RowFilled, LiveRows
  <2> QED BY <2>2, <2>3 DEF ValueAt
<1> QED BY <1>1 DEF Filled, RowFilled

\* A claim that records claims on x has losers in the table of x only.
LEMMA RegistryInTables ==
  ASSUME NEW P, NEW D, HostInv(P, D), NEW p \in Peers, NEW q \in Peers
  PROVE  InTheirTables(P[p].uniqueness) /\ InTheirTables(MergedRegistry(P[p], P[q]))
<1>1. P \in [Peers -> PeerState]
  BY DEF HostInv
<1>2. ASSUME NEW x \in ClaimKeys, NEW z \in Peers, NEW l \in EntriesSeen(P, z, x)
      PROVE  l.row \in RowsOf(x.table)
  <2>1. PICK e \in ClaimsSeen(P, z, x) : l = Loser(e.row, e.version)
    BY <1>2 DEF EntriesSeen
  <2>2. e \in ClaimEvent /\ e.value = x
    BY <1>1, ClaimsSeenFacts
  <2>3. e.row \in Keys /\ TableOf[e.row] = x.table
    BY <2>2 DEF ClaimEvent
  <2> QED BY <2>1, <2>3 DEF Loser, RowsOf
<1>3. ASSUME NEW x \in ClaimKeys, NEW c, NEW E, Settled(c, E),
             E \subseteq EntriesSeen(P, p, x) \cup EntriesSeen(P, q, x)
      PROVE  LoserRows(c) \subseteq RowsOf(x.table)
  <2>1. CASE c = NoClaim
    BY <2>1 DEF LoserRows, NoClaim
  <2>2. CASE c # NoClaim
    <3>1. ToSet(c.losers) \subseteq EntriesSeen(P, p, x) \cup EntriesSeen(P, q, x)
      BY <1>3, <2>2 DEF Settled
    <3>2. \A l \in ToSet(c.losers) : l.row \in RowsOf(x.table)
      BY <1>2, <3>1
    <3> QED BY <3>2 DEF LoserRows, ToSet
  <2> QED BY <2>1, <2>2
<1>4. ASSUME NEW x \in ClaimKeys
      PROVE  /\ LoserRows(P[p].uniqueness[x]) \subseteq RowsOf(x.table)
             /\ LoserRows(MergedRegistry(P[p], P[q])[x]) \subseteq RowsOf(x.table)
  <2>1. Settled(P[p].uniqueness[x], EntriesSeen(P, p, x))
    BY DEF HostInv, RegistryInv
  <2>2. Settled(MergedRegistry(P[p], P[q])[x], EntriesSeen(P, p, x) \cup EntriesSeen(P, q, x))
    BY MergedRegistrySettles
  <2> QED BY <1>3, <2>1, <2>2
<1> QED BY <1>4 DEF InTheirTables

\* What a call keeps at every peer.
HostKeeps(P, Q) ==
  /\ IndexedAreSpared /\ (\A p \in Peers : Indexed(P[p])) => \A p \in Peers : Indexed(Q[p])
  /\ RequiredAreSpared /\ (\A p \in Peers : Filled(P[p].replica))
       => \A p \in Peers : Filled(Q[p].replica)

LEMMA OnePeerKeeps ==
  ASSUME NEW P \in [Peers -> PeerState], NEW p \in Peers, NEW t,
         IndexedAreSpared /\ Indexed(P[p]) => Indexed(t),
         RequiredAreSpared /\ Filled(P[p].replica) => Filled(t.replica)
  PROVE  HostKeeps(P, [P EXCEPT ![p] = t])
<1> DEFINE Q == [P EXCEPT ![p] = t]
<1>1. \A x \in Peers : Q[x] = IF x = p THEN t ELSE P[x]
  OBVIOUS
<1> HIDE DEF Q
<1>2. HostKeeps(P, Q)
  BY <1>1 DEF HostKeeps
<1> QED BY <1>2 DEF Q

LEMMA SyncKeeps ==
  ASSUME NEW P, NEW D, HostInv(P, D), NEW a \in Peers, NEW b \in Peers,
         NEW Q, IsSync(P, Q, a, b)
  PROVE  HostKeeps(P, Q)
<1>1. ASSUME NEW p \in Peers, NEW q \in Peers, IsSynced(Q[p], P[p], p, P[q]),
             RequiredAreSpared, Filled(P[p].replica), Filled(P[q].replica)
      PROVE  Filled(Q[p].replica)
  <2>1. Filled(MergedReplica(P[p], p, P[q]))
    BY <1>1, MergedFilled
  <2>2. Spares(MergedReplica(P[p], p, P[q]), Q[p].replica)
    BY <1>1, RegistryInTables DEF IsSynced
  <2> QED BY <1>1, <2>1, <2>2, FilledSpares
<1>2. Indexed(Q[a]) /\ Indexed(Q[b]) /\ \A p \in Peers : p # a /\ p # b => Q[p] = P[p]
  BY DEF IsSync, IsSynced
<1>3. ASSUME RequiredAreSpared, \A p \in Peers : Filled(P[p].replica), NEW p \in Peers
      PROVE  Filled(Q[p].replica)
  BY <1>1, <1>2, <1>3 DEF IsSync
<1> QED BY <1>2, <1>3 DEF HostKeeps

LEMMA NextKeeps ==
  ASSUME HostInv(peers, deletes), Next
  PROVE  HostKeeps(peers, peers')
<1>1. peers \in [Peers -> PeerState]
  BY DEF HostInv
<1>2. ASSUME NEW p \in Peers, NEW t, peers' = [peers EXCEPT ![p] = t], Keeps(peers[p], t)
      PROVE  HostKeeps(peers, peers')
  BY <1>1, <1>2, OnePeerKeeps DEF Keeps
<1>3. ASSUME NEW p \in Peers, NEW t \in Tables, NEW batch \in Batches(t), Insert(p, batch)
      PROVE  HostKeeps(peers, peers')
  <2> DEFINE q == exec_insert(peers[p], p, batch)
  <2>1. PICK N : batch \in Seq(N) /\ \A i \in DOMAIN batch :
                   /\ IsNew(batch[i]) /\ HasRequired(batch[i])
                   /\ peers[p].replica.rows[batch[i].key] = NoRow
    BY <1>3, InsertFacts
  <2>2. Starts(peers[p], p, Entries(peers, p))
    BY StatementStarts
  <2>3. Keeps(peers[p], q)
    BY <2>1, <2>2, InsertKeeps
  <2>4. peers' = [peers EXCEPT ![p] = q]
    BY <1>3 DEF Insert
  <2> HIDE DEF q
  <2> QED BY <1>2, <2>3, <2>4
<1>4. ASSUME NEW p \in Peers, NEW t \in Tables, NEW S \in Selections(p, t),
             NEW assign \in SetLists(t), Update(p, S, assign)
      PROVE  HostKeeps(peers, peers')
  <2> DEFINE q == exec_update(peers[p], p, S, assign)
  <2>1. AreSetLists(S, assign) /\ S \subseteq LiveRows(peers[p].replica)
    BY SetListFacts
  <2>2. Starts(peers[p], p, Entries(peers, p))
    BY StatementStarts
  <2>3. Keeps(peers[p], q)
    BY <2>1, <2>2, UpdateKeeps
  <2>4. peers' = [peers EXCEPT ![p] = q]
    BY <1>4 DEF Update
  <2> HIDE DEF q
  <2> QED BY <1>2, <2>3, <2>4
<1>5. ASSUME NEW p \in Peers, NEW S, Delete(p, S)
      PROVE  HostKeeps(peers, peers')
  <2> DEFINE q == exec_delete(peers[p], p, S)
  <2>1. InTheirTables(peers[p].uniqueness)
    BY RegistryInTables
  <2>2. /\ IndexedAreSpared /\ Indexed(peers[p]) => Indexed(q)
        /\ RequiredAreSpared /\ Filled(peers[p].replica) => Filled(q.replica)
    BY <1>1, <2>1, DeleteKeeps
  <2>3. peers' = [peers EXCEPT ![p] = q]
    BY <1>5 DEF Delete
  <2> HIDE DEF q
  <2> QED BY <1>1, <2>2, <2>3, OnePeerKeeps
<1>6. ASSUME NEW p \in Peers, NEW i \in Indexes, CreateIndex(p, i)
      PROVE  HostKeeps(peers, peers')
  <2>1. PICK t : peers' = [peers EXCEPT ![p] = t] /\ Keeps(peers[p], t)
    BY <1>6, CreateIndexStep
  <2> QED BY <1>2, <2>1
<1>7. ASSUME NEW a \in Peers, NEW b \in Peers, Sync(a, b)
      PROVE  HostKeeps(peers, peers')
  <2>1. a # b /\ peers' = PeersAfter(peers, a, b)
    BY <1>7 DEF Sync, PeersAfter
  <2>2. IsSync(peers, peers', a, b)
    BY <2>1, AfterSyncInv
  <2> QED BY <2>2, SyncKeeps
<1> QED BY <1>3, <1>4, <1>5, <1>6, <1>7, Zenon DEF Next

\* When no pass changes what an index is made from, every index holds exactly the
\* visible rows of its table: through the statements, which maintain it row by row
\* (update_row) and may fail between two rows, CREATE INDEX, and syncs, which
\* rebuild it.  With the passes this is false (run index_stale).
THEOREM IndexMatchesRowsHolds ==
  ASSUME IndexedAreSpared
  PROVE  Spec => []IndexMatchesRows
<1>1. IndexMatchesRows <=> \A p \in Peers : Indexed(peers[p])
  BY DEF IndexMatchesRows, Indexed, Replica
<1>2. IndexMatchesRows' <=> \A p \in Peers : Indexed(peers'[p])
  BY DEF IndexMatchesRows, Indexed, Replica
<1>3. Init => IndexMatchesRows
  BY DEF Init, IndexMatchesRows, NewPeer
<1>4. IInv /\ IndexMatchesRows /\ [Next]_vars => IndexMatchesRows'
  <2>1. SUFFICES ASSUME HostInv(peers, deletes), \A p \in Peers : Indexed(peers[p]), [Next]_vars
                 PROVE  \A p \in Peers : Indexed(peers'[p])
    BY <1>1, <1>2, IInvIsHostInv
  <2>2. CASE Next
    BY <2>1, <2>2, NextKeeps DEF HostKeeps
  <2>3. CASE UNCHANGED vars
    BY <2>1, <2>3 DEF vars
  <2> QED BY <2>1, <2>2, <2>3
<1> QED BY <1>3, <1>4, Invariance, PTL DEF Spec

\* When no pass clears a NOT NULL column, every visible row has a value in all its
\* NOT NULL columns at every peer: an UPDATE that would set one to NULL ends before
\* that row, and a merged row takes each of its cells from a visible row.
THEOREM NotNullHoldsAlways ==
  ASSUME RequiredAreSpared
  PROVE  Spec => []NotNullHolds
<1>1. NotNullHolds <=> \A p \in Peers : Filled(peers[p].replica)
  BY DEF NotNullHolds, Filled, RowFilled, Replica, Held
<1>2. NotNullHolds' <=> \A p \in Peers : Filled(peers'[p].replica)
  BY DEF NotNullHolds, Filled, RowFilled, Replica, Held
<1>3. Init => NotNullHolds
  BY DEF Init, NotNullHolds, NewPeer, NewReplica, Replica, LiveRows, Visible
<1>4. IInv /\ NotNullHolds /\ [Next]_vars => NotNullHolds'
  <2>1. SUFFICES ASSUME HostInv(peers, deletes), \A p \in Peers : Filled(peers[p].replica), [Next]_vars
                 PROVE  \A p \in Peers : Filled(peers'[p].replica)
    BY <1>1, <1>2, IInvIsHostInv
  <2>2. CASE Next
    BY <2>1, <2>2, NextKeeps DEF HostKeeps
  <2>3. CASE UNCHANGED vars
    BY <2>1, <2>3 DEF vars
  <2> QED BY <2>1, <2>2, <2>3
<1> QED BY <1>3, <1>4, Invariance, PTL DEF Spec
=============================================================================
