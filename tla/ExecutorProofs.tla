--------------------------- MODULE ExecutorProofs ---------------------------
(***************************************************************************)
(* Lemmas about the statements and passes of one peer: what a fold over a  *)
(* sequence keeps, the registry as the record of the claims a peer has     *)
(* seen, and what the passes may change in a replica.                      *)
(*                                                                         *)
(* A loop of the code is a fold in Executor.  Its induction is done on     *)
(* sets: a fold is a function of the prefixes of its sequence, and the     *)
(* first prefix that leaves a set is a least element of a set of numbers.  *)
(***************************************************************************)
EXTENDS Executor, ReplicaProofs, FiniteSetTheorems, SequenceTheorems

-----------------------------------------------------------------------------
(***************************************************************************)
(* Folds.                                                                  *)
(***************************************************************************)

\* h has a step on A for each index up to n.
IsStep(n, A, base, h) == n \in Nat /\ base \in A /\ h \in [1..n -> [A -> A]]

\* f follows h from base on every set of indices up to n.
IsFold(f, n, base, h) ==
  /\ f[{}] = base
  /\ \A u \in SUBSET (1..n) : u # {} => f[u] = h[Max(u)][f[u \ {Max(u)}]]

HasFold(n, A, base, h) == \E f \in [SUBSET (1..n) -> A] : IsFold(f, n, base, h)

\* f follows h as long as it stays in A.
IsFoldIn(f, n, A, base, h) ==
  /\ IsStep(n, A, base, h)
  /\ f[{}] = base
  /\ \A u \in SUBSET (1..n) :
       u # {} /\ f[u \ {Max(u)}] \in A => f[u] = h[Max(u)][f[u \ {Max(u)}]]

\* h leads from base to last, index by index.
HasChain(n, A, base, h, last) ==
  \E g \in [0..n -> A] : /\ g[0] = base
                         /\ \A i \in 1..n : g[i] = h[i][g[i - 1]]
                         /\ g[n] = last

LEMMA MaxIsLargest ==
  ASSUME NEW u \in SUBSET Nat, NEW m \in u, \A y \in u : y <= m
  PROVE  Max(u) = m
<1>1. \A x \in u : (\A y \in u : x >= y) => x = m
  OBVIOUS
<1>2. \A y \in u : m >= y
  OBVIOUS
<1> QED BY <1>1, <1>2 DEF Max

LEMMA Prefix ==
  ASSUME NEW n \in Nat, n # 0
  PROVE  /\ Max(1..n) = n
         /\ (1..n) \ {n} = 1..(n - 1)
<1>1. 1..n \in SUBSET Nat /\ n \in 1..n /\ \A y \in 1..n : y <= n
  OBVIOUS
<1>2. Max(1..n) = n
  BY <1>1, MaxIsLargest
<1>3. (1..n) \ {n} = 1..(n - 1)
  OBVIOUS
<1> QED BY <1>2, <1>3

\* Induction up to n: the members of a chain stay in a family of sets.
LEMMA ChainStaysIn ==
  ASSUME NEW n \in Nat, NEW g, NEW Inv,
         g[0] \in Inv[0],
         \A i \in 1..n : g[i - 1] \in Inv[i - 1] => g[i] \in Inv[i]
  PROVE  \A i \in 0..n : g[i] \in Inv[i]
<1> DEFINE S == {i \in 0..n : g[i] \notin Inv[i]}
<1>1. SUFFICES ASSUME S # {} PROVE FALSE
  OBVIOUS
<1>2. S \in SUBSET Nat
  OBVIOUS
<1>3. PICK m \in S : \A y \in S : m <= y
  <2>1. Min(S) \in S /\ \A y \in S : Min(S) <= y
    BY <1>1, <1>2, MinIsLeast
  <2> QED BY <2>1
<1>4. m \in 0..n /\ g[m] \notin Inv[m] /\ m # 0
  BY <1>3
<1>5. m \in 1..n /\ m - 1 \in 0..n /\ m - 1 \notin S
  BY <1>2, <1>3, <1>4
<1> QED BY <1>4, <1>5

\* A function defined by recursion on the sets of indices up to n.
LEMMA FoldExists ==
  ASSUME NEW n, NEW A, NEW base, NEW h, IsStep(n, A, base, h)
  PROVE  HasFold(n, A, base, h)
<1> n \in Nat /\ base \in A /\ h \in [1..n -> [A -> A]]
  BY DEF IsStep
<1> DEFINE Folds(m) == {f \in [SUBSET (1..m) -> A] : IsFold(f, m, base, h)}
           S == {m \in 0..n : Folds(m) = {}}
<1>1. SUFFICES ASSUME S # {} PROVE FALSE
  <2>1. ASSUME S = {}
        PROVE  Folds(n) # {}
    <3>1. n \in 0..n
      OBVIOUS
    <3> HIDE DEF Folds
    <3> QED BY <2>1, <3>1
  <2> QED BY <2>1 DEF HasFold
<1>2. S \in SUBSET Nat
  OBVIOUS
<1>3. PICK m \in S : \A y \in S : m <= y
  <2>1. Min(S) \in S /\ \A y \in S : Min(S) <= y
    BY <1>1, <1>2, MinIsLeast
  <2> QED BY <2>1
<1>4. m \in 0..n /\ Folds(m) = {}
  BY <1>3
<1>5. m # 0
  <2>1. SUFFICES ASSUME m = 0 PROVE FALSE
    OBVIOUS
  <2>2. SUBSET (1..m) = {{}}
    BY <2>1
  <2>3. [u \in SUBSET (1..m) |-> base] \in Folds(m)
    BY <2>2 DEF IsFold
  <2> QED BY <1>4, <2>3
<1>6. m - 1 \in 0..n /\ m - 1 \notin S
  <2> HIDE DEF S
  <2> QED BY <1>2, <1>3, <1>4, <1>5
<1>7. PICK f : f \in Folds(m - 1)
  <2> HIDE DEF Folds
  <2> QED BY <1>6
<1>8. /\ f \in [SUBSET (1..(m - 1)) -> A]
      /\ f[{}] = base
      /\ \A u \in SUBSET (1..(m - 1)) :
           u # {} => f[u] = h[Max(u)][f[u \ {Max(u)}]]
  BY <1>7 DEF IsFold
<1> DEFINE g == [u \in SUBSET (1..m) |-> IF m \in u THEN h[m][f[u \ {m}]] ELSE f[u]]
<1>9. \A u \in SUBSET (1..m) : u \ {m} \in SUBSET (1..(m - 1))
  BY <1>4, <1>5
<1>10. \A u \in SUBSET (1..m) : m \notin u => u \in SUBSET (1..(m - 1))
  BY <1>4, <1>5
<1>11. m \in 1..n
  BY <1>4, <1>5
<1> HIDE DEF Folds, S
<1>12. g \in [SUBSET (1..m) -> A]
  BY <1>8, <1>9, <1>10, <1>11
<1>13. g[{}] = base
  BY <1>8
<1>14. ASSUME NEW u \in SUBSET (1..m), u # {}
       PROVE  g[u] = h[Max(u)][g[u \ {Max(u)}]]
  <2>1. CASE m \in u
    <3>1. u \in SUBSET Nat /\ \A y \in u : y <= m
      BY <1>4
    <3>2. Max(u) = m
      BY <2>1, <3>1, MaxIsLargest
    <3>3. g[u \ {m}] = f[u \ {m}]
      OBVIOUS
    <3> QED BY <2>1, <3>2, <3>3
  <2>2. CASE m \notin u
    <3>1. u \in SUBSET (1..(m - 1))
      BY <1>10, <2>2
    <3>2. g[u] = f[u] /\ g[u \ {Max(u)}] = f[u \ {Max(u)}]
      BY <2>2
    <3> QED BY <1>8, <1>14, <3>1, <3>2
  <2> QED BY <2>1, <2>2
<1>15. g \in Folds(m)
  BY <1>12, <1>13, <1>14 DEF Folds, IsFold
<1> QED BY <1>4, <1>15

\* A fold is the last member of the chain of its results on the prefixes.
LEMMA FoldChain ==
  ASSUME NEW f, NEW n, NEW A, NEW base, NEW h, IsFoldIn(f, n, A, base, h)
  PROVE  HasChain(n, A, base, h, f[1..n])
<1> n \in Nat /\ base \in A /\ h \in [1..n -> [A -> A]]
  BY DEF IsFoldIn, IsStep
<1> DEFINE g == [i \in 0..n |-> f[1..i]]
           Inv == [i \in 0..n |-> A]
<1>1. g[0] = base
  <2>1. 1..0 = {}
    OBVIOUS
  <2> QED BY <2>1 DEF IsFoldIn
<1>2. ASSUME NEW i \in 1..n, g[i - 1] \in A
      PROVE  g[i] = h[i][g[i - 1]] /\ g[i] \in A
  <2>1. Max(1..i) = i /\ (1..i) \ {i} = 1..(i - 1)
    BY Prefix
  <2>2. 1..i \in SUBSET (1..n) /\ 1..i # {}
    OBVIOUS
  <2>3. g[i - 1] = f[1..(i - 1)] /\ g[i] = f[1..i]
    OBVIOUS
  <2>4. f[1..i] = h[i][f[1..(i - 1)]]
    BY <1>2, <2>1, <2>2, <2>3 DEF IsFoldIn
  <2> QED BY <1>2, <2>3, <2>4
<1>3. \A i \in 0..n : g[i] \in Inv[i]
  <2>1. \A i \in 0..n : Inv[i] = A
    OBVIOUS
  <2>2. 0 \in 0..n /\ \A i \in 1..n : i \in 0..n /\ i - 1 \in 0..n
    OBVIOUS
  <2> HIDE DEF g, Inv
  <2>3. g[0] \in Inv[0]
    BY <1>1, <2>1, <2>2
  <2>4. \A i \in 1..n : g[i - 1] \in Inv[i - 1] => g[i] \in Inv[i]
    BY <1>2, <2>1, <2>2
  <2> QED BY <2>3, <2>4, ChainStaysIn
<1>4. \A i \in 0..n : g[i] \in A
  BY <1>3
<1>5. g \in [0..n -> A]
  BY <1>4
<1>6. \A i \in 1..n : g[i] = h[i][g[i - 1]]
  <2>1. \A i \in 1..n : i - 1 \in 0..n
    OBVIOUS
  <2> HIDE DEF g
  <2> QED BY <1>2, <1>4, <2>1
<1>7. g[n] = f[1..n]
  OBVIOUS
<1> HIDE DEF g
<1> QED BY <1>1, <1>5, <1>6, <1>7 DEF HasChain

LEMMA MaxOfIndices ==
  ASSUME NEW n \in Nat, NEW u \in SUBSET (1..n), u # {}
  PROVE  Max(u) \in u
<1> DEFINE S == {n - i : i \in u}
<1>1. S \in SUBSET Nat
  OBVIOUS
<1>7. S # {}
  OBVIOUS
<1>2. Min(S) \in S /\ \A y \in S : Min(S) <= y
  <2> HIDE DEF S
  <2> QED BY <1>1, <1>7, MinIsLeast
<1>3. PICK i \in u : Min(S) = n - i
  BY <1>2
<1>4. \A j \in u : n - j \in S
  OBVIOUS
<1>5. \A j \in u : j <= i
  <2> HIDE DEF S
  <2> QED BY <1>2, <1>3, <1>4
<1>6. u \in SUBSET Nat
  OBVIOUS
<1> QED BY <1>5, <1>6, MaxIsLargest

\* Kept takes the elements of its sequence one after the other.
LEMMA KeptChain ==
  ASSUME NEW s, NEW S, NEW E, NEW A, <<>> \in A, s \in Seq(E),
         \A a \in A, i \in 1..Len(s) : AppendIfIn(S, a, s[i]) \in A
  PROVE  \E g \in [0..Len(s) -> A] :
           /\ g[0] = <<>>
           /\ \A i \in 1..Len(s) : g[i] = AppendIfIn(S, g[i - 1], s[i])
           /\ g[Len(s)] = Kept(s, S)
<1> DEFINE n == Len(s)
           h == [i \in 1..n |-> [a \in A |-> AppendIfIn(S, a, s[i])]]
           F == CHOOSE f : f = [u \in SUBSET (DOMAIN s) |->
                                  IF u = {} THEN <<>>
                                  ELSE AppendIfIn(S, f[u \ {Max(u)}], s[Max(u)])]
<1>1. n \in Nat /\ DOMAIN s = 1..n
  OBVIOUS
<1>2. h \in [1..n -> [A -> A]]
  OBVIOUS
<1>3. \A a \in A, i \in 1..n : h[i][a] = AppendIfIn(S, a, s[i])
  OBVIOUS
<1>4. Kept(s, S) = F[1..n]
  BY <1>1 DEF Kept, FoldLeft, MapThenFoldSet
<1> HIDE DEF h, n
<1>5. IsStep(n, A, <<>>, h)
  BY <1>1, <1>2 DEF IsStep
<1>6. PICK f \in [SUBSET (1..n) -> A] : IsFold(f, n, <<>>, h)
  <2>1. HasFold(n, A, <<>>, h)
    BY <1>5, FoldExists
  <2> QED BY <2>1 DEF HasFold
<1>7. ASSUME NEW u \in SUBSET (1..n), u # {}
      PROVE  Max(u) \in 1..n /\ u \ {Max(u)} \in SUBSET (1..n)
  <2>1. Max(u) \in u
    BY <1>1, <1>7, MaxOfIndices
  <2> QED BY <2>1
<1>8. f = [u \in SUBSET (DOMAIN s) |->
             IF u = {} THEN <<>> ELSE AppendIfIn(S, f[u \ {Max(u)}], s[Max(u)])]
  <2>1. f = [u \in SUBSET (1..n) |-> f[u]]
    OBVIOUS
  <2>2. \A u \in SUBSET (1..n) : f[u] = IF u = {} THEN <<>> ELSE AppendIfIn(S, f[u \ {Max(u)}], s[Max(u)])
    BY <1>3, <1>7, <1>6 DEF IsFold
  <2> QED BY <1>1, <2>1, <2>2
<1>9. F = [u \in SUBSET (DOMAIN s) |->
             IF u = {} THEN <<>> ELSE AppendIfIn(S, F[u \ {Max(u)}], s[Max(u)])]
  BY <1>8
<1> HIDE DEF F
<1>10. \A u \in SUBSET (1..n) : F[u] = IF u = {} THEN <<>> ELSE AppendIfIn(S, F[u \ {Max(u)}], s[Max(u)])
  BY <1>1, <1>9
<1>11. IsFoldIn(F, n, A, <<>>, h)
  <2>1. F[{}] = <<>>
    BY <1>10
  <2>2. ASSUME NEW u \in SUBSET (1..n), u # {}, F[u \ {Max(u)}] \in A
        PROVE  F[u] = h[Max(u)][F[u \ {Max(u)}]]
    <3>1. F[u] = AppendIfIn(S, F[u \ {Max(u)}], s[Max(u)])
      BY <1>10, <2>2
    <3>2. h[Max(u)][F[u \ {Max(u)}]] = AppendIfIn(S, F[u \ {Max(u)}], s[Max(u)])
      BY <1>3, <1>7, <2>2
    <3> QED BY <3>1, <3>2
  <2> QED BY <1>5, <2>1, <2>2 DEF IsFoldIn
<1>12. PICK g \in [0..n -> A] : /\ g[0] = <<>>
                                /\ \A i \in 1..n : g[i] = h[i][g[i - 1]]
                                /\ g[n] = F[1..n]
  <2>1. HasChain(n, A, <<>>, h, F[1..n])
    BY <1>11, FoldChain
  <2> QED BY <2>1 DEF HasChain
<1>13. \A i \in 1..n : g[i] = AppendIfIn(S, g[i - 1], s[i])
  <2>1. \A i \in 1..n : g[i - 1] \in A
    BY <1>1
  <2> QED BY <1>3, <1>12, <2>1
<1> QED BY <1>4, <1>12, <1>13 DEF n

\* AddAll adds its losers one after the other.
LEMMA AddAllChain ==
  ASSUME NEW losers, NEW new, NEW E, NEW A, losers \in A, new \in Seq(E),
         \A a \in A, i \in 1..Len(new) : AddIfNew(a, new[i]) \in A
  PROVE  \E g \in [0..Len(new) -> A] :
           /\ g[0] = losers
           /\ \A i \in 1..Len(new) : g[i] = AddIfNew(g[i - 1], new[i])
           /\ g[Len(new)] = AddAll(losers, new)
<1> DEFINE n == Len(new)
           h == [i \in 1..n |-> [a \in A |-> AddIfNew(a, new[i])]]
           F == CHOOSE f : f = [u \in SUBSET (DOMAIN new) |->
                                  IF u = {} THEN losers
                                  ELSE AddIfNew(f[u \ {Max(u)}], new[Max(u)])]
<1>1. n \in Nat /\ DOMAIN new = 1..n
  OBVIOUS
<1>2. h \in [1..n -> [A -> A]]
  OBVIOUS
<1>3. \A a \in A, i \in 1..n : h[i][a] = AddIfNew(a, new[i])
  OBVIOUS
<1>4. AddAll(losers, new) = F[1..n]
  BY <1>1 DEF AddAll, FoldLeft, MapThenFoldSet
<1> HIDE DEF h, n
<1>5. IsStep(n, A, losers, h)
  BY <1>1, <1>2 DEF IsStep
<1>6. PICK f \in [SUBSET (1..n) -> A] : IsFold(f, n, losers, h)
  <2>1. HasFold(n, A, losers, h)
    BY <1>5, FoldExists
  <2> QED BY <2>1 DEF HasFold
<1>7. ASSUME NEW u \in SUBSET (1..n), u # {}
      PROVE  Max(u) \in 1..n /\ u \ {Max(u)} \in SUBSET (1..n)
  <2>1. Max(u) \in u
    BY <1>1, <1>7, MaxOfIndices
  <2> QED BY <2>1
<1>8. f = [u \in SUBSET (DOMAIN new) |->
             IF u = {} THEN losers ELSE AddIfNew(f[u \ {Max(u)}], new[Max(u)])]
  <2>1. f = [u \in SUBSET (1..n) |-> f[u]]
    OBVIOUS
  <2>2. \A u \in SUBSET (1..n) : f[u] = IF u = {} THEN losers ELSE AddIfNew(f[u \ {Max(u)}], new[Max(u)])
    BY <1>3, <1>7, <1>6 DEF IsFold
  <2> QED BY <1>1, <2>1, <2>2
<1>9. F = [u \in SUBSET (DOMAIN new) |->
             IF u = {} THEN losers ELSE AddIfNew(F[u \ {Max(u)}], new[Max(u)])]
  BY <1>8
<1> HIDE DEF F
<1>10. \A u \in SUBSET (1..n) : F[u] = IF u = {} THEN losers ELSE AddIfNew(F[u \ {Max(u)}], new[Max(u)])
  BY <1>1, <1>9
<1>11. IsFoldIn(F, n, A, losers, h)
  <2>1. F[{}] = losers
    BY <1>10
  <2>2. ASSUME NEW u \in SUBSET (1..n), u # {}, F[u \ {Max(u)}] \in A
        PROVE  F[u] = h[Max(u)][F[u \ {Max(u)}]]
    <3>1. F[u] = AddIfNew(F[u \ {Max(u)}], new[Max(u)])
      BY <1>10, <2>2
    <3>2. h[Max(u)][F[u \ {Max(u)}]] = AddIfNew(F[u \ {Max(u)}], new[Max(u)])
      BY <1>3, <1>7, <2>2
    <3> QED BY <3>1, <3>2
  <2> QED BY <1>5, <2>1, <2>2 DEF IsFoldIn
<1>12. PICK g \in [0..n -> A] : /\ g[0] = losers
                                /\ \A i \in 1..n : g[i] = h[i][g[i - 1]]
                                /\ g[n] = F[1..n]
  <2>1. HasChain(n, A, losers, h, F[1..n])
    BY <1>11, FoldChain
  <2> QED BY <2>1 DEF HasChain
<1>13. \A i \in 1..n : g[i] = AddIfNew(g[i - 1], new[i])
  <2>1. \A i \in 1..n : g[i - 1] \in A
    BY <1>1
  <2> QED BY <1>3, <1>12, <2>1
<1> QED BY <1>4, <1>12, <1>13 DEF n

\* The losers of a delta claim one after the other.
LEMMA ReclaimedChain ==
  ASSUME NEW c, NEW losers, NEW E, NEW A, c \in A, losers \in Seq(E),
         \A a \in A, i \in 1..Len(losers) : claim(a, losers[i].row, losers[i].version) \in A
  PROVE  \E g \in [0..Len(losers) -> A] :
           /\ g[0] = c
           /\ \A i \in 1..Len(losers) : g[i] = claim(g[i - 1], losers[i].row, losers[i].version)
           /\ g[Len(losers)] = Reclaimed(c, losers)
<1> DEFINE n == Len(losers)
           h == [i \in 1..n |-> [a \in A |-> claim(a, losers[i].row, losers[i].version)]]
           F == CHOOSE f : f = [u \in SUBSET (DOMAIN losers) |->
                                  IF u = {} THEN c
                                  ELSE claim(f[u \ {Max(u)}], losers[Max(u)].row, losers[Max(u)].version)]
<1>1. n \in Nat /\ DOMAIN losers = 1..n
  OBVIOUS
<1>2. h \in [1..n -> [A -> A]]
  OBVIOUS
<1>3. \A a \in A, i \in 1..n : h[i][a] = claim(a, losers[i].row, losers[i].version)
  OBVIOUS
<1>4. Reclaimed(c, losers) = F[1..n]
  BY <1>1 DEF Reclaimed, FoldLeft, MapThenFoldSet
<1> HIDE DEF h, n
<1>5. IsStep(n, A, c, h)
  BY <1>1, <1>2 DEF IsStep
<1>6. PICK f \in [SUBSET (1..n) -> A] : IsFold(f, n, c, h)
  <2>1. HasFold(n, A, c, h)
    BY <1>5, FoldExists
  <2> QED BY <2>1 DEF HasFold
<1>7. ASSUME NEW u \in SUBSET (1..n), u # {}
      PROVE  Max(u) \in 1..n /\ u \ {Max(u)} \in SUBSET (1..n)
  <2>1. Max(u) \in u
    BY <1>1, <1>7, MaxOfIndices
  <2> QED BY <2>1
<1>8. f = [u \in SUBSET (DOMAIN losers) |->
             IF u = {} THEN c ELSE claim(f[u \ {Max(u)}], losers[Max(u)].row, losers[Max(u)].version)]
  <2>1. f = [u \in SUBSET (1..n) |-> f[u]]
    OBVIOUS
  <2>2. \A u \in SUBSET (1..n) : f[u] = IF u = {} THEN c ELSE claim(f[u \ {Max(u)}], losers[Max(u)].row, losers[Max(u)].version)
    BY <1>3, <1>7, <1>6 DEF IsFold
  <2> QED BY <1>1, <2>1, <2>2
<1>9. F = [u \in SUBSET (DOMAIN losers) |->
             IF u = {} THEN c ELSE claim(F[u \ {Max(u)}], losers[Max(u)].row, losers[Max(u)].version)]
  BY <1>8
<1> HIDE DEF F
<1>10. \A u \in SUBSET (1..n) : F[u] = IF u = {} THEN c ELSE claim(F[u \ {Max(u)}], losers[Max(u)].row, losers[Max(u)].version)
  BY <1>1, <1>9
<1>11. IsFoldIn(F, n, A, c, h)
  <2>1. F[{}] = c
    BY <1>10
  <2>2. ASSUME NEW u \in SUBSET (1..n), u # {}, F[u \ {Max(u)}] \in A
        PROVE  F[u] = h[Max(u)][F[u \ {Max(u)}]]
    <3>1. F[u] = claim(F[u \ {Max(u)}], losers[Max(u)].row, losers[Max(u)].version)
      BY <1>10, <2>2
    <3>2. h[Max(u)][F[u \ {Max(u)}]] = claim(F[u \ {Max(u)}], losers[Max(u)].row, losers[Max(u)].version)
      BY <1>3, <1>7, <2>2
    <3> QED BY <3>1, <3>2
  <2> QED BY <1>5, <2>1, <2>2 DEF IsFoldIn
<1>12. PICK g \in [0..n -> A] : /\ g[0] = c
                                /\ \A i \in 1..n : g[i] = h[i][g[i - 1]]
                                /\ g[n] = F[1..n]
  <2>1. HasChain(n, A, c, h, F[1..n])
    BY <1>11, FoldChain
  <2> QED BY <2>1 DEF HasChain
<1>13. \A i \in 1..n : g[i] = claim(g[i - 1], losers[i].row, losers[i].version)
  <2>1. \A i \in 1..n : g[i - 1] \in A
    BY <1>1
  <2> QED BY <1>3, <1>12, <2>1
<1> QED BY <1>4, <1>12, <1>13 DEF n

\* exec_insert writes the rows of its batch one after the other.
LEMMA InsertChain ==
  ASSUME NEW s, NEW p, NEW batch, NEW E, NEW A, s \in A, batch \in Seq(E),
         \A a \in A, i \in 1..Len(batch) : Inserted(a, p, batch[i]) \in A
  PROVE  \E g \in [0..Len(batch) -> A] :
           /\ g[0] = s
           /\ \A i \in 1..Len(batch) : g[i] = Inserted(g[i - 1], p, batch[i])
           /\ g[Len(batch)] = exec_insert(s, p, batch)
<1> DEFINE n == Len(batch)
           h == [i \in 1..n |-> [a \in A |-> Inserted(a, p, batch[i])]]
           F == CHOOSE f : f = [u \in SUBSET (DOMAIN batch) |->
                                  IF u = {} THEN s
                                  ELSE Inserted(f[u \ {Max(u)}], p, batch[Max(u)])]
<1>1. n \in Nat /\ DOMAIN batch = 1..n
  OBVIOUS
<1>2. h \in [1..n -> [A -> A]]
  OBVIOUS
<1>3. \A a \in A, i \in 1..n : h[i][a] = Inserted(a, p, batch[i])
  OBVIOUS
<1>4. exec_insert(s, p, batch) = F[1..n]
  BY <1>1 DEF exec_insert, FoldLeft, MapThenFoldSet
<1> HIDE DEF h, n
<1>5. IsStep(n, A, s, h)
  BY <1>1, <1>2 DEF IsStep
<1>6. PICK f \in [SUBSET (1..n) -> A] : IsFold(f, n, s, h)
  <2>1. HasFold(n, A, s, h)
    BY <1>5, FoldExists
  <2> QED BY <2>1 DEF HasFold
<1>7. ASSUME NEW u \in SUBSET (1..n), u # {}
      PROVE  Max(u) \in 1..n /\ u \ {Max(u)} \in SUBSET (1..n)
  <2>1. Max(u) \in u
    BY <1>1, <1>7, MaxOfIndices
  <2> QED BY <2>1
<1>8. f = [u \in SUBSET (DOMAIN batch) |->
             IF u = {} THEN s ELSE Inserted(f[u \ {Max(u)}], p, batch[Max(u)])]
  <2>1. f = [u \in SUBSET (1..n) |-> f[u]]
    OBVIOUS
  <2>2. \A u \in SUBSET (1..n) : f[u] = IF u = {} THEN s ELSE Inserted(f[u \ {Max(u)}], p, batch[Max(u)])
    BY <1>3, <1>7, <1>6 DEF IsFold
  <2> QED BY <1>1, <2>1, <2>2
<1>9. F = [u \in SUBSET (DOMAIN batch) |->
             IF u = {} THEN s ELSE Inserted(F[u \ {Max(u)}], p, batch[Max(u)])]
  BY <1>8
<1> HIDE DEF F
<1>10. \A u \in SUBSET (1..n) : F[u] = IF u = {} THEN s ELSE Inserted(F[u \ {Max(u)}], p, batch[Max(u)])
  BY <1>1, <1>9
<1>11. IsFoldIn(F, n, A, s, h)
  <2>1. F[{}] = s
    BY <1>10
  <2>2. ASSUME NEW u \in SUBSET (1..n), u # {}, F[u \ {Max(u)}] \in A
        PROVE  F[u] = h[Max(u)][F[u \ {Max(u)}]]
    <3>1. F[u] = Inserted(F[u \ {Max(u)}], p, batch[Max(u)])
      BY <1>10, <2>2
    <3>2. h[Max(u)][F[u \ {Max(u)}]] = Inserted(F[u \ {Max(u)}], p, batch[Max(u)])
      BY <1>3, <1>7, <2>2
    <3> QED BY <3>1, <3>2
  <2> QED BY <1>5, <2>1, <2>2 DEF IsFoldIn
<1>12. PICK g \in [0..n -> A] : /\ g[0] = s
                                /\ \A i \in 1..n : g[i] = h[i][g[i - 1]]
                                /\ g[n] = F[1..n]
  <2>1. HasChain(n, A, s, h, F[1..n])
    BY <1>11, FoldChain
  <2> QED BY <2>1 DEF HasChain
<1>13. \A i \in 1..n : g[i] = Inserted(g[i - 1], p, batch[i])
  <2>1. \A i \in 1..n : g[i - 1] \in A
    BY <1>1
  <2> QED BY <1>3, <1>12, <2>1
<1> QED BY <1>4, <1>12, <1>13 DEF n

\* exec_update writes the rows before the first failure one after the other.
LEMMA UpdateChain ==
  ASSUME NEW s, NEW p, NEW S, NEW assign, NEW rows, NEW E,
         rows = BeforeFailure(s, assign, InRowOrder(S)), NEW A, s \in A, rows \in Seq(E),
         \A a \in A, i \in 1..Len(rows) : Updated(a, p, rows[i], assign) \in A
  PROVE  \E g \in [0..Len(rows) -> A] :
           /\ g[0] = s
           /\ \A i \in 1..Len(rows) : g[i] = Updated(g[i - 1], p, rows[i], assign)
           /\ g[Len(rows)] = exec_update(s, p, S, assign)
<1> DEFINE n == Len(rows)
           h == [i \in 1..n |-> [a \in A |-> Updated(a, p, rows[i], assign)]]
           F == CHOOSE f : f = [u \in SUBSET (DOMAIN rows) |->
                                  IF u = {} THEN s
                                  ELSE Updated(f[u \ {Max(u)}], p, rows[Max(u)], assign)]
<1>1. n \in Nat /\ DOMAIN rows = 1..n
  OBVIOUS
<1>2. h \in [1..n -> [A -> A]]
  OBVIOUS
<1>3. \A a \in A, i \in 1..n : h[i][a] = Updated(a, p, rows[i], assign)
  OBVIOUS
<1>4. exec_update(s, p, S, assign) = F[1..n]
  BY <1>1 DEF exec_update, FoldLeft, MapThenFoldSet
<1> HIDE DEF h, n
<1>5. IsStep(n, A, s, h)
  BY <1>1, <1>2 DEF IsStep
<1>6. PICK f \in [SUBSET (1..n) -> A] : IsFold(f, n, s, h)
  <2>1. HasFold(n, A, s, h)
    BY <1>5, FoldExists
  <2> QED BY <2>1 DEF HasFold
<1>7. ASSUME NEW u \in SUBSET (1..n), u # {}
      PROVE  Max(u) \in 1..n /\ u \ {Max(u)} \in SUBSET (1..n)
  <2>1. Max(u) \in u
    BY <1>1, <1>7, MaxOfIndices
  <2> QED BY <2>1
<1>8. f = [u \in SUBSET (DOMAIN rows) |->
             IF u = {} THEN s ELSE Updated(f[u \ {Max(u)}], p, rows[Max(u)], assign)]
  <2>1. f = [u \in SUBSET (1..n) |-> f[u]]
    OBVIOUS
  <2>2. \A u \in SUBSET (1..n) : f[u] = IF u = {} THEN s ELSE Updated(f[u \ {Max(u)}], p, rows[Max(u)], assign)
    BY <1>3, <1>7, <1>6 DEF IsFold
  <2> QED BY <1>1, <2>1, <2>2
<1>9. F = [u \in SUBSET (DOMAIN rows) |->
             IF u = {} THEN s ELSE Updated(F[u \ {Max(u)}], p, rows[Max(u)], assign)]
  BY <1>8
<1> HIDE DEF F
<1>10. \A u \in SUBSET (1..n) : F[u] = IF u = {} THEN s ELSE Updated(F[u \ {Max(u)}], p, rows[Max(u)], assign)
  BY <1>1, <1>9
<1>11. IsFoldIn(F, n, A, s, h)
  <2>1. F[{}] = s
    BY <1>10
  <2>2. ASSUME NEW u \in SUBSET (1..n), u # {}, F[u \ {Max(u)}] \in A
        PROVE  F[u] = h[Max(u)][F[u \ {Max(u)}]]
    <3>1. F[u] = Updated(F[u \ {Max(u)}], p, rows[Max(u)], assign)
      BY <1>10, <2>2
    <3>2. h[Max(u)][F[u \ {Max(u)}]] = Updated(F[u \ {Max(u)}], p, rows[Max(u)], assign)
      BY <1>3, <1>7, <2>2
    <3> QED BY <3>1, <3>2
  <2> QED BY <1>5, <2>1, <2>2 DEF IsFoldIn
<1>12. PICK g \in [0..n -> A] : /\ g[0] = s
                                /\ \A i \in 1..n : g[i] = h[i][g[i - 1]]
                                /\ g[n] = F[1..n]
  <2>1. HasChain(n, A, s, h, F[1..n])
    BY <1>11, FoldChain
  <2> QED BY <2>1 DEF HasChain
<1>13. \A i \in 1..n : g[i] = Updated(g[i - 1], p, rows[i], assign)
  <2>1. \A i \in 1..n : g[i - 1] \in A
    BY <1>1
  <2> QED BY <1>3, <1>12, <2>1
<1> QED BY <1>4, <1>12, <1>13 DEF n

\* exec_delete deletes its rows one after the other.
LEMMA DeleteChain ==
  ASSUME NEW s, NEW p, NEW S, NEW rows, NEW E, rows = InRowOrder(S), NEW A, s \in A, rows \in Seq(E),
         \A a \in A, i \in 1..Len(rows) : DeletedAt(a, p, rows[i]) \in A
  PROVE  \E g \in [0..Len(rows) -> A] :
           /\ g[0] = s
           /\ \A i \in 1..Len(rows) : g[i] = DeletedAt(g[i - 1], p, rows[i])
           /\ g[Len(rows)] = RowsDeleted(s, p, S)
<1> DEFINE n == Len(rows)
           h == [i \in 1..n |-> [a \in A |-> DeletedAt(a, p, rows[i])]]
           F == CHOOSE f : f = [u \in SUBSET (DOMAIN rows) |->
                                  IF u = {} THEN s
                                  ELSE DeletedAt(f[u \ {Max(u)}], p, rows[Max(u)])]
<1>1. n \in Nat /\ DOMAIN rows = 1..n
  OBVIOUS
<1>2. h \in [1..n -> [A -> A]]
  OBVIOUS
<1>3. \A a \in A, i \in 1..n : h[i][a] = DeletedAt(a, p, rows[i])
  OBVIOUS
<1>4. RowsDeleted(s, p, S) = F[1..n]
  BY <1>1 DEF RowsDeleted, FoldLeft, MapThenFoldSet
<1> HIDE DEF h, n
<1>5. IsStep(n, A, s, h)
  BY <1>1, <1>2 DEF IsStep
<1>6. PICK f \in [SUBSET (1..n) -> A] : IsFold(f, n, s, h)
  <2>1. HasFold(n, A, s, h)
    BY <1>5, FoldExists
  <2> QED BY <2>1 DEF HasFold
<1>7. ASSUME NEW u \in SUBSET (1..n), u # {}
      PROVE  Max(u) \in 1..n /\ u \ {Max(u)} \in SUBSET (1..n)
  <2>1. Max(u) \in u
    BY <1>1, <1>7, MaxOfIndices
  <2> QED BY <2>1
<1>8. f = [u \in SUBSET (DOMAIN rows) |->
             IF u = {} THEN s ELSE DeletedAt(f[u \ {Max(u)}], p, rows[Max(u)])]
  <2>1. f = [u \in SUBSET (1..n) |-> f[u]]
    OBVIOUS
  <2>2. \A u \in SUBSET (1..n) : f[u] = IF u = {} THEN s ELSE DeletedAt(f[u \ {Max(u)}], p, rows[Max(u)])
    BY <1>3, <1>7, <1>6 DEF IsFold
  <2> QED BY <1>1, <2>1, <2>2
<1>9. F = [u \in SUBSET (DOMAIN rows) |->
             IF u = {} THEN s ELSE DeletedAt(F[u \ {Max(u)}], p, rows[Max(u)])]
  BY <1>8
<1> HIDE DEF F
<1>10. \A u \in SUBSET (1..n) : F[u] = IF u = {} THEN s ELSE DeletedAt(F[u \ {Max(u)}], p, rows[Max(u)])
  BY <1>1, <1>9
<1>11. IsFoldIn(F, n, A, s, h)
  <2>1. F[{}] = s
    BY <1>10
  <2>2. ASSUME NEW u \in SUBSET (1..n), u # {}, F[u \ {Max(u)}] \in A
        PROVE  F[u] = h[Max(u)][F[u \ {Max(u)}]]
    <3>1. F[u] = DeletedAt(F[u \ {Max(u)}], p, rows[Max(u)])
      BY <1>10, <2>2
    <3>2. h[Max(u)][F[u \ {Max(u)}]] = DeletedAt(F[u \ {Max(u)}], p, rows[Max(u)])
      BY <1>3, <1>7, <2>2
    <3> QED BY <3>1, <3>2
  <2> QED BY <1>5, <2>1, <2>2 DEF IsFoldIn
<1>12. PICK g \in [0..n -> A] : /\ g[0] = s
                                /\ \A i \in 1..n : g[i] = h[i][g[i - 1]]
                                /\ g[n] = F[1..n]
  <2>1. HasChain(n, A, s, h, F[1..n])
    BY <1>11, FoldChain
  <2> QED BY <2>1 DEF HasChain
<1>13. \A i \in 1..n : g[i] = DeletedAt(g[i - 1], p, rows[i])
  <2>1. \A i \in 1..n : g[i - 1] \in A
    BY <1>1
  <2> QED BY <1>3, <1>12, <2>1
<1> QED BY <1>4, <1>12, <1>13 DEF n

\* The losers of a claim are enforced one after the other.
LEMMA EnforceClaimChain ==
  ASSUME NEW r, NEW p, NEW x, NEW c, NEW losers, NEW E, losers = c.losers, NEW A, r \in A, losers \in Seq(E),
         \A a \in A, i \in 1..Len(losers) : EnforceLoser(a, p, x, c, losers[i].row) \in A
  PROVE  \E g \in [0..Len(losers) -> A] :
           /\ g[0] = r
           /\ \A i \in 1..Len(losers) : g[i] = EnforceLoser(g[i - 1], p, x, c, losers[i].row)
           /\ g[Len(losers)] = EnforceClaim(r, p, x, c)
<1> DEFINE n == Len(losers)
           h == [i \in 1..n |-> [a \in A |-> EnforceLoser(a, p, x, c, losers[i].row)]]
           F == CHOOSE f : f = [u \in SUBSET (DOMAIN losers) |->
                                  IF u = {} THEN r
                                  ELSE EnforceLoser(f[u \ {Max(u)}], p, x, c, losers[Max(u)].row)]
<1>1. n \in Nat /\ DOMAIN losers = 1..n
  OBVIOUS
<1>2. h \in [1..n -> [A -> A]]
  OBVIOUS
<1>3. \A a \in A, i \in 1..n : h[i][a] = EnforceLoser(a, p, x, c, losers[i].row)
  OBVIOUS
<1>4. EnforceClaim(r, p, x, c) = F[1..n]
  BY <1>1 DEF EnforceClaim, FoldLeft, MapThenFoldSet
<1> HIDE DEF h, n
<1>5. IsStep(n, A, r, h)
  BY <1>1, <1>2 DEF IsStep
<1>6. PICK f \in [SUBSET (1..n) -> A] : IsFold(f, n, r, h)
  <2>1. HasFold(n, A, r, h)
    BY <1>5, FoldExists
  <2> QED BY <2>1 DEF HasFold
<1>7. ASSUME NEW u \in SUBSET (1..n), u # {}
      PROVE  Max(u) \in 1..n /\ u \ {Max(u)} \in SUBSET (1..n)
  <2>1. Max(u) \in u
    BY <1>1, <1>7, MaxOfIndices
  <2> QED BY <2>1
<1>8. f = [u \in SUBSET (DOMAIN losers) |->
             IF u = {} THEN r ELSE EnforceLoser(f[u \ {Max(u)}], p, x, c, losers[Max(u)].row)]
  <2>1. f = [u \in SUBSET (1..n) |-> f[u]]
    OBVIOUS
  <2>2. \A u \in SUBSET (1..n) : f[u] = IF u = {} THEN r ELSE EnforceLoser(f[u \ {Max(u)}], p, x, c, losers[Max(u)].row)
    BY <1>3, <1>7, <1>6 DEF IsFold
  <2> QED BY <1>1, <2>1, <2>2
<1>9. F = [u \in SUBSET (DOMAIN losers) |->
             IF u = {} THEN r ELSE EnforceLoser(F[u \ {Max(u)}], p, x, c, losers[Max(u)].row)]
  BY <1>8
<1> HIDE DEF F
<1>10. \A u \in SUBSET (1..n) : F[u] = IF u = {} THEN r ELSE EnforceLoser(F[u \ {Max(u)}], p, x, c, losers[Max(u)].row)
  BY <1>1, <1>9
<1>11. IsFoldIn(F, n, A, r, h)
  <2>1. F[{}] = r
    BY <1>10
  <2>2. ASSUME NEW u \in SUBSET (1..n), u # {}, F[u \ {Max(u)}] \in A
        PROVE  F[u] = h[Max(u)][F[u \ {Max(u)}]]
    <3>1. F[u] = EnforceLoser(F[u \ {Max(u)}], p, x, c, losers[Max(u)].row)
      BY <1>10, <2>2
    <3>2. h[Max(u)][F[u \ {Max(u)}]] = EnforceLoser(F[u \ {Max(u)}], p, x, c, losers[Max(u)].row)
      BY <1>3, <1>7, <2>2
    <3> QED BY <3>1, <3>2
  <2> QED BY <1>5, <2>1, <2>2 DEF IsFoldIn
<1>12. PICK g \in [0..n -> A] : /\ g[0] = r
                                /\ \A i \in 1..n : g[i] = h[i][g[i - 1]]
                                /\ g[n] = F[1..n]
  <2>1. HasChain(n, A, r, h, F[1..n])
    BY <1>11, FoldChain
  <2> QED BY <2>1 DEF HasChain
<1>13. \A i \in 1..n : g[i] = EnforceLoser(g[i - 1], p, x, c, losers[i].row)
  <2>1. \A i \in 1..n : g[i - 1] \in A
    BY <1>1
  <2> QED BY <1>3, <1>12, <2>1
<1> QED BY <1>4, <1>12, <1>13 DEF n

\* The claims of the registry are enforced one after the other.
LEMMA EnforceChain ==
  ASSUME NEW r, NEW p, NEW registry, NEW order, NEW E, order = SetToSeq(ClaimKeys), NEW A, r \in A, order \in Seq(E),
         \A a \in A, i \in 1..Len(order) : EnforceClaim(a, p, order[i], registry[order[i]]) \in A
  PROVE  \E g \in [0..Len(order) -> A] :
           /\ g[0] = r
           /\ \A i \in 1..Len(order) : g[i] = EnforceClaim(g[i - 1], p, order[i], registry[order[i]])
           /\ g[Len(order)] = enforce_uniqueness_tombstones(r, p, registry)
<1> DEFINE n == Len(order)
           h == [i \in 1..n |-> [a \in A |-> EnforceClaim(a, p, order[i], registry[order[i]])]]
           F == CHOOSE f : f = [u \in SUBSET (DOMAIN order) |->
                                  IF u = {} THEN r
                                  ELSE EnforceClaim(f[u \ {Max(u)}], p, order[Max(u)], registry[order[Max(u)]])]
<1>1. n \in Nat /\ DOMAIN order = 1..n
  OBVIOUS
<1>2. h \in [1..n -> [A -> A]]
  OBVIOUS
<1>3. \A a \in A, i \in 1..n : h[i][a] = EnforceClaim(a, p, order[i], registry[order[i]])
  OBVIOUS
<1>4. enforce_uniqueness_tombstones(r, p, registry) = F[1..n]
  BY <1>1 DEF enforce_uniqueness_tombstones, FoldLeft, MapThenFoldSet
<1> HIDE DEF h, n
<1>5. IsStep(n, A, r, h)
  BY <1>1, <1>2 DEF IsStep
<1>6. PICK f \in [SUBSET (1..n) -> A] : IsFold(f, n, r, h)
  <2>1. HasFold(n, A, r, h)
    BY <1>5, FoldExists
  <2> QED BY <2>1 DEF HasFold
<1>7. ASSUME NEW u \in SUBSET (1..n), u # {}
      PROVE  Max(u) \in 1..n /\ u \ {Max(u)} \in SUBSET (1..n)
  <2>1. Max(u) \in u
    BY <1>1, <1>7, MaxOfIndices
  <2> QED BY <2>1
<1>8. f = [u \in SUBSET (DOMAIN order) |->
             IF u = {} THEN r ELSE EnforceClaim(f[u \ {Max(u)}], p, order[Max(u)], registry[order[Max(u)]])]
  <2>1. f = [u \in SUBSET (1..n) |-> f[u]]
    OBVIOUS
  <2>2. \A u \in SUBSET (1..n) : f[u] = IF u = {} THEN r ELSE EnforceClaim(f[u \ {Max(u)}], p, order[Max(u)], registry[order[Max(u)]])
    BY <1>3, <1>7, <1>6 DEF IsFold
  <2> QED BY <1>1, <2>1, <2>2
<1>9. F = [u \in SUBSET (DOMAIN order) |->
             IF u = {} THEN r ELSE EnforceClaim(F[u \ {Max(u)}], p, order[Max(u)], registry[order[Max(u)]])]
  BY <1>8
<1> HIDE DEF F
<1>10. \A u \in SUBSET (1..n) : F[u] = IF u = {} THEN r ELSE EnforceClaim(F[u \ {Max(u)}], p, order[Max(u)], registry[order[Max(u)]])
  BY <1>1, <1>9
<1>11. IsFoldIn(F, n, A, r, h)
  <2>1. F[{}] = r
    BY <1>10
  <2>2. ASSUME NEW u \in SUBSET (1..n), u # {}, F[u \ {Max(u)}] \in A
        PROVE  F[u] = h[Max(u)][F[u \ {Max(u)}]]
    <3>1. F[u] = EnforceClaim(F[u \ {Max(u)}], p, order[Max(u)], registry[order[Max(u)]])
      BY <1>10, <2>2
    <3>2. h[Max(u)][F[u \ {Max(u)}]] = EnforceClaim(F[u \ {Max(u)}], p, order[Max(u)], registry[order[Max(u)]])
      BY <1>3, <1>7, <2>2
    <3> QED BY <3>1, <3>2
  <2> QED BY <1>5, <2>1, <2>2 DEF IsFoldIn
<1>12. PICK g \in [0..n -> A] : /\ g[0] = r
                                /\ \A i \in 1..n : g[i] = h[i][g[i - 1]]
                                /\ g[n] = F[1..n]
  <2>1. HasChain(n, A, r, h, F[1..n])
    BY <1>11, FoldChain
  <2> QED BY <2>1 DEF HasChain
<1>13. \A i \in 1..n : g[i] = EnforceClaim(g[i - 1], p, order[i], registry[order[i]])
  <2>1. \A i \in 1..n : g[i - 1] \in A
    BY <1>1
  <2> QED BY <1>3, <1>12, <2>1
<1> QED BY <1>4, <1>12, <1>13 DEF n

\* The foreign keys to a table are followed one after the other.
LEMMA CascadeDeadChain ==
  ASSUME NEW r, NEW p, NEW t, NEW dead, NEW fks, NEW E, fks = ForeignKeysTo(t), NEW A, r \in A, fks \in Seq(E),
         \A a \in A, i \in 1..Len(fks) : ApplyPolicy(a, p, fks[i], Affected(a, dead, fks[i])) \in A
  PROVE  \E g \in [0..Len(fks) -> A] :
           /\ g[0] = r
           /\ \A i \in 1..Len(fks) : g[i] = ApplyPolicy(g[i - 1], p, fks[i], Affected(g[i - 1], dead, fks[i]))
           /\ g[Len(fks)] = CascadeDead(r, p, t, dead)
<1> DEFINE n == Len(fks)
           h == [i \in 1..n |-> [a \in A |-> ApplyPolicy(a, p, fks[i], Affected(a, dead, fks[i]))]]
           F == CHOOSE f : f = [u \in SUBSET (DOMAIN fks) |->
                                  IF u = {} THEN r
                                  ELSE ApplyPolicy(f[u \ {Max(u)}], p, fks[Max(u)], Affected(f[u \ {Max(u)}], dead, fks[Max(u)]))]
<1>1. n \in Nat /\ DOMAIN fks = 1..n
  OBVIOUS
<1>2. h \in [1..n -> [A -> A]]
  OBVIOUS
<1>3. \A a \in A, i \in 1..n : h[i][a] = ApplyPolicy(a, p, fks[i], Affected(a, dead, fks[i]))
  OBVIOUS
<1>4. CascadeDead(r, p, t, dead) = F[1..n]
  BY <1>1 DEF CascadeDead, FoldLeft, MapThenFoldSet
<1> HIDE DEF h, n
<1>5. IsStep(n, A, r, h)
  BY <1>1, <1>2 DEF IsStep
<1>6. PICK f \in [SUBSET (1..n) -> A] : IsFold(f, n, r, h)
  <2>1. HasFold(n, A, r, h)
    BY <1>5, FoldExists
  <2> QED BY <2>1 DEF HasFold
<1>7. ASSUME NEW u \in SUBSET (1..n), u # {}
      PROVE  Max(u) \in 1..n /\ u \ {Max(u)} \in SUBSET (1..n)
  <2>1. Max(u) \in u
    BY <1>1, <1>7, MaxOfIndices
  <2> QED BY <2>1
<1>8. f = [u \in SUBSET (DOMAIN fks) |->
             IF u = {} THEN r ELSE ApplyPolicy(f[u \ {Max(u)}], p, fks[Max(u)], Affected(f[u \ {Max(u)}], dead, fks[Max(u)]))]
  <2>1. f = [u \in SUBSET (1..n) |-> f[u]]
    OBVIOUS
  <2>2. \A u \in SUBSET (1..n) : f[u] = IF u = {} THEN r ELSE ApplyPolicy(f[u \ {Max(u)}], p, fks[Max(u)], Affected(f[u \ {Max(u)}], dead, fks[Max(u)]))
    BY <1>3, <1>7, <1>6 DEF IsFold
  <2> QED BY <1>1, <2>1, <2>2
<1>9. F = [u \in SUBSET (DOMAIN fks) |->
             IF u = {} THEN r ELSE ApplyPolicy(F[u \ {Max(u)}], p, fks[Max(u)], Affected(F[u \ {Max(u)}], dead, fks[Max(u)]))]
  BY <1>8
<1> HIDE DEF F
<1>10. \A u \in SUBSET (1..n) : F[u] = IF u = {} THEN r ELSE ApplyPolicy(F[u \ {Max(u)}], p, fks[Max(u)], Affected(F[u \ {Max(u)}], dead, fks[Max(u)]))
  BY <1>1, <1>9
<1>11. IsFoldIn(F, n, A, r, h)
  <2>1. F[{}] = r
    BY <1>10
  <2>2. ASSUME NEW u \in SUBSET (1..n), u # {}, F[u \ {Max(u)}] \in A
        PROVE  F[u] = h[Max(u)][F[u \ {Max(u)}]]
    <3>1. F[u] = ApplyPolicy(F[u \ {Max(u)}], p, fks[Max(u)], Affected(F[u \ {Max(u)}], dead, fks[Max(u)]))
      BY <1>10, <2>2
    <3>2. h[Max(u)][F[u \ {Max(u)}]] = ApplyPolicy(F[u \ {Max(u)}], p, fks[Max(u)], Affected(F[u \ {Max(u)}], dead, fks[Max(u)]))
      BY <1>3, <1>7, <2>2
    <3> QED BY <3>1, <3>2
  <2> QED BY <1>5, <2>1, <2>2 DEF IsFoldIn
<1>12. PICK g \in [0..n -> A] : /\ g[0] = r
                                /\ \A i \in 1..n : g[i] = h[i][g[i - 1]]
                                /\ g[n] = F[1..n]
  <2>1. HasChain(n, A, r, h, F[1..n])
    BY <1>11, FoldChain
  <2> QED BY <2>1 DEF HasChain
<1>13. \A i \in 1..n : g[i] = ApplyPolicy(g[i - 1], p, fks[i], Affected(g[i - 1], dead, fks[i]))
  <2>1. \A i \in 1..n : g[i - 1] \in A
    BY <1>1
  <2> QED BY <1>3, <1>12, <2>1
<1> QED BY <1>4, <1>12, <1>13 DEF n

\* A pass takes the tables one after the other.
LEMMA CascadePassChain ==
  ASSUME NEW r, NEW p, NEW E, NEW A, r \in A, TableOrder \in Seq(E),
         \A a \in A, i \in 1..Len(TableOrder) : CascadeFrom(a, p, TableOrder[i]) \in A
  PROVE  \E g \in [0..Len(TableOrder) -> A] :
           /\ g[0] = r
           /\ \A i \in 1..Len(TableOrder) : g[i] = CascadeFrom(g[i - 1], p, TableOrder[i])
           /\ g[Len(TableOrder)] = CascadePass(r, p)
<1> DEFINE n == Len(TableOrder)
           h == [i \in 1..n |-> [a \in A |-> CascadeFrom(a, p, TableOrder[i])]]
           F == CHOOSE f : f = [u \in SUBSET (DOMAIN TableOrder) |->
                                  IF u = {} THEN r
                                  ELSE CascadeFrom(f[u \ {Max(u)}], p, TableOrder[Max(u)])]
<1>1. n \in Nat /\ DOMAIN TableOrder = 1..n
  OBVIOUS
<1>2. h \in [1..n -> [A -> A]]
  OBVIOUS
<1>3. \A a \in A, i \in 1..n : h[i][a] = CascadeFrom(a, p, TableOrder[i])
  OBVIOUS
<1>4. CascadePass(r, p) = F[1..n]
  BY <1>1 DEF CascadePass, FoldLeft, MapThenFoldSet
<1> HIDE DEF h, n
<1>5. IsStep(n, A, r, h)
  BY <1>1, <1>2 DEF IsStep
<1>6. PICK f \in [SUBSET (1..n) -> A] : IsFold(f, n, r, h)
  <2>1. HasFold(n, A, r, h)
    BY <1>5, FoldExists
  <2> QED BY <2>1 DEF HasFold
<1>7. ASSUME NEW u \in SUBSET (1..n), u # {}
      PROVE  Max(u) \in 1..n /\ u \ {Max(u)} \in SUBSET (1..n)
  <2>1. Max(u) \in u
    BY <1>1, <1>7, MaxOfIndices
  <2> QED BY <2>1
<1>8. f = [u \in SUBSET (DOMAIN TableOrder) |->
             IF u = {} THEN r ELSE CascadeFrom(f[u \ {Max(u)}], p, TableOrder[Max(u)])]
  <2>1. f = [u \in SUBSET (1..n) |-> f[u]]
    OBVIOUS
  <2>2. \A u \in SUBSET (1..n) : f[u] = IF u = {} THEN r ELSE CascadeFrom(f[u \ {Max(u)}], p, TableOrder[Max(u)])
    BY <1>3, <1>7, <1>6 DEF IsFold
  <2> QED BY <1>1, <2>1, <2>2
<1>9. F = [u \in SUBSET (DOMAIN TableOrder) |->
             IF u = {} THEN r ELSE CascadeFrom(F[u \ {Max(u)}], p, TableOrder[Max(u)])]
  BY <1>8
<1> HIDE DEF F
<1>10. \A u \in SUBSET (1..n) : F[u] = IF u = {} THEN r ELSE CascadeFrom(F[u \ {Max(u)}], p, TableOrder[Max(u)])
  BY <1>1, <1>9
<1>11. IsFoldIn(F, n, A, r, h)
  <2>1. F[{}] = r
    BY <1>10
  <2>2. ASSUME NEW u \in SUBSET (1..n), u # {}, F[u \ {Max(u)}] \in A
        PROVE  F[u] = h[Max(u)][F[u \ {Max(u)}]]
    <3>1. F[u] = CascadeFrom(F[u \ {Max(u)}], p, TableOrder[Max(u)])
      BY <1>10, <2>2
    <3>2. h[Max(u)][F[u \ {Max(u)}]] = CascadeFrom(F[u \ {Max(u)}], p, TableOrder[Max(u)])
      BY <1>3, <1>7, <2>2
    <3> QED BY <3>1, <3>2
  <2> QED BY <1>5, <2>1, <2>2 DEF IsFoldIn
<1>12. PICK g \in [0..n -> A] : /\ g[0] = r
                                /\ \A i \in 1..n : g[i] = h[i][g[i - 1]]
                                /\ g[n] = F[1..n]
  <2>1. HasChain(n, A, r, h, F[1..n])
    BY <1>11, FoldChain
  <2> QED BY <2>1 DEF HasChain
<1>13. \A i \in 1..n : g[i] = CascadeFrom(g[i - 1], p, TableOrder[i])
  <2>1. \A i \in 1..n : g[i - 1] \in A
    BY <1>1
  <2> QED BY <1>3, <1>12, <2>1
<1> QED BY <1>4, <1>12, <1>13 DEF n

-----------------------------------------------------------------------------
(***************************************************************************)
(* Sequences.                                                              *)
(***************************************************************************)
LEMMA AppendElements ==
  ASSUME NEW E, NEW t \in Seq(E), NEW x \in E
  PROVE  /\ Append(t, x) \in Seq(E)
         /\ ToSet(Append(t, x)) = ToSet(t) \cup {x}
<1> DEFINE u == Append(t, x)
<1>1. /\ u \in Seq(E)
      /\ Len(u) = Len(t) + 1
      /\ \A i \in 1..Len(t) : u[i] = t[i]
      /\ u[Len(t) + 1] = x
  BY AppendProperties
<1>2. DOMAIN t = 1..Len(t) /\ DOMAIN u = 1..(Len(t) + 1) /\ Len(t) \in Nat
  BY <1>1
<1> HIDE DEF u
<1>3. ASSUME NEW y \in ToSet(u)
      PROVE  y \in ToSet(t) \cup {x}
  <2>1. PICK i \in 1..(Len(t) + 1) : y = u[i]
    BY <1>2 DEF ToSet
  <2>2. CASE i = Len(t) + 1
    BY <1>1, <2>1, <2>2
  <2>3. CASE i \in 1..Len(t)
    BY <1>1, <1>2, <2>1, <2>3 DEF ToSet
  <2> QED BY <1>2, <2>1, <2>2, <2>3
<1>4. ASSUME NEW y \in ToSet(t)
      PROVE  y \in ToSet(u)
  <2>1. PICK i \in 1..Len(t) : y = t[i]
    BY <1>2 DEF ToSet
  <2> QED BY <1>1, <1>2, <2>1 DEF ToSet
<1>5. x \in ToSet(u)
  <2>1. Len(t) + 1 \in 1..(Len(t) + 1)
    BY <1>2
  <2> QED BY <1>1, <1>2, <2>1 DEF ToSet
<1> QED BY <1>1, <1>3, <1>4, <1>5 DEF u

LEMMA AppendOnce ==
  ASSUME NEW E, NEW t \in Seq(E), NEW x \in E, IsInjective(t), x \notin ToSet(t)
  PROVE  IsInjective(Append(t, x))
<1> DEFINE u == Append(t, x)
           n == Len(t)
<1>1. /\ DOMAIN t = 1..n /\ DOMAIN u = 1..(n + 1) /\ n \in Nat
      /\ \A i \in 1..n : u[i] = t[i]
      /\ u[n + 1] = x
  BY AppendProperties
<1>2. \A i \in 1..n : t[i] # x
  BY <1>1 DEF ToSet
<1>3. \A i, j \in 1..n : t[i] = t[j] => i = j
  BY <1>1 DEF IsInjective
<1>4. \A i \in 1..(n + 1) : i = n + 1 \/ i \in 1..n
  BY <1>1
<1> HIDE DEF u, n
<1>5. \A i, j \in DOMAIN u : u[i] = u[j] => i = j
  BY <1>1, <1>2, <1>3, <1>4
<1> QED BY <1>5 DEF IsInjective, u

\* The elements of a prefix.
FirstOf(s, i) == {s[j] : j \in 1..i}

LEMMA FirstOfNext ==
  ASSUME NEW s, NEW i \in Nat, i # 0
  PROVE  FirstOf(s, i) = FirstOf(s, i - 1) \cup {s[i]}
<1>1. 1..i = 1..(i - 1) \cup {i}
  OBVIOUS
<1> QED BY <1>1 DEF FirstOf

LEMMA FirstOfAll ==
  ASSUME NEW E, NEW s \in Seq(E)
  PROVE  FirstOf(s, Len(s)) = ToSet(s) /\ FirstOf(s, 0) = {} /\ ToSet(s) \subseteq E
<1>1. DOMAIN s = 1..Len(s) /\ \A i \in 1..Len(s) : s[i] \in E
  OBVIOUS
<1>2. 1..0 = {}
  OBVIOUS
<1> QED BY <1>1, <1>2 DEF FirstOf, ToSet

\* Kept keeps the elements of a sequence that are in a set, and no others.
LEMMA KeptFacts ==
  ASSUME NEW E, NEW s \in Seq(E), NEW S
  PROVE  /\ Kept(s, S) \in Seq(E)
         /\ ToSet(Kept(s, S)) = ToSet(s) \cap S
         /\ IsInjective(s) => IsInjective(Kept(s, S))
<1> DEFINE n == Len(s)
           Inv == [i \in 0..n |-> {t \in Seq(E) : /\ ToSet(t) = FirstOf(s, i) \cap S
                                                  /\ IsInjective(s) => IsInjective(t)}]
<1>1. n \in Nat /\ \A i \in 1..n : s[i] \in E
  OBVIOUS
<1>2. <<>> \in Seq(E) /\ ToSet(<<>>) = {} /\ IsInjective(<<>>)
  BY DEF ToSet, IsInjective
<1>3. \A a \in Seq(E), i \in 1..Len(s) : AppendIfIn(S, a, s[i]) \in Seq(E)
  BY <1>1, AppendElements DEF AppendIfIn
<1>4. PICK g \in [0..n -> Seq(E)] : /\ g[0] = <<>>
                                    /\ \A i \in 1..n : g[i] = AppendIfIn(S, g[i - 1], s[i])
                                    /\ g[n] = Kept(s, S)
  <2> DEFINE A == Seq(E)
  <2>1. <<>> \in A /\ s \in Seq(E)
    BY <1>2
  <2>2. \A a \in A, i \in 1..Len(s) : AppendIfIn(S, a, s[i]) \in A
    BY <1>3
  <2> HIDE DEF Inv, A
  <2>3. \E g \in [0..Len(s) -> A] :
          /\ g[0] = <<>>
          /\ \A i \in 1..Len(s) : g[i] = AppendIfIn(S, g[i - 1], s[i])
          /\ g[Len(s)] = Kept(s, S)
    BY <2>1, <2>2, KeptChain, Zenon
  <2> QED BY <2>3 DEF A
<1>5. g[0] \in Inv[0]
  BY <1>1, <1>2, <1>4, FirstOfAll
<1>6. ASSUME NEW i \in 1..n, g[i - 1] \in Inv[i - 1]
      PROVE  g[i] \in Inv[i]
  <2>1. i - 1 \in 0..n /\ i \in 0..n /\ i \in Nat /\ i # 0
    BY <1>1
  <2>2. /\ g[i - 1] \in Seq(E) /\ ToSet(g[i - 1]) = FirstOf(s, i - 1) \cap S
        /\ IsInjective(s) => IsInjective(g[i - 1])
    BY <1>6, <2>1
  <2>3. FirstOf(s, i) = FirstOf(s, i - 1) \cup {s[i]}
    BY <2>1, FirstOfNext
  <2>4. s[i] \in E /\ g[i] = AppendIfIn(S, g[i - 1], s[i])
    BY <1>1, <1>4
  <2>5. g[i] \in Seq(E) /\ ToSet(g[i]) = FirstOf(s, i) \cap S
    <3>1. CASE s[i] \in S
      BY <2>2, <2>3, <2>4, <3>1, AppendElements DEF AppendIfIn
    <3>2. CASE s[i] \notin S
      BY <2>2, <2>3, <2>4, <3>2 DEF AppendIfIn
    <3> QED BY <3>1, <3>2
  <2>6. ASSUME IsInjective(s)
        PROVE  IsInjective(g[i])
    <3>1. s[i] \notin FirstOf(s, i - 1)
      BY <1>1, <2>6 DEF FirstOf, IsInjective
    <3>2. CASE s[i] \in S
      <4>1. s[i] \notin ToSet(g[i - 1]) /\ IsInjective(g[i - 1])
        BY <2>2, <2>6, <3>1
      <4>2. g[i] = Append(g[i - 1], s[i])
        BY <2>4, <3>2 DEF AppendIfIn
      <4>3. g[i - 1] \in Seq(E) /\ s[i] \in E
        BY <2>2, <2>4
      <4>4. IsInjective(Append(g[i - 1], s[i]))
        BY <4>1, <4>3, AppendOnce
      <4> QED BY <4>2, <4>4
    <3>3. CASE s[i] \notin S
      BY <2>2, <2>4, <2>6, <3>3 DEF AppendIfIn
    <3> QED BY <3>2, <3>3
  <2> QED BY <2>1, <2>5, <2>6
<1>7. g[n] \in Inv[n]
  <2>1. n \in 0..n
    BY <1>1
  <2> HIDE DEF Inv
  <2> QED BY <1>1, <1>5, <1>6, <2>1, ChainStaysIn
<1>8. /\ Kept(s, S) \in Seq(E) /\ ToSet(Kept(s, S)) = FirstOf(s, n) \cap S
      /\ IsInjective(s) => IsInjective(Kept(s, S))
  BY <1>1, <1>4, <1>7
<1> QED BY <1>8, FirstOfAll

LEMMA ConcatElements ==
  ASSUME NEW E, NEW s \in Seq(E), NEW t \in Seq(E)
  PROVE  /\ s \o t \in Seq(E)
         /\ ToSet(s \o t) = ToSet(s) \cup ToSet(t)
<1> DEFINE u == s \o t
<1>1. /\ u \in Seq(E)
      /\ Len(u) = Len(s) + Len(t)
      /\ \A i \in 1..Len(u) : u[i] = IF i <= Len(s) THEN s[i] ELSE t[i - Len(s)]
  BY ConcatProperties
<1>2. /\ DOMAIN s = 1..Len(s) /\ DOMAIN t = 1..Len(t) /\ DOMAIN u = 1..Len(u)
      /\ Len(s) \in Nat /\ Len(t) \in Nat
  BY <1>1
<1> HIDE DEF u
<1>3. ASSUME NEW y \in ToSet(u)
      PROVE  y \in ToSet(s) \cup ToSet(t)
  <2>1. PICK i \in 1..Len(u) : y = u[i]
    BY <1>2 DEF ToSet
  <2>2. CASE i <= Len(s)
    <3>1. i \in 1..Len(s) /\ y = s[i]
      BY <1>1, <1>2, <2>1, <2>2
    <3> QED BY <1>2, <3>1 DEF ToSet
  <2>3. CASE ~(i <= Len(s))
    <3>1. i - Len(s) \in 1..Len(t) /\ y = t[i - Len(s)]
      BY <1>1, <1>2, <2>1, <2>3
    <3> QED BY <1>2, <3>1 DEF ToSet
  <2> QED BY <2>2, <2>3
<1>4. ASSUME NEW y \in ToSet(s)
      PROVE  y \in ToSet(u)
  <2>1. PICK i \in 1..Len(s) : y = s[i]
    BY <1>2 DEF ToSet
  <2>2. i \in 1..Len(u) /\ u[i] = s[i]
    BY <1>1, <1>2, <2>1
  <2> QED BY <1>2, <2>1, <2>2 DEF ToSet
<1>5. ASSUME NEW y \in ToSet(t)
      PROVE  y \in ToSet(u)
  <2>1. PICK i \in 1..Len(t) : y = t[i]
    BY <1>2 DEF ToSet
  <2>2. Len(s) + i \in 1..Len(u) /\ u[Len(s) + i] = t[i]
    BY <1>1, <1>2, <2>1
  <2> QED BY <1>2, <2>1, <2>2 DEF ToSet
<1> QED BY <1>1, <1>3, <1>4, <1>5 DEF u
-----------------------------------------------------------------------------
(***************************************************************************)
(* The registry.  A claim stands for a set of entries, each a row with the *)
(* version at which it claimed the value.                                  *)
(***************************************************************************)
Entry == [row : Keys, version : Version]

RowsIn(losers) == {l.row : l \in ToSet(losers)}

\* The claim c records the entries of E: its owner has the latest of them, its
\* losers are among them, and every row of E is its owner or among its losers.
Settled(c, E) ==
  /\ c \in ClaimOf(Keys)
  /\ E \subseteq Entry
  /\ c = NoClaim => E = {}
  /\ c # NoClaim => /\ Loser(c.owner, c.version) \in E
                    /\ \A e \in E : VLeq(e.version, c.version)
                    /\ ToSet(c.losers) \subseteq E
                    /\ \A e \in E : e.row = c.owner \/ e.row \in RowsIn(c.losers)

LEMMA ClaimFields ==
  ASSUME NEW c \in ClaimOf(Keys), c # NoClaim
  PROVE  /\ c.owner \in Keys /\ c.version \in Version /\ c.losers \in Seq(Entry)
         /\ Loser(c.owner, c.version) \in Entry
         /\ c = [owner |-> c.owner, version |-> c.version, losers |-> c.losers]
BY DEF ClaimOf, Loser, Entry

LEMMA NewClaim ==
  ASSUME NEW k \in Keys, NEW v \in Version, NEW losers \in Seq(Entry)
  PROVE  LET c == [owner |-> k, version |-> v, losers |-> losers]
         IN  c \in ClaimOf(Keys) /\ c # NoClaim
<1> DEFINE c == [owner |-> k, version |-> v, losers |-> losers]
<1>1. c.version = v /\ NoClaim.version = NoVersion
  BY DEF NoClaim
<1>2. v # NoVersion
  BY VersionIsOpt
<1>3. c \in ClaimOf(Keys)
  BY DEF ClaimOf, Entry
<1> QED BY <1>1, <1>2, <1>3

LEMMA EntryFields ==
  ASSUME NEW l \in Entry
  PROVE  l.row \in Keys /\ l.version \in Version /\ l = Loser(l.row, l.version)
BY DEF Entry, Loser

LEMMA LoserRowsAreRowsIn ==
  ASSUME NEW c, c.losers \in Seq(Entry)
  PROVE  LoserRows(c) = RowsIn(c.losers)
BY DEF LoserRows, RowsIn, ToSet

LEMMA WithoutFacts ==
  ASSUME NEW losers \in Seq(Entry), NEW k
  PROVE  /\ Without(losers, k) \in Seq(Entry)
         /\ ToSet(Without(losers, k)) = {l \in ToSet(losers) : l.row # k}
<1> DEFINE S == {l \in ToSet(losers) : l.row # k}
<1>1. ToSet(losers) \cap S = S
  OBVIOUS
<1>2. Without(losers, k) = Kept(losers, S)
  BY DEF Without
<1> HIDE DEF S
<1>3. Kept(losers, S) \in Seq(Entry) /\ ToSet(Kept(losers, S)) = ToSet(losers) \cap S
  BY KeptFacts
<1> QED BY <1>1, <1>2, <1>3 DEF S

\* AddAll drops entries, never a row.
LEMMA AddAllFacts ==
  ASSUME NEW s \in Seq(Entry), NEW t \in Seq(Entry)
  PROVE  /\ AddAll(s, t) \in Seq(Entry)
         /\ ToSet(AddAll(s, t)) \subseteq ToSet(s) \cup ToSet(t)
         /\ RowsIn(AddAll(s, t)) = RowsIn(s) \cup RowsIn(t)
<1> DEFINE A == Seq(Entry)
           n == Len(t)
           OneMore(u, w, l) == /\ w \in A
                               /\ ToSet(w) \subseteq ToSet(u) \cup {l}
                               /\ RowsIn(w) = RowsIn(u) \cup {l.row}
           Inv == [i \in 0..n |->
                     {u \in A : /\ ToSet(u) \subseteq ToSet(s) \cup FirstOf(t, i)
                                /\ RowsIn(u) = RowsIn(s) \cup {l.row : l \in FirstOf(t, i)}}]
<1>1. n \in Nat /\ \A i \in 1..n : t[i] \in Entry
  OBVIOUS
<1>2. ASSUME NEW u \in A, NEW l \in Entry
      PROVE  OneMore(u, AddIfNew(u, l), l)
  <2>1. CASE \E i \in DOMAIN u : u[i].row = l.row
    <3>1. AddIfNew(u, l) = u
      BY <2>1 DEF AddIfNew
    <3>2. l.row \in RowsIn(u)
      BY <2>1 DEF RowsIn, ToSet
    <3> QED BY <3>1, <3>2
  <2>2. CASE ~ \E i \in DOMAIN u : u[i].row = l.row
    <3>1. AddIfNew(u, l) = Append(u, l)
      BY <2>2 DEF AddIfNew
    <3>2. Append(u, l) \in Seq(Entry) /\ ToSet(Append(u, l)) = ToSet(u) \cup {l}
      BY AppendElements
    <3> QED BY <3>1, <3>2 DEF RowsIn
  <2> QED BY <2>1, <2>2
<1>3. PICK g \in [0..n -> A] : /\ g[0] = s
                               /\ \A i \in 1..n : g[i] = AddIfNew(g[i - 1], t[i])
                               /\ g[n] = AddAll(s, t)
  <2>1. s \in A /\ t \in Seq(Entry)
    OBVIOUS
  <2>2. \A a \in A, i \in 1..Len(t) : AddIfNew(a, t[i]) \in A
    BY <1>1, <1>2
  <2> HIDE DEF A, Inv
  <2> QED BY <2>1, <2>2, AddAllChain
<1>4. g[0] \in Inv[0]
  BY <1>1, <1>3, FirstOfAll DEF RowsIn
<1>5. ASSUME NEW i \in 1..n, g[i - 1] \in Inv[i - 1]
      PROVE  g[i] \in Inv[i]
  <2>1. i - 1 \in 0..n /\ i \in 0..n /\ i \in Nat /\ i # 0
    BY <1>1
  <2>2. /\ g[i - 1] \in A
        /\ ToSet(g[i - 1]) \subseteq ToSet(s) \cup FirstOf(t, i - 1)
        /\ RowsIn(g[i - 1]) = RowsIn(s) \cup {l.row : l \in FirstOf(t, i - 1)}
    BY <1>5, <2>1
  <2>3. FirstOf(t, i) = FirstOf(t, i - 1) \cup {t[i]}
    BY <2>1, FirstOfNext
  <2>4. OneMore(g[i - 1], g[i], t[i])
    <3>1. t[i] \in Entry /\ g[i] = AddIfNew(g[i - 1], t[i])
      BY <1>1, <1>3
    <3>2. g[i - 1] \in A
      BY <2>2
    <3> HIDE DEF A, Inv, OneMore
    <3> QED BY <1>2, <3>1, <3>2
  <2>5. /\ ToSet(g[i]) \subseteq ToSet(s) \cup FirstOf(t, i)
        /\ RowsIn(g[i]) = RowsIn(s) \cup {l.row : l \in FirstOf(t, i)}
    BY <2>2, <2>3, <2>4
  <2> QED BY <2>1, <2>4, <2>5
<1>6. g[n] \in Inv[n]
  <2>1. n \in 0..n
    BY <1>1
  <2> HIDE DEF Inv
  <2> QED BY <1>1, <1>4, <1>5, <2>1, ChainStaysIn
<1>7. /\ AddAll(s, t) \in A
      /\ ToSet(AddAll(s, t)) \subseteq ToSet(s) \cup FirstOf(t, n)
      /\ RowsIn(AddAll(s, t)) = RowsIn(s) \cup {l.row : l \in FirstOf(t, n)}
  BY <1>1, <1>3, <1>6
<1>8. FirstOf(t, n) = ToSet(t)
  BY FirstOfAll
<1> QED BY <1>7, <1>8 DEF RowsIn

LEMMA NothingSettled == Settled(NoClaim, {})
BY DEF Settled, ClaimOf

\* Claims that the set has more entries of need no change, as long as they are
\* of rows the claim has and not later.
LEMMA SettledUpTo ==
  ASSUME NEW c, NEW F, NEW E \in SUBSET Entry, Settled(c, F), F \subseteq E, F # {},
         \A e \in E : \E f \in F : f.row = e.row,
         \E m \in F : \A e \in E : VLeq(e.version, m.version)
  PROVE  Settled(c, E)
<1>1. c # NoClaim /\ c \in ClaimOf(Keys)
  BY DEF Settled
<1>2. /\ Loser(c.owner, c.version) \in F
      /\ \A f \in F : VLeq(f.version, c.version)
      /\ ToSet(c.losers) \subseteq F
      /\ \A f \in F : f.row = c.owner \/ f.row \in RowsIn(c.losers)
  BY <1>1 DEF Settled
<1>3. ASSUME NEW e \in E
      PROVE  VLeq(e.version, c.version)
  <2>1. PICK m \in F : \A x \in E : VLeq(x.version, m.version)
    OBVIOUS
  <2>2. VLeq(e.version, m.version) /\ VLeq(m.version, c.version)
    BY <1>2, <2>1
  <2>3. e.version \in OptVersion /\ m.version \in OptVersion /\ c.version \in OptVersion
    BY <1>1, ClaimFields, EntryFields, VersionIsOpt
  <2> QED BY <2>2, <2>3, VLessTransitive DEF VLeq
<1>4. \A e \in E : e.row = c.owner \/ e.row \in RowsIn(c.losers)
  BY <1>2
<1> QED BY <1>1, <1>2, <1>3, <1>4 DEF Settled

\* UniquenessRegistry::claim: a claim that records the entries of E records the
\* new one too, whatever order the claims come in.
THEOREM ClaimSettles ==
  ASSUME NEW c, NEW E, NEW k \in Keys, NEW v \in Version, Settled(c, E)
  PROVE  Settled(claim(c, k, v), E \cup {Loser(k, v)})
<1> DEFINE l == Loser(k, v)
           n == claim(c, k, v)
<1>1. c \in ClaimOf(Keys) /\ E \subseteq Entry
  BY DEF Settled
<1>2. l \in Entry /\ l.row = k /\ l.version = v
  BY DEF Loser, Entry
<1>3. CASE c = NoClaim
  <2>1. n = [owner |-> k, version |-> v, losers |-> <<>>] /\ E = {}
    BY <1>3 DEF claim, Settled
  <2>2. n \in ClaimOf(Keys) /\ n # NoClaim
    <3>1. <<>> \in Seq(Entry)
      OBVIOUS
    <3> QED BY <2>1, <3>1, NewClaim
  <2>3. ToSet(<<>>) = {}
    BY DEF ToSet
  <2> QED BY <1>2, <2>1, <2>2, <2>3 DEF Settled, VLeq
<1>4. CASE c # NoClaim
  <2>1. /\ Loser(c.owner, c.version) \in E
        /\ \A e \in E : VLeq(e.version, c.version)
        /\ ToSet(c.losers) \subseteq E
        /\ \A e \in E : e.row = c.owner \/ e.row \in RowsIn(c.losers)
    BY <1>4 DEF Settled
  <2>2. /\ c.owner \in Keys /\ c.version \in Version /\ c.losers \in Seq(Entry)
        /\ Loser(c.owner, c.version) \in Entry
        /\ c = [owner |-> c.owner, version |-> c.version, losers |-> c.losers]
    BY <1>1, <1>4, ClaimFields
  <2>3. \A e \in E \cup {l} : e.version \in Version /\ e.version \in OptVersion
    BY <1>1, <1>2, VersionIsOpt DEF Entry
  <2>4. c.version \in OptVersion /\ v \in OptVersion
    BY <2>2, VersionIsOpt
  <2>5. VLess(c.version, v) => \A e \in E \cup {l} : VLeq(e.version, v)
    BY <1>2, <2>1, <2>3, <2>4, VLessTransitive DEF VLeq
  <2>6. ~VLess(c.version, v) => \A e \in E \cup {l} : VLeq(e.version, c.version)
    BY <1>2, <2>1, <2>3, <2>4, VLessTotal DEF VLeq
  <2>7. CASE c.owner = k
    <3> DEFINE w == IF VLess(c.version, v) THEN v ELSE c.version
    <3>1. n = [owner |-> k, version |-> w, losers |-> Without(c.losers, k)]
      BY <1>4, <2>7 DEF claim
    <3>2. /\ Without(c.losers, k) \in Seq(Entry)
          /\ ToSet(Without(c.losers, k)) = {e \in ToSet(c.losers) : e.row # k}
      BY <2>2, WithoutFacts
    <3>3. w \in Version /\ Loser(k, w) \in E \cup {l}
      BY <2>1, <2>2, <2>7
    <3>4. n \in ClaimOf(Keys) /\ n # NoClaim
      <4> HIDE DEF w
      <4> QED BY <3>1, <3>2, <3>3, NewClaim
    <3>5. \A e \in E \cup {l} : VLeq(e.version, w)
      BY <2>5, <2>6
    <3>6. \A e \in E \cup {l} : e.row = k \/ e.row \in RowsIn(Without(c.losers, k))
      BY <1>2, <2>1, <2>7, <3>2 DEF RowsIn
    <3>7. /\ n.owner = k /\ n.version = w /\ n.losers = Without(c.losers, k)
      BY <3>1
    <3> HIDE DEF w, n, l
    <3>8. E \cup {l} \subseteq Entry /\ ToSet(n.losers) \subseteq E \cup {l}
      BY <1>1, <1>2, <2>1, <3>2, <3>7
    <3>9. Settled(n, E \cup {l})
      BY <3>3, <3>4, <3>5, <3>6, <3>7, <3>8 DEF Settled
    <3> QED BY <3>9 DEF n, l
  <2>8. CASE c.owner # k /\ VLess(c.version, v)
    <3> DEFINE s == Append(c.losers, Loser(c.owner, c.version))
    <3>1. n = [owner |-> k, version |-> v, losers |-> s]
      BY <1>4, <2>8 DEF claim
    <3>2. s \in Seq(Entry) /\ ToSet(s) = ToSet(c.losers) \cup {Loser(c.owner, c.version)}
      BY <2>2, AppendElements
    <3>3. n \in ClaimOf(Keys) /\ n # NoClaim
      <4> HIDE DEF s
      <4> QED BY <3>1, <3>2, NewClaim
    <3>4. \A e \in E \cup {l} : e.row = k \/ e.row \in RowsIn(s)
      <4>1. Loser(c.owner, c.version).row = c.owner
        BY DEF Loser
      <4> QED BY <1>2, <2>1, <3>2, <4>1 DEF RowsIn
    <3>5. n.owner = k /\ n.version = v /\ n.losers = s
      BY <3>1
    <3> HIDE DEF s, n, l
    <3>6. E \cup {l} \subseteq Entry /\ ToSet(n.losers) \subseteq E \cup {l}
      BY <1>1, <1>2, <2>1, <3>2, <3>5
    <3>7. Settled(n, E \cup {l})
      BY <2>5, <2>8, <3>3, <3>4, <3>5, <3>6 DEF Settled, l
    <3> QED BY <3>7 DEF n, l
  <2>9. CASE c.owner # k /\ ~VLess(c.version, v)
    <3> DEFINE s == Append(c.losers, l)
    <3>1. n = [c EXCEPT !.losers = s]
      BY <1>4, <2>9 DEF claim
    <3>2. n = [owner |-> c.owner, version |-> c.version, losers |-> s]
      BY <2>2, <3>1
    <3>3. s \in Seq(Entry) /\ ToSet(s) = ToSet(c.losers) \cup {l}
      BY <1>2, <2>2, AppendElements
    <3>4. n \in ClaimOf(Keys) /\ n # NoClaim
      <4> HIDE DEF s
      <4> QED BY <2>2, <3>2, <3>3, NewClaim
    <3>5. \A e \in E \cup {l} : e.row = c.owner \/ e.row \in RowsIn(s)
      BY <1>2, <2>1, <3>3 DEF RowsIn
    <3>6. n.owner = c.owner /\ n.version = c.version /\ n.losers = s
      BY <3>2
    <3> HIDE DEF s, n, l
    <3>7. E \cup {l} \subseteq Entry /\ ToSet(n.losers) \subseteq E \cup {l}
      BY <1>1, <1>2, <2>1, <3>3, <3>6
    <3>8. Settled(n, E \cup {l})
      BY <2>1, <2>6, <2>9, <3>4, <3>5, <3>6, <3>7 DEF Settled
    <3> QED BY <3>8 DEF n, l
  <2> QED BY <2>7, <2>8, <2>9
<1> QED BY <1>3, <1>4

\* The claims of a delta, filed again at the receiver.
LEMMA RebuiltSettles ==
  ASSUME NEW c, NEW E, Settled(c, E)
  PROVE  Settled(rebuilt(c), E)
<1>1. c \in ClaimOf(Keys) /\ E \in SUBSET Entry
  BY DEF Settled
<1>2. CASE c = NoClaim
  <2>1. rebuilt(c) = c
    BY <1>2 DEF rebuilt
  <2> QED BY <2>1
<1>3. CASE c # NoClaim
  <2> DEFINE A == ClaimOf(Keys)
             n == Len(c.losers)
             owner == Loser(c.owner, c.version)
             base == claim(NoClaim, c.owner, c.version)
             F(i) == {owner} \cup FirstOf(c.losers, i)
             Inv == [i \in 0..n |-> {b \in A : Settled(b, F(i))}]
  <2>1. /\ c.owner \in Keys /\ c.version \in Version /\ c.losers \in Seq(Entry)
        /\ owner \in Entry
    BY <1>1, <1>3, ClaimFields
  <2>2. /\ owner \in E
        /\ \A e \in E : VLeq(e.version, c.version)
        /\ ToSet(c.losers) \subseteq E
        /\ \A e \in E : e.row = c.owner \/ e.row \in RowsIn(c.losers)
    BY <1>3 DEF Settled
  <2>3. n \in Nat /\ \A i \in 1..n : /\ c.losers[i].row \in Keys
                                     /\ c.losers[i].version \in Version
                                     /\ c.losers[i] = Loser(c.losers[i].row, c.losers[i].version)
    <3>1. n \in Nat /\ \A i \in 1..n : c.losers[i] \in Entry
      BY <2>1
    <3> QED BY <3>1, EntryFields
  <2>4. Settled(base, {owner})
    <3>1. Settled(base, {} \cup {owner})
      BY <2>1, NothingSettled, ClaimSettles
    <3> QED BY <3>1
  <2>5. base \in A
    BY <2>4 DEF Settled
  <2>6. ASSUME NEW a \in A, NEW k \in Keys, NEW v \in Version
        PROVE  claim(a, k, v) \in A
    <3>1. CASE a = NoClaim
      <4>1. Settled(a, {})
        BY <3>1, NothingSettled
      <4>2. Settled(claim(a, k, v), {} \cup {Loser(k, v)})
        BY <4>1, ClaimSettles
      <4> QED BY <4>2 DEF Settled
    <3>2. CASE a # NoClaim
      <4> DEFINE w == IF VLess(a.version, v) THEN v ELSE a.version
      <4>1. /\ a.owner \in Keys /\ a.version \in Version /\ a.losers \in Seq(Entry)
            /\ Loser(a.owner, a.version) \in Entry /\ Loser(k, v) \in Entry
            /\ a = [owner |-> a.owner, version |-> a.version, losers |-> a.losers]
        BY <3>2, ClaimFields DEF Loser, Entry
      <4>2. Without(a.losers, k) \in Seq(Entry)
        BY <4>1, WithoutFacts
      <4>3. /\ Append(a.losers, Loser(a.owner, a.version)) \in Seq(Entry)
            /\ Append(a.losers, Loser(k, v)) \in Seq(Entry)
        BY <4>1, AppendElements
      <4>4. w \in Version
        BY <4>1
      <4>5. CASE a.owner = k
        <5>1. claim(a, k, v) = [owner |-> k, version |-> w, losers |-> Without(a.losers, k)]
          BY <3>2, <4>5 DEF claim
        <5> HIDE DEF w
        <5> QED BY <4>2, <4>4, <5>1, NewClaim
      <4>6. CASE a.owner # k /\ VLess(a.version, v)
        BY <3>2, <4>3, <4>6, NewClaim DEF claim
      <4>7. CASE a.owner # k /\ ~VLess(a.version, v)
        <5>1. claim(a, k, v) = [a EXCEPT !.losers = Append(a.losers, Loser(k, v))]
          BY <3>2, <4>7 DEF claim
        <5>2. claim(a, k, v) = [owner |-> a.owner, version |-> a.version,
                                losers |-> Append(a.losers, Loser(k, v))]
          BY <4>1, <5>1
        <5> QED BY <4>1, <4>3, <5>2, NewClaim
      <4> QED BY <4>5, <4>6, <4>7
    <3> QED BY <3>1, <3>2
  <2>7. PICK g \in [0..n -> A] :
          /\ g[0] = base
          /\ \A i \in 1..n : g[i] = claim(g[i - 1], c.losers[i].row, c.losers[i].version)
          /\ g[n] = Reclaimed(base, c.losers)
    <3>1. \A a \in A, i \in 1..Len(c.losers) :
            claim(a, c.losers[i].row, c.losers[i].version) \in A
      BY <2>3, <2>6
    <3> HIDE DEF A, Inv, base
    <3> QED BY <2>1, <2>5, <3>1, ReclaimedChain
  <2>8. g[0] \in Inv[0]
    <3>1. F(0) = {owner}
      BY <2>1, FirstOfAll
    <3>2. 0 \in 0..n /\ g[0] = base
      BY <2>3, <2>7
    <3>3. g[0] \in A /\ Settled(g[0], F(0))
      <4> HIDE DEF F, base
      <4> QED BY <2>4, <2>5, <3>1, <3>2
    <3> HIDE DEF F
    <3> QED BY <3>2, <3>3
  <2>9. ASSUME NEW i \in 1..n, g[i - 1] \in Inv[i - 1]
        PROVE  g[i] \in Inv[i]
    <3>1. i - 1 \in 0..n /\ i \in 0..n /\ i \in Nat /\ i # 0
      BY <2>3
    <3>2. Settled(g[i - 1], F(i - 1))
      BY <2>9, <3>1
    <3>3. F(i) = F(i - 1) \cup {c.losers[i]}
      BY <3>1, FirstOfNext
    <3>4. g[i] = claim(g[i - 1], c.losers[i].row, c.losers[i].version)
      BY <2>7
    <3>5. Settled(g[i], F(i - 1) \cup {Loser(c.losers[i].row, c.losers[i].version)})
      <4> HIDE DEF F
      <4> QED BY <2>3, <3>2, <3>4, ClaimSettles
    <3>6. Settled(g[i], F(i))
      BY <2>3, <3>3, <3>5
    <3> QED BY <3>1, <3>6, <2>7
  <2>10. g[n] \in Inv[n]
    <3>1. n \in 0..n
      BY <2>3
    <3> HIDE DEF Inv
    <3> QED BY <2>3, <2>8, <2>9, <3>1, ChainStaysIn
  <2>11. rebuilt(c) = g[n]
    <3>1. rebuilt(c) = Reclaimed(base, c.losers)
      BY <1>3 DEF rebuilt
    <3> HIDE DEF base
    <3> QED BY <2>7, <3>1
  <2>12. Settled(rebuilt(c), F(n))
    <3>1. n \in 0..n
      BY <2>3
    <3> HIDE DEF F
    <3> QED BY <2>10, <2>11, <3>1
  <2>13. F(n) = {owner} \cup ToSet(c.losers)
    BY <2>1, FirstOfAll
  <2>14. F(n) \subseteq E /\ F(n) # {}
    BY <2>2, <2>13
  <2>15. \A e \in E : \E f \in F(n) : f.row = e.row
    <3>1. owner.row = c.owner
      BY DEF Loser
    <3> QED BY <2>2, <2>13, <3>1 DEF RowsIn
  <2>16. \E m \in F(n) : \A e \in E : VLeq(e.version, m.version)
    <3>1. owner.version = c.version
      BY DEF Loser
    <3> QED BY <2>2, <2>13, <3>1
  <2> HIDE DEF F
  <2> QED BY <1>1, <2>12, <2>14, <2>15, <2>16, SettledUpTo
<1> QED BY <1>2, <1>3

\* UniquenessRegistry::merge: what two claims record, their merge records; it
\* loses no claimant and settles on the latest claim of both.
THEOREM MergeSettles ==
  ASSUME NEW a, NEW b, NEW E, NEW F, Settled(a, E), Settled(b, F)
  PROVE  Settled(merge(a, b), E \cup F)
<1> DEFINE n == merge(a, b)
<1>1. /\ a \in ClaimOf(Keys) /\ b \in ClaimOf(Keys)
      /\ E \cup F \subseteq Entry
  BY DEF Settled
<1>2. CASE b = NoClaim
  <2>1. merge(a, b) = a /\ E \cup F = E
    BY <1>2 DEF merge, Settled
  <2> QED BY <2>1
<1>3. CASE b # NoClaim /\ a = NoClaim
  <2>1. merge(a, b) = b /\ E \cup F = F
    BY <1>3 DEF merge, Settled
  <2> QED BY <2>1
<1>4. CASE b # NoClaim /\ a # NoClaim
  <2> DEFINE oa == Loser(a.owner, a.version)
             ob == Loser(b.owner, b.version)
  <2>1. /\ a.owner \in Keys /\ a.version \in Version /\ a.losers \in Seq(Entry)
        /\ oa \in Entry
        /\ a = [owner |-> a.owner, version |-> a.version, losers |-> a.losers]
        /\ b.owner \in Keys /\ b.version \in Version /\ b.losers \in Seq(Entry)
        /\ ob \in Entry
        /\ b = [owner |-> b.owner, version |-> b.version, losers |-> b.losers]
    BY <1>1, <1>4, ClaimFields
  <2>2. /\ oa \in E /\ ob \in F
        /\ \A e \in E : VLeq(e.version, a.version)
        /\ \A e \in F : VLeq(e.version, b.version)
        /\ ToSet(a.losers) \subseteq E /\ ToSet(b.losers) \subseteq F
        /\ \A e \in E : e.row = a.owner \/ e.row \in RowsIn(a.losers)
        /\ \A e \in F : e.row = b.owner \/ e.row \in RowsIn(b.losers)
    BY <1>4 DEF Settled
  <2>3. oa.row = a.owner /\ ob.row = b.owner
    BY DEF Loser
  <2>4. \A e \in E \cup F : e.version \in OptVersion
    BY <1>1, VersionIsOpt DEF Entry
  <2>5. a.version \in OptVersion /\ b.version \in OptVersion
    BY <2>1, VersionIsOpt
  <2>6. <<oa>> \in Seq(Entry) /\ <<ob>> \in Seq(Entry)
        /\ ToSet(<<oa>>) = {oa} /\ ToSet(<<ob>>) = {ob}
    BY <2>1 DEF ToSet
  <2> HIDE DEF oa, ob
  <2>7. CASE VLess(a.version, b.version)
    <3> DEFINE u == a.losers \o b.losers
               w == u \o <<oa>>
               x == AddAll(<<>>, w)
               s == Without(x, b.owner)
    <3>1. n = [b EXCEPT !.losers = s]
      BY <1>4, <2>7 DEF merge, oa
    <3>2. n = [owner |-> b.owner, version |-> b.version, losers |-> s]
      BY <2>1, <3>1
    <3>3. u \in Seq(Entry) /\ ToSet(u) = ToSet(a.losers) \cup ToSet(b.losers)
      BY <2>1, ConcatElements
    <3>4. w \in Seq(Entry) /\ ToSet(w) = ToSet(a.losers) \cup ToSet(b.losers) \cup {oa}
      <4> DEFINE v == <<oa>>
      <4>1. v \in Seq(Entry) /\ ToSet(v) = {oa}
        BY <2>6
      <4> HIDE DEF u, v
      <4>2. u \o v \in Seq(Entry) /\ ToSet(u \o v) = ToSet(u) \cup ToSet(v)
        BY <3>3, <4>1, ConcatElements
      <4> QED BY <3>3, <4>1, <4>2 DEF v
    <3>5. <<>> \in Seq(Entry) /\ ToSet(<<>>) = {}
      BY DEF ToSet
    <3>6. /\ x \in Seq(Entry)
          /\ ToSet(x) \subseteq ToSet(w)
          /\ RowsIn(x) = RowsIn(w)
      <4> HIDE DEF w
      <4>1. /\ x \in Seq(Entry)
            /\ ToSet(x) \subseteq ToSet(<<>>) \cup ToSet(w)
            /\ RowsIn(x) = RowsIn(<<>>) \cup RowsIn(w)
        BY <3>4, <3>5, AddAllFacts
      <4>2. RowsIn(<<>>) = {}
        BY <3>5 DEF RowsIn
      <4> QED BY <3>5, <4>1, <4>2
    <3>7. s \in Seq(Entry) /\ ToSet(s) = {l \in ToSet(x) : l.row # b.owner}
      <4> HIDE DEF x
      <4> QED BY <3>6, WithoutFacts
    <3>8. n \in ClaimOf(Keys) /\ n # NoClaim
      <4> HIDE DEF s
      <4> QED BY <2>1, <3>2, <3>7, NewClaim
    <3>9. n.owner = b.owner /\ n.version = b.version /\ n.losers = s
      BY <3>2
    <3> HIDE DEF s, n, x, w, u
    <3>10. ToSet(n.losers) \subseteq E \cup F
      BY <2>2, <3>4, <3>6, <3>7, <3>9
    <3>11. \A e \in E \cup F : VLeq(e.version, n.version)
      <4>1. \A e \in E : VLeq(e.version, b.version)
        BY <2>2, <2>4, <2>5, <2>7, VLessTransitive DEF VLeq
      <4> QED BY <2>2, <3>9, <4>1
    <3>12. \A e \in E \cup F : e.row = n.owner \/ e.row \in RowsIn(n.losers)
      <4>1. \A e \in E \cup F : e.row = b.owner \/ e.row \in RowsIn(w)
        BY <2>2, <2>3, <3>4 DEF RowsIn
      <4>2. \A k \in RowsIn(x) : k = b.owner \/ k \in RowsIn(s)
        BY <3>7 DEF RowsIn
      <4> QED BY <3>6, <3>9, <4>1, <4>2
    <3>13. Loser(n.owner, n.version) \in E \cup F
      BY <2>2, <3>9 DEF ob
    <3> QED BY <1>1, <3>8, <3>10, <3>11, <3>12, <3>13 DEF Settled, n
  <2>8. CASE ~VLess(a.version, b.version)
    <3> DEFINE u == <<ob>> \o b.losers
               w == Without(u, a.owner)
               s == AddAll(a.losers, w)
    <3>1. n = [a EXCEPT !.losers = s]
      BY <1>4, <2>8 DEF merge, ob
    <3>2. n = [owner |-> a.owner, version |-> a.version, losers |-> s]
      BY <2>1, <3>1
    <3>3. u \in Seq(Entry) /\ ToSet(u) = {ob} \cup ToSet(b.losers)
      <4> DEFINE v == <<ob>>
      <4>1. v \in Seq(Entry) /\ ToSet(v) = {ob}
        BY <2>6
      <4> HIDE DEF v
      <4>2. v \o b.losers \in Seq(Entry) /\ ToSet(v \o b.losers) = ToSet(v) \cup ToSet(b.losers)
        BY <2>1, <4>1, ConcatElements
      <4> QED BY <4>1, <4>2 DEF v
    <3>4. w \in Seq(Entry) /\ ToSet(w) = {l \in ToSet(u) : l.row # a.owner}
      <4> HIDE DEF u
      <4> QED BY <3>3, WithoutFacts
    <3>5. /\ s \in Seq(Entry)
          /\ ToSet(s) \subseteq ToSet(a.losers) \cup ToSet(w)
          /\ RowsIn(s) = RowsIn(a.losers) \cup RowsIn(w)
      <4> HIDE DEF w
      <4> QED BY <2>1, <3>4, AddAllFacts
    <3>6. n \in ClaimOf(Keys) /\ n # NoClaim
      <4> HIDE DEF s
      <4> QED BY <2>1, <3>2, <3>5, NewClaim
    <3>7. n.owner = a.owner /\ n.version = a.version /\ n.losers = s
      BY <3>2
    <3> HIDE DEF s, n, w, u
    <3>8. ToSet(n.losers) \subseteq E \cup F
      BY <2>2, <3>3, <3>4, <3>5, <3>7
    <3>9. \A e \in E \cup F : VLeq(e.version, n.version)
      <4>1. VLeq(b.version, a.version)
        BY <2>5, <2>8, VLessTotal DEF VLeq
      <4>2. \A e \in F : VLeq(e.version, a.version)
        BY <2>2, <2>4, <2>5, <4>1, VLessTransitive DEF VLeq
      <4> QED BY <2>2, <3>7, <4>2
    <3>10. \A e \in E \cup F : e.row = n.owner \/ e.row \in RowsIn(n.losers)
      <4>1. \A e \in F : e.row = a.owner \/ e.row \in RowsIn(w)
        BY <2>2, <2>3, <3>3, <3>4 DEF RowsIn
      <4> QED BY <2>2, <3>5, <3>7, <4>1
    <3>11. Loser(n.owner, n.version) \in E \cup F
      BY <2>2, <3>7 DEF oa
    <3> QED BY <1>1, <3>6, <3>8, <3>9, <3>10, <3>11 DEF Settled, n
  <2> QED BY <2>7, <2>8
<1> QED BY <1>2, <1>3, <1>4
-----------------------------------------------------------------------------
(***************************************************************************)
(* What a call changes in the replica of its peer.                         *)
(***************************************************************************)

\* r is a replica of p that has seen all it holds.
Good(r, p) ==
  /\ r \in ReplicaState
  /\ \A q \in Peers : r.frontier[q] <= r.clock
  /\ r.frontier[p] = r.clock
  /\ \A k \in Keys : /\ \A c \in Cols : Seen(r.frontier, r.rows[k].cells[c].version)
                     /\ DeletedWithVersion(r.rows[k])
                     /\ Seen(r.frontier, r.rows[k].delVersion)
                     /\ Seen(r.frontier, r.tombs[k])

\* p made the version v on the way from r to s.
Fresh(r, s, p, v) ==
  v \in Version /\ v.peer = p /\ r.clock < v.counter /\ v.counter <= s.clock

\* A cell of s is the cell of r or was written on the way, with a value of W.
CellGrows(r, s, p, W, k, c) ==
  LET a == r.rows[k].cells[c]
      b == s.rows[k].cells[c]
  IN  a = b \/ (Fresh(r, s, p, b.version) /\ b.value \in W)

\* A row of s is deleted as it is in r, or was deleted on the way.
DeleteGrows(r, s, p, k) ==
  \/ /\ s.rows[k].deleted = r.rows[k].deleted
     /\ s.rows[k].delVersion = r.rows[k].delVersion
     /\ s.tombs[k] = r.tombs[k]
  \/ /\ s.rows[k].deleted
     /\ s.rows[k].delVersion = s.tombs[k]
     /\ Fresh(r, s, p, s.tombs[k])

\* p leads from r to s by writes of its own, of values of W.
Grows(r, s, p, W) ==
  /\ Good(s, p)
  /\ r.clock <= s.clock
  /\ \A q \in Peers : q # p => s.frontier[q] = r.frontier[q]
  /\ \A k \in Keys, c \in Cols : CellGrows(r, s, p, W, k, c)
  /\ \A k \in Keys : DeleteGrows(r, s, p, k)

LEMMA GrowsFromItself ==
  ASSUME NEW r, NEW p, NEW W, Good(r, p)
  PROVE  Grows(r, r, p, W)
<1>1. r.clock \in Nat
  BY ReplicaFields DEF Good
<1>2. \A k \in Keys, c \in Cols : CellGrows(r, r, p, W, k, c)
  BY DEF CellGrows
<1>3. \A k \in Keys : DeleteGrows(r, r, p, k)
  BY DEF DeleteGrows
<1> QED BY <1>1, <1>2, <1>3 DEF Grows

\* The cells and the delete of a row in s, one tick after q: as in q or in r, or
\* with the version of the tick.
CellTicks(r, q, s, p, W, k, c) ==
  \/ s.rows[k].cells[c] \in {r.rows[k].cells[c], q.rows[k].cells[c]}
  \/ /\ s.rows[k].cells[c].version = NextVersion(q, p)
     /\ s.rows[k].cells[c].value \in W

DeleteTicks(r, q, s, p, k) ==
  \/ /\ s.rows[k].deleted = r.rows[k].deleted
     /\ s.rows[k].delVersion = r.rows[k].delVersion
     /\ s.tombs[k] = r.tombs[k]
  \/ /\ s.rows[k].deleted = q.rows[k].deleted
     /\ s.rows[k].delVersion = q.rows[k].delVersion
     /\ s.tombs[k] = q.tombs[k]
  \/ /\ s.rows[k].deleted
     /\ s.rows[k].delVersion = NextVersion(q, p)
     /\ s.tombs[k] = NextVersion(q, p)

LEMMA OneTick ==
  ASSUME NEW r, NEW q, NEW s, NEW p \in Peers, NEW W \in SUBSET Values,
         Good(r, p), Grows(r, q, p, W),
         s \in [rows : [Keys -> Row], tombs : Tombs, clock : Nat, frontier : Frontier],
         s.clock = Tick(q.clock),
         s.frontier = frontier_update(q.frontier, p, Tick(q.clock)),
         \A k \in Keys, c \in Cols : CellTicks(r, q, s, p, W, k, c),
         \A k \in Keys : DeleteTicks(r, q, s, p, k)
  PROVE  Grows(r, s, p, W)
<1> DEFINE v == NextVersion(q, p)
<1>1. Good(q, p) /\ q \in ReplicaState /\ r \in ReplicaState
  BY DEF Grows, Good
<1>2. r.clock \in Nat /\ q.clock \in Nat /\ r.clock <= q.clock
  BY <1>1, ReplicaFields DEF Grows
<1>3. s \in ReplicaState /\ s.clock = q.clock + 1
  BY DEF ReplicaState, Tick
<1>4. v \in Version /\ v.peer = p /\ v.counter = s.clock
  BY <1>2, <1>3 DEF NextVersion, Tick, Version
<1>5. \A x \in Peers : s.frontier[x] = IF x = p THEN s.clock ELSE q.frontier[x]
  <2>1. q.frontier \in Frontier /\ Tick(q.clock) \in Nat
    BY <1>1, <1>2, ReplicaFields DEF Tick
  <2>2. q.frontier[p] <= Tick(q.clock)
    BY <1>1, <1>2 DEF Good, Tick
  <2> QED BY <2>1, <2>2, FrontierUpdate
<1>6. q.frontier \in Frontier /\ r.frontier \in Frontier /\ s.frontier \in Frontier
  BY <1>1, <1>3, ReplicaFields
<1>7. \A x \in Peers : q.frontier[x] \in Nat /\ r.frontier[x] \in Nat
  BY <1>6 DEF Frontier
<1>8. \A x \in Peers : q.frontier[x] <= q.clock /\ r.frontier[x] <= r.clock
  BY <1>1 DEF Good
<1>9. \A x \in Peers : q.frontier[x] <= s.frontier[x] /\ s.frontier[x] <= s.clock
  BY <1>2, <1>3, <1>5, <1>7, <1>8
<1>10. \A x \in Peers : r.frontier[x] <= q.frontier[x]
  BY <1>1, <1>2, <1>7 DEF Grows, Good
<1>11. \A x \in Peers : r.frontier[x] <= s.frontier[x]
  <2>1. \A x \in Peers : s.frontier[x] \in Nat
    BY <1>6 DEF Frontier
  <2> QED BY <1>7, <1>9, <1>10, <2>1
<1>12. \A w \in OptVersion : Seen(q.frontier, w) \/ Seen(r.frontier, w) => Seen(s.frontier, w)
  BY <1>6, <1>9, <1>11, SeenMonotone
<1>13. Seen(s.frontier, v)
  BY <1>2, <1>3, <1>4, <1>5 DEF Seen
<1>14. v \in OptVersion /\ Fresh(r, s, p, v)
  BY <1>2, <1>3, <1>4, VersionIsOpt DEF Fresh
<1>15. \A w : Fresh(r, q, p, w) => Fresh(r, s, p, w)
  <2>1. \A w \in Version : w.counter \in Nat
    BY DEF Version
  <2> QED BY <1>2, <1>3, <2>1 DEF Fresh
<1>16. ASSUME NEW k \in Keys, NEW c \in Cols
       PROVE  CellGrows(r, s, p, W, k, c) /\ Seen(s.frontier, s.rows[k].cells[c].version)
  <2> DEFINE a == r.rows[k].cells[c]
             b == q.rows[k].cells[c]
             d == s.rows[k].cells[c]
  <2>1. a.version \in OptVersion /\ b.version \in OptVersion
    BY <1>1, ReplicaFields, RowFields, CellVersion
  <2>2. Seen(r.frontier, a.version) /\ Seen(q.frontier, b.version)
    BY <1>1 DEF Good
  <2>3. a = b \/ (Fresh(r, q, p, b.version) /\ b.value \in W)
    BY DEF Grows, CellGrows
  <2>4. d \in {a, b} \/ (d.version = v /\ d.value \in W)
    BY DEF CellTicks
  <2>5. Seen(s.frontier, d.version)
    BY <1>12, <1>13, <2>1, <2>2, <2>4
  <2>6. a = d \/ (Fresh(r, s, p, d.version) /\ d.value \in W)
    BY <1>14, <1>15, <2>3, <2>4
  <2> QED BY <2>5, <2>6 DEF CellGrows
<1>17. ASSUME NEW k \in Keys
       PROVE  /\ DeleteGrows(r, s, p, k)
              /\ DeletedWithVersion(s.rows[k])
              /\ Seen(s.frontier, s.rows[k].delVersion)
              /\ Seen(s.frontier, s.tombs[k])
  <2>1. /\ r.tombs[k] \in OptVersion /\ q.tombs[k] \in OptVersion
        /\ r.rows[k].delVersion \in OptVersion /\ q.rows[k].delVersion \in OptVersion
    BY <1>1, ReplicaFields, RowFields
  <2>2. /\ DeletedWithVersion(r.rows[k]) /\ DeletedWithVersion(q.rows[k])
        /\ Seen(r.frontier, r.rows[k].delVersion) /\ Seen(r.frontier, r.tombs[k])
        /\ Seen(q.frontier, q.rows[k].delVersion) /\ Seen(q.frontier, q.tombs[k])
    BY <1>1 DEF Good
  <2>3. CASE /\ s.rows[k].deleted = r.rows[k].deleted
             /\ s.rows[k].delVersion = r.rows[k].delVersion
             /\ s.tombs[k] = r.tombs[k]
    BY <1>12, <2>1, <2>2, <2>3 DEF DeleteGrows, DeletedWithVersion
  <2>4. CASE /\ s.rows[k].deleted = q.rows[k].deleted
             /\ s.rows[k].delVersion = q.rows[k].delVersion
             /\ s.tombs[k] = q.tombs[k]
    <3>1. DeleteGrows(r, q, p, k)
      BY DEF Grows
    <3> QED BY <1>12, <1>15, <2>1, <2>2, <2>4, <3>1 DEF DeleteGrows, DeletedWithVersion
  <2>5. CASE /\ s.rows[k].deleted
             /\ s.rows[k].delVersion = v
             /\ s.tombs[k] = v
    <3>1. v # NoVersion
      BY <1>4, VersionIsOpt
    <3>2. s.rows[k].deleted = TRUE
      BY <1>3, <2>5, ReplicaFields, RowFields
    <3> QED BY <1>13, <1>14, <2>5, <3>1, <3>2 DEF DeleteGrows, DeletedWithVersion
  <2> QED BY <2>3, <2>4, <2>5 DEF DeleteTicks
<1>18. Good(s, p)
  BY <1>3, <1>5, <1>9, <1>16, <1>17 DEF Good
<1>19. r.clock <= s.clock
  BY <1>2, <1>3
<1>20. \A x \in Peers : x # p => s.frontier[x] = r.frontier[x]
  BY <1>5 DEF Grows
<1> QED BY <1>16, <1>17, <1>18, <1>19, <1>20 DEF Grows

-----------------------------------------------------------------------------
(***************************************************************************)
(* The writes of the passes.                                               *)
(***************************************************************************)
LEMMA NullIsNoKey ==
  Null \notin Keys /\ NoCell.value \notin Keys /\ Null \in Values
BY ReferenceAssumption, SchemaAssumption

LEMMA NextIsVersion ==
  ASSUME NEW r \in ReplicaState, NEW p \in Peers
  PROVE  /\ NextVersion(r, p) \in Version
         /\ NextVersion(r, p) \in OptVersion
         /\ NextVersion(r, p) # NoVersion
<1>1. r.clock \in Nat
  BY ReplicaFields
<1>2. NextVersion(r, p) \in Version
  BY <1>1 DEF NextVersion, Tick, Version
<1> QED BY <1>2, VersionIsOpt

\* One tick that writes some rows and some tombstones.
LEMMA WrittenRowsFacts ==
  ASSUME NEW r \in ReplicaState, NEW p \in Peers, NEW S \in SUBSET Keys,
         NEW T \in SUBSET Keys, NEW rows \in [S -> Row], NEW tombs \in [T -> OptVersion]
  PROVE  LET s == WrittenRows(r, p, rows, tombs)
         IN  /\ s \in ReplicaState
             /\ s.clock = Tick(r.clock)
             /\ s.frontier = frontier_update(r.frontier, p, Tick(r.clock))
             /\ \A k \in Keys :
                  /\ s.rows[k] = IF k \in S THEN rows[k] ELSE r.rows[k]
                  /\ s.tombs[k] = IF k \in T THEN tombs[k] ELSE r.tombs[k]
<1> DEFINE s == WrittenRows(r, p, rows, tombs)
           f == frontier_update(r.frontier, p, Tick(r.clock))
<1>1. r.clock \in Nat /\ r.frontier \in Frontier
  BY ReplicaFields
<1>2. Tick(r.clock) \in Nat /\ f \in Frontier
  BY <1>1 DEF Tick, frontier_update, Frontier
<1>3. r.rows \in [Keys -> Row] /\ r.tombs \in [Keys -> OptVersion]
  BY DEF ReplicaState, Tombs
<1>4. Over(rows, r.rows) = [k \in Keys |-> IF k \in S THEN rows[k] ELSE r.rows[k]]
  <2>1. DOMAIN rows = S /\ DOMAIN r.rows = Keys /\ S \cup Keys = Keys
    BY <1>3
  <2> QED BY <2>1 DEF Over
<1>5. Over(tombs, r.tombs) = [k \in Keys |-> IF k \in T THEN tombs[k] ELSE r.tombs[k]]
  <2>1. DOMAIN tombs = T /\ DOMAIN r.tombs = Keys /\ T \cup Keys = Keys
    BY <1>3
  <2> QED BY <2>1 DEF Over
<1>6. Over(rows, r.rows) \in [Keys -> Row]
  BY <1>3, <1>4
<1>7. Over(tombs, r.tombs) \in Tombs
  BY <1>3, <1>5 DEF Tombs
<1>8. s = [rows |-> Over(rows, r.rows), tombs |-> Over(tombs, r.tombs),
           clock |-> Tick(r.clock), frontier |-> f]
  BY DEF WrittenRows
<1> HIDE DEF s, f
<1>9. s \in ReplicaState
  BY <1>2, <1>6, <1>7, <1>8 DEF ReplicaState
<1>10. s.clock = Tick(r.clock) /\ s.frontier = f
  BY <1>8
<1>11. \A k \in Keys : s.rows[k] = IF k \in S THEN rows[k] ELSE r.rows[k]
  BY <1>4, <1>8
<1>12. \A k \in Keys : s.tombs[k] = IF k \in T THEN tombs[k] ELSE r.tombs[k]
  BY <1>5, <1>8
<1> QED BY <1>9, <1>10, <1>11, <1>12 DEF s, f

LEMMA CascadeFacts ==
  ASSUME NEW r \in ReplicaState, NEW p \in Peers, NEW S \in SUBSET Keys
  PROVE  LET s == Cascade(r, p, S)
             v == NextVersion(r, p)
         IN  /\ s \in ReplicaState
             /\ s.clock = Tick(r.clock)
             /\ s.frontier = frontier_update(r.frontier, p, Tick(r.clock))
             /\ \A k \in Keys :
                  /\ s.rows[k] = IF k \in S THEN DeletedRow(r.rows[k], v) ELSE r.rows[k]
                  /\ s.tombs[k] = IF k \in S THEN v ELSE r.tombs[k]
<1> DEFINE v == NextVersion(r, p)
           rows == [k \in S |-> DeletedRow(r.rows[k], v)]
           tombs == [k \in S |-> v]
<1>1. v \in OptVersion
  BY NextIsVersion
<1>2. rows \in [S -> Row] /\ tombs \in [S -> OptVersion]
  <2>1. \A k \in S : r.rows[k] \in Row
    BY ReplicaFields
  <2>2. \A k \in S : DeletedRow(r.rows[k], v) \in Row
    <3> HIDE DEF v
    <3> QED BY <1>1, <2>1 DEF DeletedRow, Row
  <2> QED BY <1>1, <2>2
<1>3. Cascade(r, p, S) = WrittenRows(r, p, rows, tombs)
  BY DEF Cascade
<1>4. \A k \in S : rows[k] = DeletedRow(r.rows[k], v) /\ tombs[k] = v
  OBVIOUS
<1> HIDE DEF rows, tombs, v
<1>5. /\ WrittenRows(r, p, rows, tombs) \in ReplicaState
      /\ WrittenRows(r, p, rows, tombs).clock = Tick(r.clock)
      /\ WrittenRows(r, p, rows, tombs).frontier = frontier_update(r.frontier, p, Tick(r.clock))
      /\ \A k \in Keys :
           /\ WrittenRows(r, p, rows, tombs).rows[k] = IF k \in S THEN rows[k] ELSE r.rows[k]
           /\ WrittenRows(r, p, rows, tombs).tombs[k] = IF k \in S THEN tombs[k] ELSE r.tombs[k]
  BY <1>2, WrittenRowsFacts
<1> QED BY <1>3, <1>4, <1>5 DEF v

LEMMA NulledRowType ==
  ASSUME NEW row \in Row, NEW cols, NEW v \in Version
  PROVE  /\ NulledRow(row, cols, v) \in Row
         /\ NulledRow(row, cols, v).deleted = row.deleted
         /\ NulledRow(row, cols, v).delVersion = row.delVersion
         /\ \A c \in Cols : NulledRow(row, cols, v).cells[c] =
                               IF c \in cols THEN [value |-> Null, version |-> v]
                               ELSE row.cells[c]
<1>1. [value |-> Null, version |-> v] \in Cell
  BY NullIsNoKey DEF Cell
<1>2. /\ row = [cells |-> row.cells, deleted |-> row.deleted, delVersion |-> row.delVersion]
      /\ row.cells \in [Cols -> Cell] /\ row.deleted \in BOOLEAN
      /\ row.delVersion \in OptVersion
  BY DEF Row
<1> DEFINE cells == [c \in Cols |-> IF c \in cols THEN [value |-> Null, version |-> v]
                                   ELSE row.cells[c]]
<1>3. cells \in [Cols -> Cell]
  BY <1>1, <1>2
<1>4. NulledRow(row, cols, v) = [cells |-> cells, deleted |-> row.deleted,
                                delVersion |-> row.delVersion]
  BY <1>2 DEF NulledRow
<1>5. NulledRow(row, cols, v).cells = cells
  BY <1>4
<1>6. NulledRow(row, cols, v) \in Row
  <2> HIDE DEF cells
  <2> QED BY <1>2, <1>3, <1>4 DEF Row
<1> QED BY <1>4, <1>5, <1>6

\* A tick that sets some columns of some rows to NULL, as Orphan and
\* EnforceLoser do.
Nulling(r, p, S, cols) ==
  WrittenRows(r, p, [k \in S |-> NulledRow(r.rows[k], cols, NextVersion(r, p))], <<>>)

LEMMA NullingFacts ==
  ASSUME NEW r \in ReplicaState, NEW p \in Peers, NEW S \in SUBSET Keys, NEW cols
  PROVE  LET s == Nulling(r, p, S, cols)
             v == NextVersion(r, p)
         IN  /\ s \in ReplicaState
             /\ s.clock = Tick(r.clock)
             /\ s.frontier = frontier_update(r.frontier, p, Tick(r.clock))
             /\ \A k \in Keys :
                  /\ s.rows[k] = IF k \in S THEN NulledRow(r.rows[k], cols, v) ELSE r.rows[k]
                  /\ s.tombs[k] = r.tombs[k]
<1> DEFINE v == NextVersion(r, p)
           rows == [k \in S |-> NulledRow(r.rows[k], cols, v)]
           tombs == <<>>
           T == {}
<1>1. v \in Version
  BY NextIsVersion
<1>2. rows \in [S -> Row]
  <2>1. \A k \in S : r.rows[k] \in Row
    BY ReplicaFields
  <2>2. \A k \in S : NulledRow(r.rows[k], cols, v) \in Row
    <3> HIDE DEF v
    <3> QED BY <1>1, <2>1, NulledRowType
  <2> QED BY <2>2
<1>3. tombs \in [T -> OptVersion] /\ T \in SUBSET Keys /\ \A k \in Keys : k \notin T
  OBVIOUS
<1>4. Nulling(r, p, S, cols) = WrittenRows(r, p, rows, tombs)
  BY DEF Nulling
<1>5. \A k \in S : rows[k] = NulledRow(r.rows[k], cols, v)
  OBVIOUS
<1> HIDE DEF rows, tombs, v, T
<1>6. /\ WrittenRows(r, p, rows, tombs) \in ReplicaState
      /\ WrittenRows(r, p, rows, tombs).clock = Tick(r.clock)
      /\ WrittenRows(r, p, rows, tombs).frontier = frontier_update(r.frontier, p, Tick(r.clock))
      /\ \A k \in Keys :
           /\ WrittenRows(r, p, rows, tombs).rows[k] = IF k \in S THEN rows[k] ELSE r.rows[k]
           /\ WrittenRows(r, p, rows, tombs).tombs[k] = IF k \in T THEN tombs[k] ELSE r.tombs[k]
  BY <1>2, <1>3, WrittenRowsFacts
<1> QED BY <1>3, <1>4, <1>5, <1>6 DEF v

LEMMA GrowsTransitive ==
  ASSUME NEW r, NEW q, NEW s, NEW p \in Peers, NEW W,
         Good(r, p), Grows(r, q, p, W), Grows(q, s, p, W)
  PROVE  Grows(r, s, p, W)
<1>1. Good(q, p) /\ Good(s, p)
  BY DEF Grows
<1>2. r.clock \in Nat /\ q.clock \in Nat /\ s.clock \in Nat /\ r.clock <= q.clock /\ q.clock <= s.clock
  BY <1>1, ReplicaFields DEF Good, Grows
<1>3. \A v : /\ Fresh(r, q, p, v) => Fresh(r, s, p, v)
             /\ Fresh(q, s, p, v) => Fresh(r, s, p, v)
  <2>1. \A v \in Version : v.counter \in Nat
    BY DEF Version
  <2> QED BY <1>2, <2>1 DEF Fresh
<1>4. ASSUME NEW k \in Keys, NEW c \in Cols
      PROVE  CellGrows(r, s, p, W, k, c)
  <2>1. CellGrows(r, q, p, W, k, c) /\ CellGrows(q, s, p, W, k, c)
    BY DEF Grows
  <2> QED BY <1>3, <2>1 DEF CellGrows
<1>5. ASSUME NEW k \in Keys
      PROVE  DeleteGrows(r, s, p, k)
  <2>1. DeleteGrows(r, q, p, k) /\ DeleteGrows(q, s, p, k)
    BY DEF Grows
  <2>2. s.rows[k].deleted \in BOOLEAN /\ q.rows[k].deleted \in BOOLEAN
    BY <1>1, ReplicaFields, RowFields DEF Good
  <2> QED BY <1>3, <2>1, <2>2 DEF DeleteGrows
<1>6. r.clock <= s.clock
  BY <1>2
<1>7. \A x \in Peers : x # p => s.frontier[x] = r.frontier[x]
  BY DEF Grows
<1> QED BY <1>1, <1>4, <1>5, <1>6, <1>7 DEF Grows

\* What a pass may change: the live rows and the references in cells only become
\* fewer, one of them does when anything changes, and cells only become NULL.
Links(r) == {w \in Keys \X Cols : r.rows[w[1]].cells[w[2]].value \in Keys}

Shrinks(r, s) ==
  \/ s = r
  \/ /\ LiveRows(s) \subseteq LiveRows(r)
     /\ Links(s) \subseteq Links(r)
     /\ ~(LiveRows(s) = LiveRows(r) /\ Links(s) = Links(r))

\* What a pass leaves alone: the columns of a table that no constraint and no SET
\* NULL reference clears, and the rows of a table without a CASCADE reference.
Spares(r, s) ==
  /\ \A k \in Keys : \A c \in Cols \ Clearable(TableOf[k]) :
       s.rows[k].cells[c] = r.rows[k].cells[c]
  /\ LiveRows(s) \subseteq LiveRows(r)
  /\ \A k \in LiveRows(r) \ LiveRows(s) : Cascaded(TableOf[k])

LEMMA SparesItself ==
  ASSUME NEW r
  PROVE  Spares(r, r)
BY DEF Spares

LEMMA SparesTransitive ==
  ASSUME NEW r, NEW q, NEW s, Spares(r, q), Spares(q, s)
  PROVE  Spares(r, s)
<1>1. \A k \in Keys : \A c \in Cols \ Clearable(TableOf[k]) :
        s.rows[k].cells[c] = r.rows[k].cells[c]
  BY DEF Spares
<1>2. LiveRows(s) \subseteq LiveRows(r)
  BY DEF Spares
<1>3. \A k \in LiveRows(r) \ LiveRows(s) : Cascaded(TableOf[k])
  BY DEF Spares
<1> QED BY <1>1, <1>2, <1>3 DEF Spares

Calms(r, s, p) ==
  /\ s \in ReplicaState
  /\ Shrinks(r, s)
  /\ Spares(r, s)
  /\ Good(r, p) => Grows(r, s, p, {Null})

LEMMA CalmsItself ==
  ASSUME NEW r \in ReplicaState, NEW p
  PROVE  Calms(r, r, p)
BY GrowsFromItself, SparesItself DEF Calms, Shrinks

LEMMA CalmsTransitive ==
  ASSUME NEW r, NEW q, NEW s, NEW p \in Peers, Calms(r, q, p), Calms(q, s, p)
  PROVE  Calms(r, s, p)
<1>1. Good(r, p) => Grows(r, s, p, {Null})
  <2>1. SUFFICES ASSUME Good(r, p) PROVE Grows(r, s, p, {Null})
    OBVIOUS
  <2>2. Grows(r, q, p, {Null})
    BY <2>1 DEF Calms
  <2>3. Grows(q, s, p, {Null})
    BY <2>2 DEF Calms, Grows
  <2> QED BY <2>1, <2>2, <2>3, GrowsTransitive
<1>2. Shrinks(r, s)
  BY DEF Calms, Shrinks
<1>3. Spares(r, s)
  BY SparesTransitive DEF Calms
<1> QED BY <1>1, <1>2, <1>3 DEF Calms

\* There is no way back to a replica once a pass has changed it.
LEMMA CalmsBack ==
  ASSUME NEW r, NEW q, NEW p, Calms(r, q, p), Calms(q, r, p)
  PROVE  q = r
BY DEF Calms, Shrinks

LEMMA DeletedRowFields ==
  ASSUME NEW row, NEW v
  PROVE  /\ DeletedRow(row, v).cells = row.cells
         /\ DeletedRow(row, v).deleted = TRUE
         /\ DeletedRow(row, v).delVersion = v
BY DEF DeletedRow

LEMMA CascadeCalms ==
  ASSUME NEW r \in ReplicaState, NEW p \in Peers, NEW S \in SUBSET LiveRows(r), S # {},
         \A k \in S : Cascaded(TableOf[k])
  PROVE  Calms(r, Cascade(r, p, S), p) /\ Cascade(r, p, S) # r
<1> DEFINE s == Cascade(r, p, S)
           v == NextVersion(r, p)
<1>1. S \in SUBSET Keys
  BY DEF LiveRows
<1>2. /\ s \in ReplicaState
      /\ s.clock = Tick(r.clock)
      /\ s.frontier = frontier_update(r.frontier, p, Tick(r.clock))
      /\ \A k \in Keys :
           /\ s.rows[k] = IF k \in S THEN DeletedRow(r.rows[k], v) ELSE r.rows[k]
           /\ s.tombs[k] = IF k \in S THEN v ELSE r.tombs[k]
  BY <1>1, CascadeFacts
<1> HIDE DEF s, v
<1>3. ASSUME NEW k \in S
      PROVE  /\ s.rows[k].cells = r.rows[k].cells
             /\ s.rows[k].deleted = TRUE
             /\ s.rows[k].delVersion = v
             /\ s.tombs[k] = v
  <2>1. k \in Keys
    BY <1>1
  <2>2. s.rows[k] = DeletedRow(r.rows[k], v) /\ s.tombs[k] = v
    BY <1>2, <2>1
  <2>3. /\ DeletedRow(r.rows[k], v).cells = r.rows[k].cells
        /\ DeletedRow(r.rows[k], v).deleted = TRUE
        /\ DeletedRow(r.rows[k], v).delVersion = v
    BY DeletedRowFields, Zenon
  <2> QED BY <2>2, <2>3
<1>4. \A k \in Keys \ S : s.rows[k] = r.rows[k] /\ s.tombs[k] = r.tombs[k]
  BY <1>2
<1>5. \A k \in Keys : s.rows[k].cells = r.rows[k].cells
  BY <1>3, <1>4
<1>6. LiveRows(s) = LiveRows(r) \ S
  <2>1. \A k \in Keys : Visible(s, k) <=> Visible(r, k) /\ k \notin S
    BY <1>3, <1>4 DEF Visible
  <2> QED BY <2>1 DEF LiveRows
<1>7. Links(s) = Links(r)
  BY <1>5 DEF Links
<1>8. Shrinks(r, s) /\ s # r
  BY <1>6, <1>7 DEF Shrinks
<1>9. ASSUME Good(r, p)
      PROVE  Grows(r, s, p, {Null})
  <2>1. Grows(r, r, p, {Null})
    BY <1>9, GrowsFromItself
  <2>2. \A k \in Keys, c \in Cols : CellTicks(r, r, s, p, {Null}, k, c)
    BY <1>5 DEF CellTicks
  <2>3. \A k \in Keys : DeleteTicks(r, r, s, p, k)
    BY <1>3, <1>4 DEF DeleteTicks, v
  <2>4. s \in [rows : [Keys -> Row], tombs : Tombs, clock : Nat, frontier : Frontier]
    BY <1>2 DEF ReplicaState
  <2>5. {Null} \in SUBSET Values
    BY NullIsNoKey
  <2> QED BY <1>2, <1>9, <2>1, <2>2, <2>3, <2>4, <2>5, OneTick
<1>10. Spares(r, s)
  BY <1>5, <1>6 DEF Spares
<1> QED BY <1>2, <1>8, <1>9, <1>10 DEF Calms, s

\* Nulling columns of visible rows, that refer to other rows or do not.
LEMMA NullingGrows ==
  ASSUME NEW r \in ReplicaState, NEW p \in Peers, NEW S \in SUBSET Keys, NEW cols
  PROVE  /\ Nulling(r, p, S, cols) \in ReplicaState
         /\ Good(r, p) => Grows(r, Nulling(r, p, S, cols), p, {Null})
<1> DEFINE s == Nulling(r, p, S, cols)
           v == NextVersion(r, p)
<1>1. /\ s \in ReplicaState
      /\ s.clock = Tick(r.clock)
      /\ s.frontier = frontier_update(r.frontier, p, Tick(r.clock))
      /\ \A k \in Keys :
           /\ s.rows[k] = IF k \in S THEN NulledRow(r.rows[k], cols, v) ELSE r.rows[k]
           /\ s.tombs[k] = r.tombs[k]
  BY NullingFacts
<1>2. ASSUME NEW k \in S
      PROVE  /\ s.rows[k].deleted = r.rows[k].deleted
             /\ s.rows[k].delVersion = r.rows[k].delVersion
             /\ \A c \in Cols : s.rows[k].cells[c] = IF c \in cols
                                                    THEN [value |-> Null, version |-> v]
                                                    ELSE r.rows[k].cells[c]
  <2>1. r.rows[k] \in Row /\ v \in Version /\ s.rows[k] = NulledRow(r.rows[k], cols, v)
    BY <1>1, ReplicaFields, NextIsVersion
  <2> HIDE DEF s, v
  <2> QED BY <2>1, NulledRowType
<1>3. \A k \in Keys \ S : s.rows[k] = r.rows[k]
  BY <1>1
<1>4. ASSUME Good(r, p)
      PROVE  Grows(r, s, p, {Null})
  <2> HIDE DEF s
  <2>1. Grows(r, r, p, {Null})
    BY <1>4, GrowsFromItself
  <2>2. ASSUME NEW k \in Keys, NEW c \in Cols
        PROVE  CellTicks(r, r, s, p, {Null}, k, c)
    <3>1. CASE k \in S /\ c \in cols
      <4>1. s.rows[k].cells[c] = [value |-> Null, version |-> v]
        BY <1>2, <3>1
      <4>2. s.rows[k].cells[c].value = Null /\ s.rows[k].cells[c].version = v
        BY <4>1
      <4> QED BY <4>2 DEF CellTicks
    <3>2. CASE ~(k \in S /\ c \in cols)
      <4>1. s.rows[k].cells[c] = r.rows[k].cells[c]
        BY <1>2, <1>3, <3>2
      <4> QED BY <4>1 DEF CellTicks
    <3> QED BY <3>1, <3>2
  <2>3. \A k \in Keys : DeleteTicks(r, r, s, p, k)
    BY <1>1, <1>2, <1>3 DEF DeleteTicks
  <2>4. s \in [rows : [Keys -> Row], tombs : Tombs, clock : Nat, frontier : Frontier]
    BY <1>1 DEF ReplicaState
  <2>5. {Null} \in SUBSET Values
    BY NullIsNoKey
  <2> QED BY <1>1, <1>4, <2>1, <2>2, <2>3, <2>4, <2>5, OneTick
<1> QED BY <1>1, <1>4

\* Column c may be set to NULL in the rows of S.
CanClear(S, c) == \A k \in S : c \in Clearable(TableOf[k])

LEMMA OrphanCalms ==
  ASSUME NEW r \in ReplicaState, NEW p \in Peers, NEW c \in Cols,
         NEW S \in SUBSET LiveRows(r), S # {},
         \A k \in S : r.rows[k].cells[c].value \in Keys, CanClear(S, c)
  PROVE  Calms(r, Orphan(r, p, S, c), p) /\ Orphan(r, p, S, c) # r
<1> DEFINE cols == {c}
           s == Nulling(r, p, S, cols)
           v == NextVersion(r, p)
<1>1. S \in SUBSET Keys
  BY DEF LiveRows
<1>2. Orphan(r, p, S, c) = s
  BY DEF Orphan, Nulling
<1>3. /\ s \in ReplicaState
      /\ \A k \in Keys :
           /\ s.rows[k] = IF k \in S THEN NulledRow(r.rows[k], cols, v) ELSE r.rows[k]
           /\ s.tombs[k] = r.tombs[k]
  <2> HIDE DEF cols, s
  <2> QED BY <1>1, NullingFacts DEF s, v
<1>4. Good(r, p) => Grows(r, s, p, {Null})
  <2> HIDE DEF cols
  <2> QED BY <1>1, NullingGrows
<1>5. ASSUME NEW k \in S
      PROVE  /\ s.rows[k].deleted = r.rows[k].deleted
             /\ s.rows[k].cells[c].value = Null
             /\ \A d \in Cols \ {c} : s.rows[k].cells[d] = r.rows[k].cells[d]
             /\ s.rows[k] # NoRow
  <2>1. r.rows[k] \in Row /\ v \in Version /\ s.rows[k] = NulledRow(r.rows[k], cols, v)
    BY <1>1, <1>3, ReplicaFields, NextIsVersion
  <2>2. /\ s.rows[k].deleted = r.rows[k].deleted
        /\ \A d \in Cols : s.rows[k].cells[d] = IF d \in cols
                                                THEN [value |-> Null, version |-> v]
                                                ELSE r.rows[k].cells[d]
    <3> HIDE DEF s, v, cols
    <3> QED BY <2>1, NulledRowType
  <2>3. s.rows[k].cells[c] = [value |-> Null, version |-> v]
    BY <2>2
  <2>4. s.rows[k].cells[c].value = Null /\ s.rows[k].cells[c].version = v
    BY <2>3
  <2>5. s.rows[k] # NoRow
    <3>1. NoRow.cells[c].version = NoVersion
      BY DEF NoRow, NoCell
    <3> QED BY <2>4, <3>1, NextIsVersion
  <2> QED BY <2>2, <2>4, <2>5
<1>6. \A k \in Keys \ S : s.rows[k] = r.rows[k]
  BY <1>3
<1> HIDE DEF s
<1>7. LiveRows(s) \subseteq LiveRows(r)
  BY <1>5, <1>6 DEF LiveRows, Visible
<1>8. \A k \in Keys, d \in Cols :
        s.rows[k].cells[d].value \in Keys => r.rows[k].cells[d].value \in Keys
  BY <1>5, <1>6, NullIsNoKey
<1>9. PICK j : j \in S
  OBVIOUS
<1>10. <<j, c>> \in Links(r) /\ <<j, c>> \notin Links(s)
  <2>1. j \in Keys /\ <<j, c>> \in Keys \X Cols /\ <<j, c>>[1] = j /\ <<j, c>>[2] = c
    BY <1>1, <1>9
  <2>2. r.rows[j].cells[c].value \in Keys /\ s.rows[j].cells[c].value \notin Keys
    BY <1>5, <1>9, NullIsNoKey
  <2> QED BY <2>1, <2>2 DEF Links
<1>11. Links(s) \subseteq Links(r)
  BY <1>8 DEF Links
<1>12. Shrinks(r, s) /\ s # r
  BY <1>7, <1>10, <1>11 DEF Shrinks
<1>13. Spares(r, s)
  <2>1. \A k \in Keys : \A d \in Cols \ Clearable(TableOf[k]) :
          s.rows[k].cells[d] = r.rows[k].cells[d]
    BY <1>5, <1>6 DEF CanClear
  <2>2. LiveRows(s) = LiveRows(r)
    <3>1. \A k \in Keys : Visible(s, k) <=> Visible(r, k)
      <4>1. \A k \in S : Visible(r, k)
        BY DEF LiveRows
      <4> QED BY <1>5, <1>6, <4>1 DEF Visible
    <3> QED BY <3>1 DEF LiveRows
  <2> QED BY <2>1, <2>2 DEF Spares
<1> QED BY <1>2, <1>3, <1>4, <1>12, <1>13 DEF Calms

-----------------------------------------------------------------------------
(***************************************************************************)
(* The cascade.                                                            *)
(***************************************************************************)

\* Concatenation of a sequence of sequences.
LEMMA FlattenElements ==
  ASSUME NEW E, NEW n \in Nat, NEW s \in [1..n -> Seq(E)]
  PROVE  /\ FlattenSeq(s) \in Seq(E)
         /\ ToSet(FlattenSeq(s)) = UNION {ToSet(s[i]) : i \in 1..n}
<1>1. s \in Seq(Seq(E)) /\ Len(s) = n
  OBVIOUS
<1>2. CASE n = 0
  <2>1. FlattenSeq(s) = s /\ s = <<>>
    BY <1>1, <1>2 DEF FlattenSeq
  <2> QED BY <1>2, <2>1 DEF ToSet
<1>3. CASE n # 0
  <2> DEFINE A == Seq(E)
             h == [i \in 1..n |-> [a \in A |-> a \o s[i]]]
             U(i) == UNION {ToSet(s[j]) : j \in 1..i}
             Inv == [i \in 0..n |-> {a \in A : ToSet(a) = U(i)}]
             F == CHOOSE f : f = [i \in 1..Len(s) |-> IF i = 1 THEN s[i] ELSE f[i - 1] \o s[i]]
  <2>1. \A a \in A, i \in 1..n : a \o s[i] \in A /\ ToSet(a \o s[i]) = ToSet(a) \cup ToSet(s[i])
    BY ConcatElements
  <2>2. <<>> \in A /\ ToSet(<<>>) = {}
    BY DEF ToSet
  <2>3. h \in [1..n -> [A -> A]] /\ \A i \in 1..n, a \in A : h[i][a] = a \o s[i]
    BY <2>1
  <2>4. IsStep(n, A, <<>>, h)
    <3> HIDE DEF A, h
    <3> QED BY <2>2, <2>3 DEF IsStep
  <2>5. PICK f \in [SUBSET (1..n) -> A] : IsFold(f, n, <<>>, h)
    <3>1. HasFold(n, A, <<>>, h)
      BY <2>4, FoldExists
    <3> QED BY <3>1 DEF HasFold
  <2>6. IsFoldIn(f, n, A, <<>>, h)
    <3> HIDE DEF A, h
    <3> QED BY <2>4, <2>5 DEF IsFold, IsFoldIn
  <2>7. PICK g \in [0..n -> A] : /\ g[0] = <<>>
                                 /\ \A i \in 1..n : g[i] = h[i][g[i - 1]]
    <3>1. HasChain(n, A, <<>>, h, f[1..n])
      BY <2>6, FoldChain
    <3> QED BY <3>1 DEF HasChain
  <2> HIDE DEF A, h
  <2>8. \A i \in 1..n : g[i - 1] \in A /\ g[i] \in A /\ g[i] = g[i - 1] \o s[i]
    <3>1. \A i \in 1..n : i - 1 \in 0..n /\ i \in 0..n
      OBVIOUS
    <3> QED BY <2>3, <2>7, <3>1
  <2> DEFINE G == [i \in 1..n |-> g[i]]
  <2>9. G = [i \in 1..Len(s) |-> IF i = 1 THEN s[i] ELSE G[i - 1] \o s[i]]
    <3>1. ASSUME NEW i \in 1..n
          PROVE  g[i] = IF i = 1 THEN s[i] ELSE G[i - 1] \o s[i]
      <4>1. CASE i = 1
        <5>1. <<>> \o s[i] = s[i]
          OBVIOUS
        <5>2. g[i - 1] = <<>>
          <6>1. i - 1 = 0
            BY <4>1
          <6> QED BY <2>7, <6>1
        <5>3. g[i] = <<>> \o s[i]
          BY <2>8, <5>2
        <5>4. g[i] = s[i]
          BY <5>1, <5>3, Zenon
        <5> QED BY <4>1, <5>4
      <4>2. CASE i # 1
        <5>1. i - 1 \in 1..n
          BY <4>2
        <5> QED BY <2>8, <4>2, <5>1
      <4> QED BY <4>1, <4>2
    <3> QED BY <1>1, <3>1
  <2>10. F = [i \in 1..Len(s) |-> IF i = 1 THEN s[i] ELSE F[i - 1] \o s[i]]
    <3> HIDE DEF G
    <3> QED BY <2>9
  <2>11. FlattenSeq(s) = F[n]
    BY <1>1, <1>3 DEF FlattenSeq
  <2> HIDE DEF F
  <2>12. /\ F[1] = s[1]
         /\ \A i \in 1..n : i # 1 => F[i] = F[i - 1] \o s[i]
    <3>1. \A i \in 1..n : F[i] = IF i = 1 THEN s[i] ELSE F[i - 1] \o s[i]
      BY <1>1, <2>10
    <3>2. 1 \in 1..n
      BY <1>3
    <3> QED BY <3>1, <3>2
  <2> DEFINE F0 == [i \in 0..n |-> IF i = 0 THEN <<>> ELSE F[i]]
  <2>13. F0[0] \in Inv[0]
    <3>1. U(0) = {}
      OBVIOUS
    <3>2. 0 \in 0..n
      OBVIOUS
    <3> HIDE DEF U
    <3> QED BY <2>2, <3>1, <3>2
  <2>14. ASSUME NEW i \in 1..n, F0[i - 1] \in Inv[i - 1]
         PROVE  F0[i] \in Inv[i]
    <3>1. i \in 0..n /\ i - 1 \in 0..n /\ i # 0
      OBVIOUS
    <3>2. F0[i - 1] \in A /\ ToSet(F0[i - 1]) = U(i - 1)
      BY <2>14, <3>1
    <3>3. F0[i] = F0[i - 1] \o s[i]
      <4>1. CASE i = 1
        <5>1. F0[i - 1] = <<>> /\ F0[i] = F[1] /\ <<>> \o s[i] = s[i]
          BY <3>1, <4>1
        <5> QED BY <2>12, <4>1, <5>1
      <4>2. CASE i # 1
        <5>1. F0[i - 1] = F[i - 1] /\ F0[i] = F[i]
          BY <3>1, <4>2
        <5> QED BY <2>12, <4>2, <5>1
      <4> QED BY <4>1, <4>2
    <3>4. U(i) = U(i - 1) \cup ToSet(s[i])
      <4>1. 1..i = 1..(i - 1) \cup {i}
        OBVIOUS
      <4> QED BY <4>1
    <3> HIDE DEF F0, U
    <3>5. F0[i] \in A /\ ToSet(F0[i]) = U(i)
      BY <2>1, <3>2, <3>3, <3>4
    <3> QED BY <3>1, <3>5
  <2>15. F0[n] \in Inv[n]
    <3>1. n \in 0..n
      OBVIOUS
    <3> HIDE DEF F0, Inv
    <3> QED BY <2>13, <2>14, <3>1, ChainStaysIn
  <2>16. F0[n] = F[n] /\ n \in 0..n
    BY <1>3
  <2> HIDE DEF F0
  <2>17. F[n] \in A /\ ToSet(F[n]) = U(n)
    BY <2>15, <2>16
  <2> QED BY <2>11, <2>17 DEF A
<1> QED BY <1>2, <1>3

LEMMA TablesCovered ==
  /\ Len(TableOrder) \in Nat /\ DOMAIN TableOrder = 1..Len(TableOrder)
  /\ \A i \in 1..Len(TableOrder) : TableOrder[i] \in Tables
  /\ \A t \in Tables : \E i \in 1..Len(TableOrder) : t = TableOrder[i]
<1>1. TableOrder \in Seq(Tables)
  BY SchemaAssumption
<1> QED BY <1>1 DEF Tables, ToSet

LEMMA ForeignKeyDefsType == ForeignKeyDefs \in Seq(ForeignKeyDef)
<1> DEFINE n == Len(TableOrder)
           s == [i \in 1..n |-> Schemas[TableOrder[i]].foreignKeys]
<1>1. n \in Nat /\ DOMAIN TableOrder = 1..n /\ \A i \in 1..n : TableOrder[i] \in Tables
  BY TablesCovered
<1>2. \A t \in Tables : Schemas[t].foreignKeys \in Seq(ForeignKeyDef)
  BY SchemaAssumption
<1>3. s \in [1..n -> Seq(ForeignKeyDef)]
  BY <1>1, <1>2
<1>4. ForeignKeyDefs = FlattenSeq(s)
  BY <1>1 DEF ForeignKeyDefs
<1> HIDE DEF s, n
<1> QED BY <1>1, <1>3, <1>4, FlattenElements

LEMMA ForeignKeyFields ==
  ASSUME NEW fk \in ForeignKeyDef
  PROVE  fk.table \in Tables /\ fk.column \in Cols /\ fk.ref_table \in Tables
BY DEF ForeignKeyDef

LEMMA ForeignKeysToFacts ==
  ASSUME NEW t
  PROVE  /\ ForeignKeysTo(t) \in Seq(ForeignKeyDef)
         /\ ToSet(ForeignKeysTo(t)) = {fk \in ToSet(ForeignKeyDefs) : fk.ref_table = t}
<1> DEFINE S == {fk \in ToSet(ForeignKeyDefs) : fk.ref_table = t}
<1>1. ToSet(ForeignKeyDefs) \cap S = S
  OBVIOUS
<1>2. ForeignKeysTo(t) = Kept(ForeignKeyDefs, S)
  BY DEF ForeignKeysTo
<1> HIDE DEF S
<1>3. /\ Kept(ForeignKeyDefs, S) \in Seq(ForeignKeyDef)
      /\ ToSet(Kept(ForeignKeyDefs, S)) = ToSet(ForeignKeyDefs) \cap S
  BY ForeignKeyDefsType, KeptFacts
<1> QED BY <1>1, <1>2, <1>3 DEF S

\* A foreign key that finds rows to cascade to changes the replica.
LEMMA PolicyCalms ==
  ASSUME NEW r \in ReplicaState, NEW p \in Peers, NEW fk \in ToSet(ForeignKeyDefs),
         NEW dead, DOMAIN dead \subseteq Keys
  PROVE  LET s == ApplyPolicy(r, p, fk, Affected(r, dead, fk))
         IN  /\ Calms(r, s, p)
             /\ s = r /\ fk.on_delete \in {"Cascade", "Orphan"} => Affected(r, dead, fk) = {}
<1> DEFINE S == Affected(r, dead, fk)
           s == ApplyPolicy(r, p, fk, S)
<1>1. S \in SUBSET LiveRows(r)
  BY DEF Affected, LiveRows, RowsOf
<1>2. \A k \in S : r.rows[k].cells[fk.column].value \in Keys
  BY DEF Affected
<1>3. fk.column \in Cols
  <2>1. fk \in ForeignKeyDef
    BY ForeignKeyDefsType DEF ToSet
  <2> QED BY <2>1, ForeignKeyFields
<1>4. \A k \in S : TableOf[k] = fk.table
  BY DEF Affected, RowsOf
<1> HIDE DEF S
<1>5. CASE S # {} /\ fk.on_delete = "Cascade"
  <2>1. s = Cascade(r, p, S)
    BY <1>5 DEF ApplyPolicy
  <2>2. \A k \in S : Cascaded(TableOf[k])
    BY <1>4, <1>5 DEF Cascaded
  <2>3. Calms(r, Cascade(r, p, S), p) /\ Cascade(r, p, S) # r
    BY <1>1, <1>5, <2>2, CascadeCalms
  <2> QED BY <1>5, <2>1, <2>3 DEF S
<1>6. CASE S # {} /\ fk.on_delete = "Orphan"
  <2> DEFINE c == fk.column
  <2>1. s = Orphan(r, p, S, c)
    BY <1>6 DEF ApplyPolicy
  <2>2. CanClear(S, c)
    <3> DEFINE t == fk.table
               X == {g \in ToSet(ForeignKeyDefs) : g.table = t /\ g.on_delete = "Orphan"}
    <3>1. fk \in X
      BY <1>6
    <3>2. Clearable(t) = (UNION Schemas[t].unique) \cup {g.column : g \in X}
      BY DEF Clearable
    <3> HIDE DEF X
    <3>3. c \in {g.column : g \in X}
      BY <3>1
    <3>4. c \in Clearable(t)
      BY <3>2, <3>3
    <3> QED BY <1>4, <3>4 DEF CanClear
  <2>3. c \in Cols /\ \A k \in S : r.rows[k].cells[c].value \in Keys
    BY <1>2, <1>3
  <2> HIDE DEF c
  <2>4. Calms(r, Orphan(r, p, S, c), p) /\ Orphan(r, p, S, c) # r
    BY <1>1, <1>6, <2>2, <2>3, OrphanCalms
  <2> QED BY <1>6, <2>1, <2>4 DEF S
<1>7. CASE S = {} \/ fk.on_delete \notin {"Cascade", "Orphan"}
  <2>1. s = r
    BY <1>7 DEF ApplyPolicy
  <2> QED BY <1>7, <2>1, CalmsItself DEF S
<1> QED BY <1>5, <1>6, <1>7

\* The foreign key finds nothing to cascade.
Quiet(r, dead, fk) == fk.on_delete \in {"Cascade", "Orphan"} => Affected(r, dead, fk) = {}

QuietFrom(r, t) == \A fk \in ToSet(ForeignKeysTo(t)) : Quiet(r, Tombstones(r, t), fk)

\* A pass over one parent table only calms the replica; if it changes nothing,
\* none of its steps did.
LEMMA CascadeDeadCalms ==
  ASSUME NEW r \in ReplicaState, NEW p \in Peers, NEW t, NEW dead, DOMAIN dead \subseteq Keys
  PROVE  LET s == CascadeDead(r, p, t, dead)
         IN  /\ Calms(r, s, p)
             /\ s = r => \A fk \in ToSet(ForeignKeysTo(t)) : Quiet(r, dead, fk)
<1> DEFINE fks == ForeignKeysTo(t)
           n == Len(fks)
           step(q, fk) == ApplyPolicy(q, p, fk, Affected(q, dead, fk))
           A == {q \in ReplicaState : Calms(r, q, p)}
           Inv == [i \in 0..n |->
                     {q \in A : q = r => \A fk \in FirstOf(fks, i) : Quiet(r, dead, fk)}]
<1>1. fks \in Seq(ForeignKeyDef) /\ ToSet(fks) \subseteq ToSet(ForeignKeyDefs)
  BY ForeignKeysToFacts
<1> HIDE DEF fks
<1>2. n \in Nat /\ \A i \in 1..n : fks[i] \in ToSet(ForeignKeyDefs)
  BY <1>1 DEF ToSet
<1>3. ASSUME NEW q \in A, NEW fk \in ToSet(ForeignKeyDefs)
      PROVE  /\ Calms(q, step(q, fk), p)
             /\ step(q, fk) \in A
             /\ step(q, fk) = r => q = r /\ Quiet(r, dead, fk)
  <2> DEFINE s == step(q, fk)
  <2>1. Calms(q, s, p) /\ (s = q => Quiet(q, dead, fk))
    <3>1. /\ Calms(q, s, p)
          /\ s = q /\ fk.on_delete \in {"Cascade", "Orphan"} => Affected(q, dead, fk) = {}
      BY PolicyCalms
    <3> QED BY <3>1 DEF Quiet
  <2> HIDE DEF s
  <2>2. Calms(r, q, p) /\ Calms(r, s, p) /\ s \in ReplicaState
    BY <2>1, CalmsTransitive DEF Calms
  <2>3. s = r => q = r
    BY <2>1, <2>2, CalmsBack
  <2> QED BY <2>1, <2>2, <2>3 DEF s
<1>4. r \in A
  BY CalmsItself
<1>5. PICK g \in [0..n -> A] : /\ g[0] = r
                               /\ \A i \in 1..n : g[i] = step(g[i - 1], fks[i])
                               /\ g[n] = CascadeDead(r, p, t, dead)
  <2>1. \A a \in A, i \in 1..Len(fks) :
          ApplyPolicy(a, p, fks[i], Affected(a, dead, fks[i])) \in A
    BY <1>2, <1>3
  <2>2. fks = ForeignKeysTo(t)
    BY DEF fks
  <2>3. PICK last : last = CascadeDead(r, p, t, dead)
    OBVIOUS
  <2> HIDE DEF A, Inv
  <2> QED BY <1>1, <1>4, <2>1, <2>2, <2>3, CascadeDeadChain
<1> HIDE DEF step
<1>6. g[0] \in Inv[0]
  <2>1. 0 \in 0..n /\ FirstOf(fks, 0) = {}
    BY <1>2 DEF FirstOf
  <2> QED BY <1>4, <1>5, <2>1
<1>7. ASSUME NEW i \in 1..n, g[i - 1] \in Inv[i - 1]
      PROVE  g[i] \in Inv[i]
  <2>1. i - 1 \in 0..n /\ i \in 0..n /\ i \in Nat /\ i # 0
    BY <1>2
  <2>2. /\ g[i - 1] \in A
        /\ g[i - 1] = r => \A fk \in FirstOf(fks, i - 1) : Quiet(r, dead, fk)
    BY <1>7, <2>1
  <2>3. FirstOf(fks, i) = FirstOf(fks, i - 1) \cup {fks[i]}
    BY <2>1, FirstOfNext
  <2>4. g[i] = step(g[i - 1], fks[i]) /\ fks[i] \in ToSet(ForeignKeyDefs)
    BY <1>2, <1>5
  <2>5. g[i] \in A /\ (g[i] = r => g[i - 1] = r /\ Quiet(r, dead, fks[i]))
    <3> HIDE DEF A, Inv
    <3> QED BY <1>3, <2>2, <2>4
  <2>6. g[i] = r => \A fk \in FirstOf(fks, i) : Quiet(r, dead, fk)
    BY <2>2, <2>3, <2>5
  <2> QED BY <2>1, <2>5, <2>6
<1>8. g[n] \in Inv[n]
  <2>1. n \in 0..n
    BY <1>2
  <2> HIDE DEF Inv
  <2> QED BY <1>2, <1>6, <1>7, <2>1, ChainStaysIn
<1>9. FirstOf(fks, n) = ToSet(fks) /\ n \in 0..n
  BY <1>1, <1>2, FirstOfAll
<1> HIDE DEF n
<1>10. /\ CascadeDead(r, p, t, dead) \in A
       /\ CascadeDead(r, p, t, dead) = r => \A fk \in ToSet(fks) : Quiet(r, dead, fk)
  BY <1>5, <1>8, <1>9
<1> QED BY <1>10 DEF fks

LEMMA CascadeFromCalms ==
  ASSUME NEW r \in ReplicaState, NEW p \in Peers, NEW t
  PROVE  LET s == CascadeFrom(r, p, t)
         IN  Calms(r, s, p) /\ (s = r => QuietFrom(r, t))
<1> DEFINE dead == Tombstones(r, t)
<1>1. DOMAIN dead \subseteq Keys
  BY DEF Tombstones, RowsOf
<1>2. CASE DOMAIN dead = {}
  <2>1. CascadeFrom(r, p, t) = r
    BY <1>2 DEF CascadeFrom
  <2>2. QuietFrom(r, t)
    BY <1>2 DEF QuietFrom, Quiet, Affected
  <2> QED BY <2>1, <2>2, CalmsItself
<1>3. CASE DOMAIN dead # {}
  <2>1. CascadeFrom(r, p, t) = CascadeDead(r, p, t, dead)
    BY <1>3 DEF CascadeFrom
  <2>2. Calms(r, CascadeDead(r, p, t, dead), p)
        /\ (CascadeDead(r, p, t, dead) = r
              => \A fk \in ToSet(ForeignKeysTo(t)) : Quiet(r, dead, fk))
    <3> HIDE DEF dead
    <3> QED BY <1>1, CascadeDeadCalms
  <2> QED BY <2>1, <2>2 DEF QuietFrom
<1> QED BY <1>2, <1>3

\* No foreign key of any table finds anything to cascade.
NothingToCascade(r) == \A t \in Tables : QuietFrom(r, t)

\* A pass over all tables that changes nothing found nothing to cascade.
LEMMA CascadePassCalms ==
  ASSUME NEW r \in ReplicaState, NEW p \in Peers
  PROVE  LET s == CascadePass(r, p)
         IN  Calms(r, s, p) /\ (s = r => NothingToCascade(r))
<1> DEFINE n == Len(TableOrder)
           A == {q \in ReplicaState : Calms(r, q, p)}
           Inv == [i \in 0..n |->
                     {q \in A : q = r => \A t \in FirstOf(TableOrder, i) : QuietFrom(r, t)}]
<1>1. TableOrder \in Seq(Tables)
  BY SchemaAssumption
<1>2. n \in Nat /\ \A i \in 1..n : TableOrder[i] \in Tables
  BY <1>1
<1>3. ASSUME NEW q \in A, NEW t
      PROVE  /\ CascadeFrom(q, p, t) \in A
             /\ CascadeFrom(q, p, t) = r => q = r /\ QuietFrom(r, t)
  <2> DEFINE s == CascadeFrom(q, p, t)
  <2>1. Calms(q, s, p) /\ (s = q => QuietFrom(q, t))
    BY CascadeFromCalms
  <2> HIDE DEF s
  <2>2. Calms(r, q, p) /\ Calms(r, s, p) /\ s \in ReplicaState
    BY <2>1, CalmsTransitive DEF Calms
  <2>3. s = r => q = r
    BY <2>1, <2>2, CalmsBack
  <2> QED BY <2>1, <2>2, <2>3 DEF s
<1>4. r \in A
  BY CalmsItself
<1>5. PICK g \in [0..n -> A] : /\ g[0] = r
                               /\ \A i \in 1..n : g[i] = CascadeFrom(g[i - 1], p, TableOrder[i])
                               /\ g[n] = CascadePass(r, p)
  <2>1. \A a \in A, i \in 1..Len(TableOrder) : CascadeFrom(a, p, TableOrder[i]) \in A
    BY <1>2, <1>3
  <2> HIDE DEF A, Inv
  <2> QED BY <1>1, <1>4, <2>1, CascadePassChain
<1>6. g[0] \in Inv[0]
  <2>1. 0 \in 0..n /\ FirstOf(TableOrder, 0) = {}
    BY <1>2 DEF FirstOf
  <2> QED BY <1>4, <1>5, <2>1
<1>7. ASSUME NEW i \in 1..n, g[i - 1] \in Inv[i - 1]
      PROVE  g[i] \in Inv[i]
  <2>1. i - 1 \in 0..n /\ i \in 0..n /\ i \in Nat /\ i # 0
    BY <1>2
  <2>2. /\ g[i - 1] \in A
        /\ g[i - 1] = r => \A t \in FirstOf(TableOrder, i - 1) : QuietFrom(r, t)
    BY <1>7, <2>1
  <2>3. FirstOf(TableOrder, i) = FirstOf(TableOrder, i - 1) \cup {TableOrder[i]}
    BY <2>1, FirstOfNext
  <2>4. g[i] = CascadeFrom(g[i - 1], p, TableOrder[i])
    BY <1>5
  <2>5. g[i] \in A /\ (g[i] = r => g[i - 1] = r /\ QuietFrom(r, TableOrder[i]))
    <3> HIDE DEF A, Inv
    <3> QED BY <1>3, <2>2, <2>4
  <2>6. g[i] = r => \A t \in FirstOf(TableOrder, i) : QuietFrom(r, t)
    BY <2>2, <2>3, <2>5
  <2> QED BY <2>1, <2>5, <2>6
<1>8. g[n] \in Inv[n]
  <2>1. n \in 0..n
    BY <1>2
  <2> HIDE DEF Inv
  <2> QED BY <1>2, <1>6, <1>7, <2>1, ChainStaysIn
<1>9. FirstOf(TableOrder, n) = ToSet(TableOrder) /\ n \in 0..n
  BY <1>1, <1>2, FirstOfAll
<1> HIDE DEF n
<1>10. /\ CascadePass(r, p) \in A
       /\ CascadePass(r, p) = r => \A t \in ToSet(TableOrder) : QuietFrom(r, t)
  BY <1>5, <1>8, <1>9
<1> QED BY <1>10 DEF NothingToCascade, Tables

\* A recursion that descends a bounded rank until N changes nothing.
IsSettling(f, X, N) == f = [x \in X |-> IF N[x] = x THEN x ELSE f[N[x]]]

LEMMA SettlingExists ==
  ASSUME NEW X, NEW N \in [X -> X], NEW b \in Nat, NEW rank \in [X -> 0..b],
         \A x \in X : N[x] # x => rank[N[x]] < rank[x]
  PROVE  \E f : IsSettling(f, X, N)
<1> DEFINE D(m) == {x \in X : rank[x] <= m}
           Fs(m) == {f \in [D(m) -> X] :
                       \A x \in D(m) : f[x] = IF N[x] = x THEN x ELSE f[N[x]]}
           S == {m \in 0..b : Fs(m) = {}}
<1>1. ASSUME S # {} PROVE FALSE
  <2>1. S \in SUBSET Nat
    OBVIOUS
  <2>2. PICK m \in S : \A y \in S : m <= y
    <3>1. Min(S) \in S /\ \A y \in S : Min(S) <= y
      <4> HIDE DEF S
      <4> QED BY <1>1, <2>1, MinIsLeast
    <3> QED BY <3>1
  <2>3. m \in 0..b /\ Fs(m) = {}
    BY <2>2
  <2>4. CASE m = 0
    <3>1. \A x \in D(m) : N[x] = x
      BY <2>4
    <3>2. [x \in D(m) |-> x] \in Fs(m)
      BY <3>1
    <3> QED BY <2>3, <3>2
  <2>5. CASE m # 0
    <3>1. m - 1 \in 0..b /\ m - 1 < m
      BY <2>3, <2>5
    <3>2. m - 1 \notin S
      <4> HIDE DEF S
      <4> QED BY <2>1, <2>2, <3>1
    <3>3. Fs(m - 1) # {}
      <4> HIDE DEF Fs
      <4> QED BY <3>1, <3>2
    <3>4. PICK f \in [D(m - 1) -> X] :
            \A x \in D(m - 1) : f[x] = IF N[x] = x THEN x ELSE f[N[x]]
      BY <3>3
    <3> DEFINE g == [x \in D(m) |-> IF x \in D(m - 1) THEN f[x]
                                   ELSE IF N[x] = x THEN x ELSE f[N[x]]]
    <3>5. \A x \in D(m) : N[x] # x => N[x] \in D(m - 1)
      BY <2>3
    <3>6. D(m - 1) \subseteq D(m) /\ D(m) \subseteq X
      BY <2>3
    <3> HIDE DEF D
    <3>7. g \in [D(m) -> X]
      BY <3>4, <3>5, <3>6
    <3>8. ASSUME NEW x \in D(m)
          PROVE  g[x] = IF N[x] = x THEN x ELSE g[N[x]]
      <4>1. CASE N[x] = x
        BY <3>4, <4>1
      <4>2. CASE N[x] # x
        <5>1. N[x] \in D(m - 1) /\ N[x] \in D(m)
          BY <3>5, <3>6, <4>2
        <5>2. g[N[x]] = f[N[x]]
          BY <5>1
        <5>3. g[x] = f[N[x]]
          BY <3>4, <4>2
        <5> QED BY <4>2, <5>2, <5>3
      <4> QED BY <4>1, <4>2
    <3> HIDE DEF g
    <3>9. g \in Fs(m)
      BY <3>7, <3>8
    <3> QED BY <2>3, <3>9
  <2> QED BY <2>4, <2>5
<1>2. D(b) = X /\ b \in 0..b
  OBVIOUS
<1>3. Fs(b) # {}
  <2> HIDE DEF Fs
  <2> QED BY <1>1, <1>2
<1>4. PICK f \in Fs(b) : TRUE
  <2> HIDE DEF Fs
  <2> QED BY <1>3
<1> HIDE DEF D
<1>5. f \in [X -> X] /\ \A x \in X : f[x] = IF N[x] = x THEN x ELSE f[N[x]]
  BY <1>2, <1>4
<1>6. f = [x \in X |-> IF N[x] = x THEN x ELSE f[N[x]]]
  BY <1>5
<1> QED BY <1>6 DEF IsSettling

Rank(r) == Cardinality(LiveRows(r)) + Cardinality(Links(r))

MaxRank == Cardinality(Keys) + Cardinality(Keys \X Cols)

LEMMA RankBounds ==
  ASSUME NEW r
  PROVE  /\ MaxRank \in Nat
         /\ Rank(r) \in 0..MaxRank
<1> DEFINE a == LiveRows(r)
           l == Links(r)
           kc == Keys \X Cols
<1>1. IsFiniteSet(Keys) /\ IsFiniteSet(kc)
  BY SchemaAssumption, FS_Product
<1>2. a \subseteq Keys /\ l \subseteq kc
  BY DEF LiveRows, Links
<1> HIDE DEF a, l, kc
<1>3. /\ Cardinality(a) \in Nat /\ Cardinality(l) \in Nat
      /\ Cardinality(Keys) \in Nat /\ Cardinality(kc) \in Nat
      /\ Cardinality(a) <= Cardinality(Keys) /\ Cardinality(l) <= Cardinality(kc)
  BY <1>1, <1>2, FS_Subset, FS_CardinalityType
<1>4. Rank(r) = Cardinality(a) + Cardinality(l) /\ MaxRank = Cardinality(Keys) + Cardinality(kc)
  BY DEF Rank, MaxRank, a, l, kc
<1> QED BY <1>3, <1>4

LEMMA ShrinkingLowersRank ==
  ASSUME NEW r, NEW s, Shrinks(r, s), s # r
  PROVE  Rank(s) < Rank(r)
<1> DEFINE a == LiveRows(r)
           b == LiveRows(s)
           l == Links(r)
           m == Links(s)
           kc == Keys \X Cols
<1>1. IsFiniteSet(Keys) /\ IsFiniteSet(kc)
  BY SchemaAssumption, FS_Product
<1>2. a \subseteq Keys /\ l \subseteq kc
  BY DEF LiveRows, Links
<1>3. b \subseteq a /\ m \subseteq l /\ ~(b = a /\ m = l)
  BY DEF Shrinks
<1>4. Rank(r) = Cardinality(a) + Cardinality(l) /\ Rank(s) = Cardinality(b) + Cardinality(m)
  BY DEF Rank
<1> HIDE DEF a, b, l, m, kc
<1>5. IsFiniteSet(a) /\ IsFiniteSet(l) /\ IsFiniteSet(b) /\ IsFiniteSet(m)
  BY <1>1, <1>2, <1>3, FS_Subset
<1>6. /\ Cardinality(a) \in Nat /\ Cardinality(l) \in Nat
      /\ Cardinality(b) \in Nat /\ Cardinality(m) \in Nat
  BY <1>5, FS_CardinalityType
<1>7. /\ Cardinality(b) <= Cardinality(a) /\ Cardinality(m) <= Cardinality(l)
      /\ b # a => Cardinality(b) < Cardinality(a)
      /\ m # l => Cardinality(m) < Cardinality(l)
  BY <1>3, <1>5, <1>6, FS_Subset
<1> QED BY <1>3, <1>4, <1>6, <1>7

\* The loop of enforce_fk_cascades: it is defined on every replica.
LEMMA CascadesUnfold ==
  ASSUME NEW p \in Peers
  PROVE  \A r \in ReplicaState :
           enforce_fk_cascades(r, p) = IF CascadePass(r, p) = r THEN r
                                       ELSE enforce_fk_cascades(CascadePass(r, p), p)
<1> DEFINE X == ReplicaState
           N == [x \in X |-> CascadePass(x, p)]
           rank == [x \in X |-> Rank(x)]
           b == MaxRank
           F == CHOOSE f : f = [x \in X |-> LET next == CascadePass(x, p)
                                          IN  IF next = x THEN x ELSE f[next]]
<1>1. \A x \in X : CascadePass(x, p) \in X
  BY CascadePassCalms DEF Calms
<1>2. N \in [X -> X] /\ \A x \in X : N[x] = CascadePass(x, p)
  BY <1>1
<1>3. b \in Nat /\ rank \in [X -> 0..b] /\ \A x \in X : rank[x] = Rank(x)
  BY RankBounds
<1>4. \A x \in X : Calms(x, N[x], p)
  BY <1>2, CascadePassCalms
<1>5. \A r : enforce_fk_cascades(r, p) = F[r]
  BY DEF enforce_fk_cascades
<1>6. \A f : IsSettling(f, X, N) <=>
             f = [x \in X |-> LET next == CascadePass(x, p)
                            IN  IF next = x THEN x ELSE f[next]]
  BY <1>2 DEF IsSettling
<1> HIDE DEF X, N, rank, b
<1>7. \A x \in X : N[x] # x => rank[N[x]] < rank[x]
  <2>1. ASSUME NEW x \in X, N[x] # x
        PROVE  rank[N[x]] < rank[x]
    <3>1. Shrinks(x, N[x])
      BY <1>4 DEF Calms
    <3>2. Rank(N[x]) < Rank(x)
      BY <2>1, <3>1, ShrinkingLowersRank
    <3>3. N[x] \in X
      BY <1>2
    <3> QED BY <1>3, <3>2, <3>3
  <2> QED BY <2>1
<1>8. \E f : IsSettling(f, X, N)
  BY <1>2, <1>3, <1>7, SettlingExists
<1>9. IsSettling(F, X, N)
  BY <1>6, <1>8
<1> HIDE DEF F
<1>10. \A x \in X : F[x] = IF N[x] = x THEN x ELSE F[N[x]]
  BY <1>9 DEF IsSettling
<1> QED BY <1>2, <1>5, <1>10 DEF X

\* A pass that changes the replica lowers its rank.
LEMMA PassLowersRank ==
  ASSUME NEW r \in ReplicaState, NEW p \in Peers
  PROVE  /\ CascadePass(r, p) \in ReplicaState
         /\ Rank(r) \in Nat /\ Rank(CascadePass(r, p)) \in Nat
         /\ CascadePass(r, p) # r => Rank(CascadePass(r, p)) < Rank(r)
<1> DEFINE s == CascadePass(r, p)
<1>1. Calms(r, s, p)
  BY CascadePassCalms
<1> HIDE DEF s
<1>2. s # r => Rank(s) < Rank(r)
  BY <1>1, ShrinkingLowersRank DEF Calms
<1>3. \A x : Rank(x) \in Nat
  BY RankBounds
<1> QED BY <1>1, <1>2, <1>3 DEF Calms, s

\* enforce_fk_cascades: on any foreign keys, cyclic ones too, the loop ends, and
\* where it ends no foreign key has anything left to cascade; on the way live
\* rows only went and cells only became NULL, each write newer than what it
\* replaced.
THEOREM CascadesEnd ==
  ASSUME NEW r \in ReplicaState, NEW p \in Peers
  PROVE  LET s == enforce_fk_cascades(r, p)
         IN  /\ Calms(r, s, p) /\ NothingToCascade(s)
             /\ CascadePass(r, p) = r => s = r
<1> DEFINE X == ReplicaState
           N(x) == CascadePass(x, p)
           F(x) == enforce_fk_cascades(x, p)
           Ends(x) == Calms(x, F(x), p) /\ NothingToCascade(F(x))
           S == {Rank(x) : x \in {y \in X : ~Ends(y)}}
<1>1. \A x \in X : F(x) = IF N(x) = x THEN x ELSE F(N(x))
  BY CascadesUnfold
<1>2. \A x \in X : Calms(x, N(x), p) /\ (N(x) = x => NothingToCascade(x))
  BY CascadePassCalms
<1>3. \A x \in X : /\ N(x) \in X /\ Rank(x) \in Nat /\ Rank(N(x)) \in Nat
                   /\ N(x) # x => Rank(N(x)) < Rank(x)
  BY PassLowersRank
<1> HIDE DEF X, N, F
<1>4. ASSUME S # {} PROVE FALSE
  <2>1. S \in SUBSET Nat
    BY <1>3
  <2>2. Min(S) \in S /\ \A y \in S : Min(S) <= y
    <3> HIDE DEF S
    <3> QED BY <1>4, <2>1, MinIsLeast
  <2>3. PICK x \in X : ~Ends(x) /\ \A y \in X : ~Ends(y) => Rank(x) <= Rank(y)
    <3>1. \A y \in X : ~Ends(y) => Rank(y) \in S
      OBVIOUS
    <3>2. PICK x \in X : ~Ends(x) /\ Min(S) = Rank(x)
      BY <2>2
    <3> HIDE DEF S, Ends
    <3> QED BY <2>2, <3>1, <3>2
  <2>4. N(x) # x
    <3>1. ASSUME N(x) = x PROVE FALSE
      <4>1. F(x) = x /\ NothingToCascade(x) /\ Calms(x, x, p)
        BY <1>1, <1>2, <3>1
      <4> QED BY <2>3, <4>1
    <3> QED BY <3>1
  <2>5. N(x) \in X /\ F(x) = F(N(x))
    BY <1>1, <1>3, <2>4
  <2>6. Ends(N(x))
    <3> HIDE DEF Ends
    <3> QED BY <1>3, <2>3, <2>4, <2>5
  <2>7. Calms(x, F(x), p) /\ NothingToCascade(F(x))
    <3>1. Calms(x, N(x), p) /\ Calms(N(x), F(x), p) /\ NothingToCascade(F(x))
      BY <1>2, <2>5, <2>6
    <3> QED BY <3>1, CalmsTransitive
  <2> QED BY <2>3, <2>7
<1>5. Ends(r)
  <2>1. r \in X
    BY DEF X
  <2> HIDE DEF Ends
  <2> QED BY <1>4, <2>1
<1>6. N(r) = r => F(r) = r
  BY <1>1 DEF X
<1> QED BY <1>5, <1>6 DEF N, F

-----------------------------------------------------------------------------
(***************************************************************************)
(* The passes after a DELETE and after a sync.                             *)
(***************************************************************************)
LEMMA SetToSeqType ==
  ASSUME NEW S, IsFiniteSet(S)
  PROVE  SetToSeq(S) \in Seq(S) /\ IsInjective(SetToSeq(S))
<1> DEFINE n == Cardinality(S)
<1>1. n \in Nat /\ ExistsBijection(1..n, S)
  BY FS_CardinalityType
<1>2. \E f \in [1..n -> S] : IsInjective(f)
  <2> HIDE DEF n
  <2> QED BY <1>1 DEF ExistsBijection, Bijection, Injection
<1>3. SetToSeq(S) \in [1..n -> S] /\ IsInjective(SetToSeq(S))
  <2>1. SetToSeq(S) = CHOOSE f \in [1..n -> S] : IsInjective(f)
    BY DEF SetToSeq
  <2> HIDE DEF n
  <2> QED BY <1>2, <2>1
<1> HIDE DEF n
<1> QED BY <1>1, <1>3

LEMMA SetToSeqCovers ==
  ASSUME NEW S, IsFiniteSet(S)
  PROVE  \A x \in S : \E i \in 1..Len(SetToSeq(S)) : SetToSeq(S)[i] = x
<1> DEFINE n == Cardinality(S)
           f == SetToSeq(S)
<1>1. n \in Nat /\ ExistsBijection(1..n, S)
  BY FS_CardinalityType
<1>2. \E g \in [1..n -> S] : IsInjective(g)
  <2> HIDE DEF n
  <2> QED BY <1>1 DEF ExistsBijection, Bijection, Injection
<1>3. f \in [1..n -> S] /\ IsInjective(f)
  <2>1. f = CHOOSE g \in [1..n -> S] : IsInjective(g)
    BY DEF SetToSeq
  <2> HIDE DEF n, f
  <2> QED BY <1>2, <2>1
<1> HIDE DEF f
<1>4. f \in Injection(1..n, S)
  BY <1>3 DEF Injection
<1>5. Cardinality(1..n) = n
  <2> HIDE DEF n
  <2> QED BY <1>1, FS_Interval
<1>6. f \in Surjection(1..n, S)
  BY <1>4, <1>5, FS_Injection
<1>7. Len(f) = n
  <2> HIDE DEF n
  <2> QED BY <1>1, <1>3
<1> HIDE DEF n
<1> QED BY <1>6, <1>7 DEF Surjection, f

\* A pass of p, which deletes rows and sets cells to NULL.
Clears(r, s, p) == s \in ReplicaState /\ (Good(r, p) => Grows(r, s, p, {Null}))

LEMMA ClearsItself ==
  ASSUME NEW r \in ReplicaState, NEW p
  PROVE  Clears(r, r, p)
BY GrowsFromItself DEF Clears

LEMMA ClearsTransitive ==
  ASSUME NEW r, NEW q, NEW s, NEW p \in Peers, Clears(r, q, p), Clears(q, s, p)
  PROVE  Clears(r, s, p)
<1>1. ASSUME Good(r, p)
      PROVE  Grows(r, s, p, {Null})
  <2>1. Grows(r, q, p, {Null})
    BY <1>1 DEF Clears
  <2>2. Good(q, p)
    BY <2>1 DEF Grows
  <2>3. Grows(q, s, p, {Null})
    BY <2>2 DEF Clears
  <2> QED BY <1>1, <2>1, <2>3, GrowsTransitive
<1> QED BY <1>1 DEF Clears

LEMMA EnforceLoserClears ==
  ASSUME NEW r \in ReplicaState, NEW p \in Peers, NEW x, NEW c, NEW k \in Keys
  PROVE  Clears(r, EnforceLoser(r, p, x, c, k), p)
<1> DEFINE cols == Held(r.rows[k], DOMAIN x.value)
           S == {k}
<1>1. EnforceLoser(r, p, x, c, k) \in {r, Nulling(r, p, S, cols)}
  <2>1. Nulling(r, p, S, cols) =
          WrittenRows(r, p, [j \in {k} |-> NulledRow(r.rows[k], cols, NextVersion(r, p))], <<>>)
    <3>1. [j \in S |-> NulledRow(r.rows[j], cols, NextVersion(r, p))] =
            [j \in {k} |-> NulledRow(r.rows[k], cols, NextVersion(r, p))]
      <4> HIDE DEF cols
      <4> QED OBVIOUS
    <3> HIDE DEF cols
    <3> QED BY <3>1 DEF Nulling
  <2> QED BY <2>1 DEF EnforceLoser
<1>2. Clears(r, Nulling(r, p, S, cols), p)
  <2>1. S \in SUBSET Keys
    OBVIOUS
  <2> HIDE DEF S, cols
  <2> QED BY <2>1, NullingGrows DEF Clears
<1> QED BY <1>1, <1>2, ClearsItself

LEMMA EnforceClaimClears ==
  ASSUME NEW r \in ReplicaState, NEW p \in Peers, NEW x, NEW c \in ClaimOf(Keys)
  PROVE  Clears(r, EnforceClaim(r, p, x, c), p)
<1> DEFINE losers == c.losers
           n == Len(losers)
           A == {q \in ReplicaState : Clears(r, q, p)}
           Inv == [i \in 0..n |-> A]
<1>1. losers \in Seq(Entry)
  <2>1. CASE c = NoClaim
    BY <2>1 DEF NoClaim
  <2> QED BY <2>1, ClaimFields
<1> HIDE DEF losers
<1>2. n \in Nat /\ \A i \in 1..n : losers[i].row \in Keys
  <2>1. n \in Nat /\ \A i \in 1..n : losers[i] \in Entry
    BY <1>1
  <2> QED BY <2>1, EntryFields
<1>3. ASSUME NEW q \in A, NEW k \in Keys
      PROVE  EnforceLoser(q, p, x, c, k) \in A
  <2>1. Clears(q, EnforceLoser(q, p, x, c, k), p)
    BY EnforceLoserClears
  <2> QED BY <2>1, ClearsTransitive DEF Clears
<1>4. r \in A
  BY ClearsItself
<1>5. \E g \in [0..n -> A] : g[n] = EnforceClaim(r, p, x, c)
  <2>1. \A a \in A, i \in 1..Len(losers) : EnforceLoser(a, p, x, c, losers[i].row) \in A
    BY <1>2, <1>3
  <2>2. losers = c.losers
    BY DEF losers
  <2>3. PICK last : last = EnforceClaim(r, p, x, c)
    OBVIOUS
  <2> HIDE DEF A, Inv
  <2> QED BY <1>1, <1>4, <2>1, <2>2, <2>3, EnforceClaimChain
<1>6. n \in 0..n
  BY <1>2
<1> HIDE DEF n
<1> QED BY <1>5, <1>6

LEMMA UniquenessClears ==
  ASSUME NEW r \in ReplicaState, NEW p \in Peers, NEW registry \in Registry
  PROVE  Clears(r, enforce_uniqueness_tombstones(r, p, registry), p)
<1> DEFINE order == SetToSeq(ClaimKeys)
           n == Len(order)
           A == {q \in ReplicaState : Clears(r, q, p)}
<1>1. order \in Seq(ClaimKeys)
  BY RegistryAssumption, SetToSeqType
<1> HIDE DEF order
<1>2. n \in Nat /\ \A i \in 1..n : order[i] \in ClaimKeys
  BY <1>1
<1>3. ASSUME NEW q \in A, NEW x \in ClaimKeys
      PROVE  EnforceClaim(q, p, x, registry[x]) \in A
  <2>1. registry[x] \in ClaimOf(Keys)
    BY DEF Registry
  <2>2. Clears(q, EnforceClaim(q, p, x, registry[x]), p)
    BY <2>1, EnforceClaimClears
  <2> QED BY <2>2, ClearsTransitive DEF Clears
<1>4. r \in A
  BY ClearsItself
<1>5. \E g \in [0..n -> A] : g[n] = enforce_uniqueness_tombstones(r, p, registry)
  <2>1. \A a \in A, i \in 1..Len(order) : EnforceClaim(a, p, order[i], registry[order[i]]) \in A
    BY <1>2, <1>3
  <2>2. order = SetToSeq(ClaimKeys)
    BY DEF order
  <2>3. PICK last : last = enforce_uniqueness_tombstones(r, p, registry)
    OBVIOUS
  <2> HIDE DEF A
  <2> QED BY <1>1, <1>4, <2>1, <2>2, <2>3, EnforceChain
<1>6. n \in 0..n
  BY <1>2
<1> HIDE DEF n
<1> QED BY <1>5, <1>6

\* The three passes only clear cells and delete rows, and they leave nothing to
\* cascade.
LEMMA EnforcedFacts ==
  ASSUME NEW r \in ReplicaState, NEW p \in Peers, NEW registry \in Registry
  PROVE  LET s == Enforced(r, p, registry)
         IN  Clears(r, s, p) /\ NothingToCascade(s)
<1> DEFINE a == enforce_fk_cascades(r, p)
           b == enforce_uniqueness_tombstones(a, p, registry)
           s == enforce_fk_cascades(b, p)
<1>1. Clears(r, a, p) /\ a \in ReplicaState
  BY CascadesEnd DEF Calms, Clears
<1>2. s = Enforced(r, p, registry)
  BY DEF Enforced
<1> HIDE DEF a
<1>3. Clears(a, b, p) /\ b \in ReplicaState
  BY <1>1, UniquenessClears DEF Clears
<1> HIDE DEF b
<1>4. Clears(b, s, p) /\ NothingToCascade(s)
  BY <1>3, CascadesEnd DEF Calms, Clears
<1> HIDE DEF s
<1>5. Clears(r, s, p)
  BY <1>1, <1>3, <1>4, ClearsTransitive
<1> QED BY <1>2, <1>4, <1>5

-----------------------------------------------------------------------------
(***************************************************************************)
(* What the enforcement of uniqueness achieves.                            *)
(***************************************************************************)

\* From r to s values have only become NULL.
Fades(r, s) == \A k \in Keys, c \in Cols :
                 ValueAt(s.rows[k], c) \in {ValueAt(r.rows[k], c), Null}

\* No row has died or appeared either.
Quiets(r, s) == LiveRows(s) = LiveRows(r) /\ Fades(r, s)

LEMMA QuietsTransitive ==
  ASSUME NEW r, NEW q, NEW s, Quiets(r, q), Quiets(q, s)
  PROVE  Quiets(r, s)
BY DEF Quiets, Fades

\* Row k has no value left in the columns of x, or wins the claim c in the place
\* of its owner.
Resolves(r, x, c, k) ==
  \/ k \notin LiveRows(r)
  \/ Held(r.rows[k], DOMAIN x.value) = {}
  \/ c.owner \notin LiveRows(r) /\ is_effective_unique_winner(c, LiveRows(r), k)

LEMMA HeldFades ==
  ASSUME NEW r, NEW s, Fades(r, s), NEW k \in Keys, NEW cols \in SUBSET Cols
  PROVE  Held(s.rows[k], cols) \subseteq Held(r.rows[k], cols)
BY DEF Fades, Held

LEMMA ClaimKeyColumns ==
  ASSUME NEW x \in ClaimKeys
  PROVE  DOMAIN x.value \in SUBSET Cols
<1>1. PICK t \in Tables : \E u \in Schemas[t].unique :
        x \in {[table |-> t, value |-> y] :
                 y \in {f \in [u -> Values \ {Null}] : \A c \in u : f[c] \in Schemas[t].columns[c]}}
  BY DEF ClaimKeys
<1>2. PICK u \in Schemas[t].unique : DOMAIN x.value = u
  BY <1>1
<1>3. u \subseteq Cols
  BY SchemaAssumption
<1> QED BY <1>2, <1>3

LEMMA ResolvesLater ==
  ASSUME NEW r, NEW s, Quiets(r, s), NEW x \in ClaimKeys, NEW c, NEW k \in Keys,
         Resolves(r, x, c, k)
  PROVE  Resolves(s, x, c, k)
<1>1. Held(s.rows[k], DOMAIN x.value) \subseteq Held(r.rows[k], DOMAIN x.value)
  BY ClaimKeyColumns, HeldFades DEF Quiets
<1> QED BY <1>1 DEF Resolves, Quiets

LEMMA NulledRowFades ==
  ASSUME NEW row \in Row, NEW cols, NEW v \in Version, NEW d \in cols, d \in Cols
  PROVE  /\ NulledRow(row, cols, v) # NoRow
         /\ \A c \in Cols : ValueAt(NulledRow(row, cols, v), c) =
                                IF c \in cols THEN Null ELSE ValueAt(row, c)
<1> DEFINE n == NulledRow(row, cols, v)
<1>1. \A c \in Cols : n.cells[c] = IF c \in cols THEN [value |-> Null, version |-> v]
                                     ELSE row.cells[c]
  BY NulledRowType
<1> HIDE DEF n
<1>2. n.cells[d].version = v
  BY <1>1
<1>3. NoRow.cells[d].version = NoVersion
  BY NoRowType DEF NoCell
<1>4. n # NoRow
  BY <1>2, <1>3, VersionIsOpt
<1>5. \A c \in Cols : ValueAt(n, c) = IF c \in cols THEN Null ELSE ValueAt(row, c)
  BY <1>1 DEF ValueAt
<1> QED BY <1>4, <1>5 DEF n

LEMMA EnforceLoserResolves ==
  ASSUME NEW r \in ReplicaState, NEW p \in Peers, NEW x \in ClaimKeys, NEW c, NEW k \in Keys
  PROVE  LET s == EnforceLoser(r, p, x, c, k)
         IN  s \in ReplicaState /\ Quiets(r, s) /\ Resolves(s, x, c, k)
<1> DEFINE cols == Held(r.rows[k], DOMAIN x.value)
           S == {k}
           v == NextVersion(r, p)
           n == Nulling(r, p, S, cols)
           loses == /\ Visible(r, k)
                    /\ ~(c.owner \notin LiveRows(r) /\ is_effective_unique_winner(c, LiveRows(r), k))
                    /\ cols # {}
<1>1. EnforceLoser(r, p, x, c, k) = IF loses THEN n ELSE r
  <2>1. n = WrittenRows(r, p, [j \in {k} |-> NulledRow(r.rows[k], cols, v)], <<>>)
    <3>1. [j \in S |-> NulledRow(r.rows[j], cols, v)] = [j \in {k} |-> NulledRow(r.rows[k], cols, v)]
      <4> HIDE DEF cols, v
      <4> QED OBVIOUS
    <3> HIDE DEF cols
    <3> QED BY <3>1 DEF Nulling, v
  <2> HIDE DEF n
  <2> QED BY <2>1 DEF EnforceLoser
<1>2. r.rows[k] \in Row /\ v \in Version
  BY ReplicaFields, NextIsVersion
<1>3. DOMAIN x.value \in SUBSET Cols /\ cols \subseteq DOMAIN x.value
  BY ClaimKeyColumns DEF Held
<1>4. \A d \in DOMAIN x.value : d \notin cols => ValueAt(r.rows[k], d) = Null
  BY DEF Held
<1>5. k \in LiveRows(r) <=> Visible(r, k)
  BY DEF LiveRows
<1> HIDE DEF cols
<1>6. CASE loses
  <2>1. PICK d \in cols : d \in Cols
    BY <1>3, <1>6
  <2>2. /\ n \in ReplicaState
        /\ n.rows[k] = NulledRow(r.rows[k], cols, v)
        /\ \A j \in Keys : j # k => n.rows[j] = r.rows[j]
    <3>1. S \in SUBSET Keys
      OBVIOUS
    <3>2. \A j \in Keys : j \in S <=> j = k
      OBVIOUS
    <3> HIDE DEF S, n
    <3> QED BY <3>1, <3>2, NullingFacts DEF n, v
  <2> HIDE DEF n, v
  <2>3. /\ n.rows[k] # NoRow /\ n.rows[k].deleted = r.rows[k].deleted
        /\ \A e \in Cols : ValueAt(n.rows[k], e) = IF e \in cols THEN Null ELSE ValueAt(r.rows[k], e)
    <3> DEFINE row == r.rows[k]
    <3>1. row \in Row
      BY <1>2
    <3> HIDE DEF row
    <3>2. NulledRow(row, cols, v).deleted = row.deleted
      BY <1>2, <3>1, NulledRowType
    <3>3. /\ NulledRow(row, cols, v) # NoRow
          /\ \A e \in Cols : ValueAt(NulledRow(row, cols, v), e) =
                                IF e \in cols THEN Null ELSE ValueAt(row, e)
      BY <1>2, <2>1, <3>1, NulledRowFades
    <3> QED BY <2>2, <3>2, <3>3 DEF row
  <2>4. LiveRows(n) = LiveRows(r)
    <3>1. \A j \in Keys : Visible(n, j) <=> Visible(r, j)
      BY <1>6, <2>2, <2>3 DEF Visible
    <3> QED BY <3>1 DEF LiveRows
  <2>5. Fades(r, n)
    BY <2>2, <2>3 DEF Fades
  <2>6. Held(n.rows[k], DOMAIN x.value) = {}
    BY <1>3, <1>4, <2>3 DEF Held
  <2> QED BY <1>1, <1>6, <2>2, <2>4, <2>5, <2>6 DEF Quiets, Resolves
<1>7. CASE ~loses
  <2>1. Quiets(r, r)
    BY DEF Quiets, Fades
  <2>2. Resolves(r, x, c, k)
    BY <1>5, <1>7 DEF Resolves, cols
  <2> QED BY <1>1, <1>7, <2>1, <2>2
<1> QED BY <1>6, <1>7

LEMMA EnforceClaimResolves ==
  ASSUME NEW r \in ReplicaState, NEW p \in Peers, NEW x \in ClaimKeys, NEW c \in ClaimOf(Keys)
  PROVE  LET s == EnforceClaim(r, p, x, c)
         IN  /\ s \in ReplicaState /\ Quiets(r, s)
             /\ \A k \in LoserRows(c) : Resolves(s, x, c, k)
<1> DEFINE losers == c.losers
           n == Len(losers)
           A == {q \in ReplicaState : Quiets(r, q)}
           Inv == [i \in 0..n |-> {q \in A : \A j \in 1..i : Resolves(q, x, c, losers[j].row)}]
           last == EnforceClaim(r, p, x, c)
<1>1. losers \in Seq(Entry)
  <2>1. CASE c = NoClaim
    BY <2>1 DEF NoClaim
  <2> QED BY <2>1, ClaimFields
<1>2. LoserRows(c) = {losers[i].row : i \in 1..n}
  BY <1>1 DEF LoserRows
<1> HIDE DEF losers
<1>3. n \in Nat /\ \A i \in 1..n : losers[i].row \in Keys
  <2>1. n \in Nat /\ \A i \in 1..n : losers[i] \in Entry
    BY <1>1
  <2> QED BY <2>1, EntryFields
<1>4. ASSUME NEW q \in A, NEW k \in Keys
      PROVE  /\ EnforceLoser(q, p, x, c, k) \in A
             /\ Quiets(q, EnforceLoser(q, p, x, c, k))
             /\ Resolves(EnforceLoser(q, p, x, c, k), x, c, k)
  <2>1. /\ EnforceLoser(q, p, x, c, k) \in ReplicaState
        /\ Quiets(q, EnforceLoser(q, p, x, c, k))
        /\ Resolves(EnforceLoser(q, p, x, c, k), x, c, k)
    BY EnforceLoserResolves
  <2> QED BY <2>1, QuietsTransitive
<1>5. r \in A
  BY DEF Quiets, Fades
<1> HIDE DEF A, last
<1>6. PICK g \in [0..n -> A] :
        /\ g[0] = r
        /\ \A i \in 1..n : g[i] = EnforceLoser(g[i - 1], p, x, c, losers[i].row)
        /\ g[n] = last
  <2>1. \A a \in A, i \in 1..Len(losers) : EnforceLoser(a, p, x, c, losers[i].row) \in A
    BY <1>3, <1>4
  <2>2. losers = c.losers
    BY DEF losers
  <2>3. last = EnforceClaim(r, p, x, c)
    BY DEF last
  <2>4. \E g \in [0..Len(losers) -> A] :
          /\ g[0] = r
          /\ \A i \in 1..Len(losers) : g[i] = EnforceLoser(g[i - 1], p, x, c, losers[i].row)
          /\ g[Len(losers)] = EnforceClaim(r, p, x, c)
    <3> HIDE DEF Inv
    <3> QED BY <1>1, <1>5, <2>1, <2>2, <2>3, EnforceClaimChain
  <2> QED BY <2>3, <2>4
<1>7. \A i \in 0..n : g[i] \in Inv[i]
  <2>1. \A i \in 0..n : \A q : q \in Inv[i] <=> q \in A /\ \A j \in 1..i : Resolves(q, x, c, losers[j].row)
    OBVIOUS
  <2>2. 0 \in 0..n /\ 1..0 = {} /\ \A i \in 1..n : i \in 0..n /\ i - 1 \in 0..n
    BY <1>3
  <2> HIDE DEF Inv
  <2>3. g[0] \in Inv[0]
    BY <1>5, <1>6, <2>1, <2>2
  <2>4. ASSUME NEW i \in 1..n, g[i - 1] \in Inv[i - 1]
        PROVE  g[i] \in Inv[i]
    <3> DEFINE a == g[i - 1]
               b == g[i]
    <3>1. a \in A /\ \A j \in 1..(i - 1) : Resolves(a, x, c, losers[j].row)
      BY <2>1, <2>2, <2>4
    <3>2. b = EnforceLoser(a, p, x, c, losers[i].row)
      BY <1>6
    <3> HIDE DEF a, b
    <3>3. b \in A /\ Quiets(a, b) /\ Resolves(b, x, c, losers[i].row)
      BY <1>3, <1>4, <3>1, <3>2
    <3>4. ASSUME NEW j \in 1..i
          PROVE  Resolves(b, x, c, losers[j].row)
      <4>1. CASE j = i
        BY <3>3, <4>1
      <4>2. CASE j # i
        <5>1. j \in 1..(i - 1) /\ j \in 1..n
          BY <1>3, <4>2
        <5> QED BY <1>3, <3>1, <3>3, <5>1, ResolvesLater
      <4> QED BY <4>1, <4>2
    <3>5. b \in Inv[i]
      BY <2>1, <2>2, <3>3, <3>4
    <3> QED BY <3>5 DEF b
  <2> HIDE DEF n
  <2> QED BY <1>3, <2>3, <2>4, ChainStaysIn
<1>8. last \in A /\ \A j \in 1..n : Resolves(last, x, c, losers[j].row)
  <2>1. n \in 0..n
    BY <1>3
  <2>2. g[n] \in Inv[n]
    BY <1>7, <2>1
  <2> HIDE DEF n
  <2> QED BY <1>6, <2>1, <2>2
<1>9. \A k \in LoserRows(c) : Resolves(last, x, c, k)
  BY <1>2, <1>8
<1> QED BY <1>8, <1>9 DEF A, last

\* The losers of x in the registry are resolved in r.
ResolvesClaim(r, registry, x) ==
  \A k \in LoserRows(registry[x]) : Resolves(r, x, registry[x], k)

LEMMA LoserRowsAreKeys ==
  ASSUME NEW c \in ClaimOf(Keys)
  PROVE  LoserRows(c) \subseteq Keys
<1>1. CASE c = NoClaim
  <2>1. NoClaim.losers = <<>>
    BY DEF NoClaim
  <2>2. DOMAIN c.losers = {}
    BY <1>1, <2>1
  <2> QED BY <2>2 DEF LoserRows
<1>2. CASE c # NoClaim
  <2>1. c.losers \in Seq(Entry)
    BY <1>2, ClaimFields
  <2>2. \A i \in DOMAIN c.losers : c.losers[i] \in Entry
    BY <2>1
  <2> QED BY <2>2, EntryFields DEF LoserRows
<1> QED BY <1>1, <1>2

LEMMA ClaimResolvesLater ==
  ASSUME NEW r, NEW s, Quiets(r, s), NEW x \in ClaimKeys, NEW registry \in Registry,
         ResolvesClaim(r, registry, x)
  PROVE  ResolvesClaim(s, registry, x)
<1>1. LoserRows(registry[x]) \subseteq Keys
  <2>1. registry[x] \in ClaimOf(Keys)
    BY DEF Registry
  <2> QED BY <2>1, LoserRowsAreKeys
<1>2. \A k \in LoserRows(registry[x]) : Resolves(s, x, registry[x], k)
  BY <1>1, ResolvesLater DEF ResolvesClaim
<1> QED BY <1>2 DEF ResolvesClaim

LEMMA UniquenessResolves ==
  ASSUME NEW r \in ReplicaState, NEW p \in Peers, NEW registry \in Registry
  PROVE  \A x \in ClaimKeys :
           ResolvesClaim(enforce_uniqueness_tombstones(r, p, registry), registry, x)
<1> DEFINE order == SetToSeq(ClaimKeys)
           n == Len(order)
           A == {q \in ReplicaState : Quiets(r, q)}
           Inv == [i \in 0..n |-> {q \in A : \A j \in 1..i : ResolvesClaim(q, registry, order[j])}]
           last == enforce_uniqueness_tombstones(r, p, registry)
<1>1. order \in Seq(ClaimKeys) /\ \A x \in ClaimKeys : \E i \in 1..n : order[i] = x
  BY RegistryAssumption, SetToSeqType, SetToSeqCovers
<1> HIDE DEF order
<1>2. n \in Nat /\ \A i \in 1..n : order[i] \in ClaimKeys
  BY <1>1
<1>3. ASSUME NEW q \in A, NEW x \in ClaimKeys
      PROVE  /\ EnforceClaim(q, p, x, registry[x]) \in A
             /\ Quiets(q, EnforceClaim(q, p, x, registry[x]))
             /\ ResolvesClaim(EnforceClaim(q, p, x, registry[x]), registry, x)
  <2>1. registry[x] \in ClaimOf(Keys)
    BY DEF Registry
  <2>2. /\ EnforceClaim(q, p, x, registry[x]) \in ReplicaState
        /\ Quiets(q, EnforceClaim(q, p, x, registry[x]))
        /\ \A k \in LoserRows(registry[x]) :
             Resolves(EnforceClaim(q, p, x, registry[x]), x, registry[x], k)
    BY <2>1, EnforceClaimResolves
  <2> QED BY <2>2, QuietsTransitive DEF ResolvesClaim
<1>4. r \in A
  BY DEF Quiets, Fades
<1> HIDE DEF A, last
<1>5. PICK g \in [0..n -> A] :
        /\ g[0] = r
        /\ \A i \in 1..n : g[i] = EnforceClaim(g[i - 1], p, order[i], registry[order[i]])
        /\ g[n] = last
  <2>1. \A a \in A, i \in 1..Len(order) : EnforceClaim(a, p, order[i], registry[order[i]]) \in A
    BY <1>2, <1>3
  <2>2. order = SetToSeq(ClaimKeys)
    BY DEF order
  <2>3. last = enforce_uniqueness_tombstones(r, p, registry)
    BY DEF last
  <2>4. \E g \in [0..Len(order) -> A] :
          /\ g[0] = r
          /\ \A i \in 1..Len(order) : g[i] = EnforceClaim(g[i - 1], p, order[i], registry[order[i]])
          /\ g[Len(order)] = enforce_uniqueness_tombstones(r, p, registry)
    <3> HIDE DEF Inv
    <3> QED BY <1>1, <1>4, <2>1, <2>2, <2>3, EnforceChain
  <2> QED BY <2>3, <2>4
<1>6. \A i \in 0..n : g[i] \in Inv[i]
  <2>1. \A i \in 0..n : \A q : q \in Inv[i] <=>
          q \in A /\ \A j \in 1..i : ResolvesClaim(q, registry, order[j])
    OBVIOUS
  <2>2. 0 \in 0..n /\ 1..0 = {} /\ \A i \in 1..n : i \in 0..n /\ i - 1 \in 0..n
    BY <1>2
  <2> HIDE DEF Inv
  <2>3. g[0] \in Inv[0]
    BY <1>4, <1>5, <2>1, <2>2
  <2>4. ASSUME NEW i \in 1..n, g[i - 1] \in Inv[i - 1]
        PROVE  g[i] \in Inv[i]
    <3> DEFINE a == g[i - 1]
               b == g[i]
    <3>1. a \in A /\ \A j \in 1..(i - 1) : ResolvesClaim(a, registry, order[j])
      BY <2>1, <2>2, <2>4
    <3>2. b = EnforceClaim(a, p, order[i], registry[order[i]])
      BY <1>5
    <3> HIDE DEF a, b
    <3>3. b \in A /\ Quiets(a, b) /\ ResolvesClaim(b, registry, order[i])
      BY <1>2, <1>3, <3>1, <3>2
    <3>4. ASSUME NEW j \in 1..i
          PROVE  ResolvesClaim(b, registry, order[j])
      <4>1. CASE j = i
        BY <3>3, <4>1
      <4>2. CASE j # i
        <5>1. j \in 1..(i - 1) /\ j \in 1..n
          BY <1>2, <4>2
        <5> QED BY <1>2, <3>1, <3>3, <5>1, ClaimResolvesLater
      <4> QED BY <4>1, <4>2
    <3>5. b \in Inv[i]
      BY <2>1, <2>2, <3>3, <3>4
    <3> QED BY <3>5 DEF b
  <2> HIDE DEF n
  <2> QED BY <1>2, <2>3, <2>4, ChainStaysIn
<1>7. \A j \in 1..n : ResolvesClaim(last, registry, order[j])
  <2>1. n \in 0..n
    BY <1>2
  <2>2. g[n] \in Inv[n]
    BY <1>6, <2>1
  <2> HIDE DEF n
  <2> QED BY <1>5, <2>1, <2>2
<1> HIDE DEF n
<1> QED BY <1>1, <1>7 DEF last

\* Of fewer live rows, an effective winner stays one.
LEMMA FewerRivals ==
  ASSUME NEW c, NEW alive, NEW fewer \in SUBSET alive, NEW k, c.owner \notin alive,
         is_effective_unique_winner(c, alive, k)
  PROVE  c.owner \notin fewer /\ is_effective_unique_winner(c, fewer, k)
BY DEF is_effective_unique_winner

\* After the passes every loser of every claim has given way or has won the
\* place of a dead owner; the last cascade undoes nothing of it.
THEOREM LosersGiveWay ==
  ASSUME NEW r, NEW p \in Peers, Good(r, p), NEW registry \in Registry
  PROVE  \A x \in ClaimKeys : ResolvesClaim(Enforced(r, p, registry), registry, x)
<1> DEFINE a == enforce_fk_cascades(r, p)
           b == enforce_uniqueness_tombstones(a, p, registry)
           s == enforce_fk_cascades(b, p)
<1>1. r \in ReplicaState
  BY DEF Good
<1>2. a \in ReplicaState /\ Good(a, p)
  BY <1>1, CascadesEnd DEF Calms, Grows
<1>3. s = Enforced(r, p, registry)
  BY DEF Enforced
<1> HIDE DEF a
<1>4. Clears(a, b, p) /\ \A x \in ClaimKeys : ResolvesClaim(b, registry, x)
  BY <1>2, UniquenessClears, UniquenessResolves
<1>5. b \in ReplicaState /\ Good(b, p)
  BY <1>2, <1>4 DEF Clears, Grows
<1> HIDE DEF b
<1>6. Shrinks(b, s) /\ Grows(b, s, p, {Null})
  BY <1>5, CascadesEnd DEF Calms
<1> HIDE DEF s
<1>7. LiveRows(s) \subseteq LiveRows(b)
  BY <1>6 DEF Shrinks
<1>8. Fades(b, s)
  <2>1. ASSUME NEW k \in Keys, NEW c \in Cols
        PROVE  ValueAt(s.rows[k], c) \in {ValueAt(b.rows[k], c), Null}
    <3>1. \/ s.rows[k].cells[c] = b.rows[k].cells[c]
          \/ s.rows[k].cells[c].value = Null
      BY <1>6 DEF Grows, CellGrows
    <3> QED BY <3>1 DEF ValueAt
  <2> QED BY <2>1 DEF Fades
<1>9. ASSUME NEW x \in ClaimKeys, NEW k \in LoserRows(registry[x])
      PROVE  Resolves(s, x, registry[x], k)
  <2>1. Resolves(b, x, registry[x], k)
    BY <1>4 DEF ResolvesClaim
  <2>2. CASE k \notin LiveRows(b)
    BY <1>7, <2>2 DEF Resolves
  <2>3. CASE k \in LiveRows(b) /\ Held(b.rows[k], DOMAIN x.value) = {}
    <3>1. k \in Keys
      BY <2>3 DEF LiveRows
    <3>2. Held(s.rows[k], DOMAIN x.value) = {}
      BY <1>8, <2>3, <3>1, ClaimKeyColumns, HeldFades
    <3> QED BY <3>2 DEF Resolves
  <2>4. CASE /\ registry[x].owner \notin LiveRows(b)
             /\ is_effective_unique_winner(registry[x], LiveRows(b), k)
    BY <1>7, <2>4, FewerRivals DEF Resolves
  <2> QED BY <2>1, <2>2, <2>3, <2>4 DEF Resolves
<1> QED BY <1>3, <1>9 DEF ResolvesClaim

-----------------------------------------------------------------------------
(***************************************************************************)
(* What follows a cascade that has come to rest.                           *)
(***************************************************************************)

\* From r to s values have become NULL, and nothing else has changed.
Wipes(r, s) == \A k \in Keys :
  /\ Visible(s, k) = Visible(r, k)
  /\ s.rows[k].deleted = r.rows[k].deleted
  /\ s.rows[k].delVersion = r.rows[k].delVersion
  /\ s.tombs[k] = r.tombs[k]
  /\ \A c \in Cols : \/ s.rows[k].cells[c] = r.rows[k].cells[c]
                     \/ s.rows[k].cells[c].value = Null /\ ValueAt(r.rows[k], c) # Null

LEMMA WipesItself ==
  ASSUME NEW r
  PROVE  Wipes(r, r)
BY DEF Wipes

LEMMA WipesTransitive ==
  ASSUME NEW r, NEW q, NEW s, Wipes(r, q), Wipes(q, s)
  PROVE  Wipes(r, s)
<1>1. ASSUME NEW k \in Keys
      PROVE  /\ Visible(s, k) = Visible(r, k)
             /\ s.rows[k].deleted = r.rows[k].deleted
             /\ s.rows[k].delVersion = r.rows[k].delVersion
             /\ s.tombs[k] = r.tombs[k]
  BY DEF Wipes
<1>2. ASSUME NEW k \in Keys, NEW c \in Cols
      PROVE  \/ s.rows[k].cells[c] = r.rows[k].cells[c]
             \/ s.rows[k].cells[c].value = Null /\ ValueAt(r.rows[k], c) # Null
  BY DEF Wipes, ValueAt
<1> QED BY <1>1, <1>2 DEF Wipes

LEMMA WipesLive ==
  ASSUME NEW r, NEW s, Wipes(r, s)
  PROVE  LiveRows(s) = LiveRows(r)
BY DEF Wipes, LiveRows

\* One turn of the enforcement: it leaves the replica alone, or sets to NULL what
\* row k holds of the claim.
LEMMA EnforceLoserWrites ==
  ASSUME NEW r \in ReplicaState, NEW p \in Peers, NEW x \in ClaimKeys, NEW c, NEW k \in Keys
  PROVE  LET s == EnforceLoser(r, p, x, c, k)
         IN  \/ s = r
             \/ /\ s \in ReplicaState
                /\ Visible(r, k)
                /\ ~(c.owner \notin LiveRows(r) /\ is_effective_unique_winner(c, LiveRows(r), k))
                /\ s.rows[k].deleted = r.rows[k].deleted
                /\ s.rows[k].delVersion = r.rows[k].delVersion
                /\ Visible(s, k)
                /\ \A d \in Cols : IF d \in Held(r.rows[k], DOMAIN x.value)
                                   THEN s.rows[k].cells[d].value = Null
                                   ELSE s.rows[k].cells[d] = r.rows[k].cells[d]
                /\ \A j \in Keys : /\ s.tombs[j] = r.tombs[j]
                                   /\ j # k => s.rows[j] = r.rows[j]
<1> DEFINE cols == Held(r.rows[k], DOMAIN x.value)
           S == {k}
           v == NextVersion(r, p)
           n == Nulling(r, p, S, cols)
           loses == /\ Visible(r, k)
                    /\ ~(c.owner \notin LiveRows(r) /\ is_effective_unique_winner(c, LiveRows(r), k))
                    /\ cols # {}
           row == r.rows[k]
<1>1. EnforceLoser(r, p, x, c, k) = IF loses THEN n ELSE r
  <2>1. [j \in S |-> NulledRow(r.rows[j], cols, v)] = [j \in {k} |-> NulledRow(r.rows[k], cols, v)]
    <3> HIDE DEF cols, v
    <3> QED OBVIOUS
  <2>2. n = WrittenRows(r, p, [j \in {k} |-> NulledRow(r.rows[k], cols, v)], <<>>)
    <3> HIDE DEF cols
    <3> QED BY <2>1 DEF Nulling, v
  <2> HIDE DEF n
  <2> QED BY <2>2 DEF EnforceLoser
<1>2. row \in Row /\ v \in Version
  BY ReplicaFields, NextIsVersion
<1>3. DOMAIN x.value \in SUBSET Cols /\ cols \subseteq DOMAIN x.value
  BY ClaimKeyColumns DEF Held
<1> HIDE DEF cols
<1>4. CASE loses
  <2>1. PICK e \in cols : e \in Cols
    BY <1>3, <1>4
  <2>2. /\ n \in ReplicaState
        /\ n.rows[k] = NulledRow(row, cols, v)
        /\ \A j \in Keys : n.tombs[j] = r.tombs[j] /\ (j # k => n.rows[j] = r.rows[j])
    <3>1. S \in SUBSET Keys
      OBVIOUS
    <3>2. \A j \in Keys : j \in S <=> j = k
      OBVIOUS
    <3> HIDE DEF S, n
    <3> QED BY <3>1, <3>2, NullingFacts DEF n, v
  <2> HIDE DEF n, v, row
  <2>3. /\ NulledRow(row, cols, v).deleted = row.deleted
        /\ NulledRow(row, cols, v).delVersion = row.delVersion
        /\ \A d \in Cols : NulledRow(row, cols, v).cells[d] =
                              IF d \in cols THEN [value |-> Null, version |-> v]
                              ELSE row.cells[d]
    BY <1>2, NulledRowType
  <2>4. NulledRow(row, cols, v) # NoRow
    BY <1>2, <2>1, NulledRowFades
  <2>5. \A d \in Cols : IF d \in cols THEN n.rows[k].cells[d].value = Null
                        ELSE n.rows[k].cells[d] = row.cells[d]
    BY <2>2, <2>3
  <2>6. Visible(n, k)
    BY <1>4, <2>2, <2>3, <2>4 DEF Visible, row
  <2> QED BY <1>1, <1>4, <2>2, <2>3, <2>5, <2>6 DEF row, cols
<1>5. CASE ~loses
  BY <1>1, <1>5
<1> QED BY <1>4, <1>5

LEMMA EnforceLoserWipes ==
  ASSUME NEW r \in ReplicaState, NEW p \in Peers, NEW x \in ClaimKeys, NEW c, NEW k \in Keys
  PROVE  LET s == EnforceLoser(r, p, x, c, k)
         IN  s \in ReplicaState /\ Wipes(r, s)
<1> DEFINE s == EnforceLoser(r, p, x, c, k)
           cols == Held(r.rows[k], DOMAIN x.value)
<1>1. \/ s = r
      \/ /\ s \in ReplicaState
         /\ Visible(r, k) /\ Visible(s, k)
         /\ s.rows[k].deleted = r.rows[k].deleted
         /\ s.rows[k].delVersion = r.rows[k].delVersion
         /\ \A d \in Cols : IF d \in cols THEN s.rows[k].cells[d].value = Null
                            ELSE s.rows[k].cells[d] = r.rows[k].cells[d]
         /\ \A j \in Keys : s.tombs[j] = r.tombs[j] /\ (j # k => s.rows[j] = r.rows[j])
  BY EnforceLoserWrites
<1>2. \A d \in cols : ValueAt(r.rows[k], d) # Null
  BY DEF Held
<1> HIDE DEF s, cols
<1>3. CASE s = r
  BY <1>3, WipesItself DEF s
<1>4. CASE s # r
  <2>1. \A j \in Keys : j # k => Visible(s, j) = Visible(r, j)
    BY <1>1, <1>4 DEF Visible
  <2>2. Visible(s, k) = Visible(r, k)
    BY <1>1, <1>4 DEF Visible
  <2>3. ASSUME NEW j \in Keys
        PROVE  /\ Visible(s, j) = Visible(r, j)
               /\ s.rows[j].deleted = r.rows[j].deleted
               /\ s.rows[j].delVersion = r.rows[j].delVersion
               /\ s.tombs[j] = r.tombs[j]
               /\ \A d \in Cols : \/ s.rows[j].cells[d] = r.rows[j].cells[d]
                                  \/ s.rows[j].cells[d].value = Null /\ ValueAt(r.rows[j], d) # Null
    BY <1>1, <1>2, <1>4, <2>1, <2>2
  <2>4. Wipes(r, s)
    BY <2>3 DEF Wipes
  <2> QED BY <1>1, <1>4, <2>4 DEF s
<1> QED BY <1>3, <1>4

LEMMA EnforceClaimWipes ==
  ASSUME NEW r \in ReplicaState, NEW p \in Peers, NEW x \in ClaimKeys, NEW c \in ClaimOf(Keys)
  PROVE  LET s == EnforceClaim(r, p, x, c)
         IN  s \in ReplicaState /\ Wipes(r, s)
<1> DEFINE losers == c.losers
           n == Len(losers)
           A == {q \in ReplicaState : Wipes(r, q)}
<1>1. losers \in Seq(Entry)
  <2>1. CASE c = NoClaim
    BY <2>1 DEF NoClaim
  <2> QED BY <2>1, ClaimFields
<1> HIDE DEF losers
<1>2. n \in Nat /\ \A i \in 1..n : losers[i].row \in Keys
  <2>1. n \in Nat /\ \A i \in 1..n : losers[i] \in Entry
    BY <1>1
  <2> QED BY <2>1, EntryFields
<1>3. ASSUME NEW q \in A, NEW k \in Keys
      PROVE  EnforceLoser(q, p, x, c, k) \in A
  <2>1. EnforceLoser(q, p, x, c, k) \in ReplicaState /\ Wipes(q, EnforceLoser(q, p, x, c, k))
    BY EnforceLoserWipes
  <2> QED BY <2>1, WipesTransitive
<1>4. r \in A
  BY WipesItself
<1>5. \E g \in [0..n -> A] : g[n] = EnforceClaim(r, p, x, c)
  <2>1. \A a \in A, i \in 1..Len(losers) : EnforceLoser(a, p, x, c, losers[i].row) \in A
    BY <1>2, <1>3
  <2>2. losers = c.losers
    BY DEF losers
  <2>3. PICK last : last = EnforceClaim(r, p, x, c)
    OBVIOUS
  <2> HIDE DEF A
  <2> QED BY <1>1, <1>4, <2>1, <2>2, <2>3, EnforceClaimChain
<1>6. n \in 0..n
  BY <1>2
<1> HIDE DEF n
<1> QED BY <1>5, <1>6

LEMMA UniquenessWipes ==
  ASSUME NEW r \in ReplicaState, NEW p \in Peers, NEW registry \in Registry
  PROVE  LET s == enforce_uniqueness_tombstones(r, p, registry)
         IN  s \in ReplicaState /\ Wipes(r, s)
<1> DEFINE order == SetToSeq(ClaimKeys)
           n == Len(order)
           A == {q \in ReplicaState : Wipes(r, q)}
<1>1. order \in Seq(ClaimKeys)
  BY RegistryAssumption, SetToSeqType
<1> HIDE DEF order
<1>2. n \in Nat /\ \A i \in 1..n : order[i] \in ClaimKeys
  BY <1>1
<1>3. ASSUME NEW q \in A, NEW x \in ClaimKeys
      PROVE  EnforceClaim(q, p, x, registry[x]) \in A
  <2>1. registry[x] \in ClaimOf(Keys)
    BY DEF Registry
  <2>2. EnforceClaim(q, p, x, registry[x]) \in ReplicaState
        /\ Wipes(q, EnforceClaim(q, p, x, registry[x]))
    BY <2>1, EnforceClaimWipes
  <2> QED BY <2>2, WipesTransitive
<1>4. r \in A
  BY WipesItself
<1>5. \E g \in [0..n -> A] : g[n] = enforce_uniqueness_tombstones(r, p, registry)
  <2>1. \A a \in A, i \in 1..Len(order) : EnforceClaim(a, p, order[i], registry[order[i]]) \in A
    BY <1>2, <1>3
  <2>2. order = SetToSeq(ClaimKeys)
    BY DEF order
  <2>3. PICK last : last = enforce_uniqueness_tombstones(r, p, registry)
    OBVIOUS
  <2> HIDE DEF A
  <2> QED BY <1>1, <1>4, <2>1, <2>2, <2>3, EnforceChain
<1>6. n \in 0..n
  BY <1>2
<1> HIDE DEF n
<1> QED BY <1>5, <1>6

\* Cells that become NULL give no foreign key anything to cascade.
LEMMA WipesKeepsRest ==
  ASSUME NEW r, NEW s, Wipes(r, s), NothingToCascade(r)
  PROVE  NothingToCascade(s)
<1>1. ASSUME NEW t \in Tables
      PROVE  Tombstones(s, t) = Tombstones(r, t)
  <2> DEFINE D == {j \in RowsOf(t) : r.rows[j].deleted /\ r.rows[j].delVersion # NoVersion}
             E == {j \in RowsOf(t) : s.rows[j].deleted /\ s.rows[j].delVersion # NoVersion}
  <2>1. \A j \in RowsOf(t) : /\ j \in Keys
                             /\ s.rows[j].deleted = r.rows[j].deleted
                             /\ s.rows[j].delVersion = r.rows[j].delVersion
    BY DEF RowsOf, Wipes
  <2>2. D = E
    BY <2>1
  <2>3. \A j \in D : s.rows[j].delVersion = r.rows[j].delVersion
    BY <2>1
  <2>4. Tombstones(r, t) = [k \in D |-> r.rows[k].delVersion]
        /\ Tombstones(s, t) = [k \in E |-> s.rows[k].delVersion]
    BY DEF Tombstones
  <2> HIDE DEF D, E
  <2> QED BY <2>2, <2>3, <2>4
<1>2. ASSUME NEW t \in Tables, NEW fk \in ToSet(ForeignKeysTo(t)), NEW dead,
             DOMAIN dead \subseteq Keys, Affected(r, dead, fk) = {}
      PROVE  Affected(s, dead, fk) = {}
  <2>1. ASSUME NEW j \in Affected(s, dead, fk)
        PROVE  j \in Affected(r, dead, fk)
    <3> DEFINE c == fk.column
    <3>1. j \in RowsOf(fk.table) /\ j \in Keys /\ Visible(s, j)
      BY DEF Affected, RowsOf
    <3>2. PICK k \in DOMAIN dead : /\ s.rows[j].cells[c].value = k
                                   /\ NotNewer(s.rows[j].cells[c].version, dead[k])
      BY DEF Affected
    <3>3. c \in Cols
      BY ForeignKeysToFacts, ForeignKeyFields DEF ToSet
    <3>4. s.rows[j].cells[c].value # Null
      BY <1>2, <3>2, NullIsNoKey
    <3>5. s.rows[j].cells[c] = r.rows[j].cells[c] /\ Visible(r, j)
      BY <3>1, <3>3, <3>4 DEF Wipes
    <3> QED BY <3>1, <3>2, <3>5 DEF Affected
  <2> QED BY <1>2, <2>1
<1>3. ASSUME NEW t \in Tables, NEW fk \in ToSet(ForeignKeysTo(t))
      PROVE  Quiet(s, Tombstones(s, t), fk)
  <2>1. Quiet(r, Tombstones(r, t), fk)
    BY DEF NothingToCascade, QuietFrom
  <2>2. DOMAIN Tombstones(r, t) \subseteq Keys
    BY DEF Tombstones, RowsOf
  <2> QED BY <1>1, <1>2, <2>1, <2>2 DEF Quiet
<1> QED BY <1>3 DEF NothingToCascade, QuietFrom

\* Where nothing is left to cascade, a pass changes nothing.
LEMMA QuietPassIsIdle ==
  ASSUME NEW r, NEW p, NothingToCascade(r)
  PROVE  CascadePass(r, p) = r
<1>1. ASSUME NEW t \in Tables
      PROVE  CascadeFrom(r, p, t) = r
  <2> DEFINE dead == Tombstones(r, t)
             fks == ForeignKeysTo(t)
             n == Len(fks)
             A == {r}
  <2>1. fks \in Seq(ForeignKeyDef)
    BY ForeignKeysToFacts
  <2>2. ASSUME NEW fk \in ToSet(fks)
        PROVE  ApplyPolicy(r, p, fk, Affected(r, dead, fk)) = r
    BY DEF NothingToCascade, QuietFrom, Quiet, ApplyPolicy
  <2>3. \A a \in A, i \in 1..n : ApplyPolicy(a, p, fks[i], Affected(a, dead, fks[i])) \in A
    <3>1. \A i \in 1..n : fks[i] \in ToSet(fks)
      BY <2>1 DEF ToSet
    <3> QED BY <2>2, <3>1
  <2>4. PICK last : last = CascadeDead(r, p, t, dead)
    OBVIOUS
  <2>5. r \in A /\ fks = ForeignKeysTo(t) /\ n = Len(fks) /\ n \in Nat
    BY <2>1
  <2>6. \E g \in [0..n -> A] : g[n] = last
    <3> HIDE DEF A, dead, fks
    <3> QED BY <2>1, <2>3, <2>4, <2>5, CascadeDeadChain
  <2>7. last = r
    <3> HIDE DEF n
    <3>1. n \in 0..n
      BY <2>5
    <3> QED BY <2>6, <3>1
  <2> QED BY <2>4, <2>7 DEF CascadeFrom
<1> DEFINE n == Len(TableOrder)
           A == {r}
<1>2. TableOrder \in Seq(Tables) /\ n \in Nat
  BY SchemaAssumption
<1>3. \A a \in A, i \in 1..n : CascadeFrom(a, p, TableOrder[i]) \in A
  BY <1>1, <1>2
<1>4. r \in A
  OBVIOUS
<1>5. PICK last : last = CascadePass(r, p)
  OBVIOUS
<1>6. \E g \in [0..n -> A] : g[n] = last
  <2> HIDE DEF A
  <2> QED BY <1>2, <1>3, <1>4, <1>5, CascadePassChain
<1>7. n \in 0..n
  BY <1>2
<1> HIDE DEF n
<1> QED BY <1>5, <1>6, <1>7

\* The cascade that runs after uniqueness finds nothing to do: the losers have
\* had cells set to NULL, none has been deleted (step 3 of EngineHost::sync, and
\* the last pass of exec_delete).
THEOREM SecondCascadeIsIdle ==
  ASSUME NEW r \in ReplicaState, NEW p \in Peers, NEW registry \in Registry
  PROVE  /\ Enforced(r, p, registry) =
              enforce_uniqueness_tombstones(enforce_fk_cascades(r, p), p, registry)
         /\ Wipes(enforce_fk_cascades(r, p), Enforced(r, p, registry))
<1> DEFINE a == enforce_fk_cascades(r, p)
           b == enforce_uniqueness_tombstones(a, p, registry)
           s == enforce_fk_cascades(b, p)
<1>1. s = Enforced(r, p, registry)
  BY DEF Enforced
<1>2. a \in ReplicaState /\ NothingToCascade(a)
  BY CascadesEnd DEF Calms
<1> HIDE DEF a
<1>3. b \in ReplicaState /\ Wipes(a, b)
  BY <1>2, UniquenessWipes
<1>4. NothingToCascade(b)
  <2> HIDE DEF b
  <2> QED BY <1>2, <1>3, WipesKeepsRest
<1>5. CascadePass(b, p) = b
  <2> HIDE DEF b
  <2> QED BY <1>4, QuietPassIsIdle
<1>6. s = b
  <2> HIDE DEF b
  <2> QED BY <1>3, <1>5, CascadesEnd
<1> HIDE DEF b, s
<1> QED BY <1>1, <1>3, <1>6 DEF a, b

\* The cells of row w in the columns cols stay as they are.
KeepsCells(r, s, w, cols) ==
  /\ LiveRows(s) = LiveRows(r)
  /\ \A d \in cols : s.rows[w].cells[d] = r.rows[w].cells[d]

\* Enforcing claim c on y does not touch row w in the columns cols: w is no loser of
\* it, the claim is on other columns, or w takes the place of a dead owner.
Exempts(y, c, live, w, cols) ==
  \/ w \notin LoserRows(c)
  \/ DOMAIN y.value \cap cols = {}
  \/ c.owner \notin live /\ is_effective_unique_winner(c, live, w)

LEMMA KeepsCellsTransitive ==
  ASSUME NEW r, NEW q, NEW s, NEW w, NEW cols,
         KeepsCells(r, q, w, cols), KeepsCells(q, s, w, cols)
  PROVE  KeepsCells(r, s, w, cols)
BY DEF KeepsCells

LEMMA EnforceLoserKeepsCells ==
  ASSUME NEW r \in ReplicaState, NEW p \in Peers, NEW y \in ClaimKeys, NEW c,
         NEW k \in LoserRows(c), k \in Keys, NEW w \in Keys, NEW cols \in SUBSET Cols,
         Exempts(y, c, LiveRows(r), w, cols)
  PROVE  LET s == EnforceLoser(r, p, y, c, k)
         IN  s \in ReplicaState /\ KeepsCells(r, s, w, cols)
<1> DEFINE s == EnforceLoser(r, p, y, c, k)
           held == Held(r.rows[k], DOMAIN y.value)
<1>1. s \in ReplicaState /\ LiveRows(s) = LiveRows(r)
  BY EnforceLoserWipes, WipesLive
<1>2. \/ s = r
      \/ /\ ~(c.owner \notin LiveRows(r) /\ is_effective_unique_winner(c, LiveRows(r), k))
         /\ \A d \in Cols : d \notin held => s.rows[k].cells[d] = r.rows[k].cells[d]
         /\ \A j \in Keys : j # k => s.rows[j] = r.rows[j]
  BY EnforceLoserWrites
<1>3. held \subseteq DOMAIN y.value
  BY DEF Held
<1> HIDE DEF s, held
<1>4. ASSUME NEW d \in cols
      PROVE  s.rows[w].cells[d] = r.rows[w].cells[d]
  <2>1. CASE s = r
    BY <2>1
  <2>2. CASE w # k
    BY <1>2, <2>2
  <2>3. CASE w = k /\ s # r
    <3>1. DOMAIN y.value \cap cols = {}
      BY <1>2, <2>3 DEF Exempts
    <3>2. d \notin held /\ d \in Cols
      BY <1>3, <3>1
    <3> QED BY <1>2, <2>3, <3>2
  <2> QED BY <2>1, <2>2, <2>3
<1> QED BY <1>1, <1>4 DEF KeepsCells, s

LEMMA EnforceClaimKeepsCells ==
  ASSUME NEW r \in ReplicaState, NEW p \in Peers, NEW y \in ClaimKeys, NEW c \in ClaimOf(Keys),
         NEW w \in Keys, NEW cols \in SUBSET Cols, Exempts(y, c, LiveRows(r), w, cols)
  PROVE  LET s == EnforceClaim(r, p, y, c)
         IN  s \in ReplicaState /\ KeepsCells(r, s, w, cols)
<1> DEFINE losers == c.losers
           n == Len(losers)
           A == {q \in ReplicaState : KeepsCells(r, q, w, cols)}
<1>1. losers \in Seq(Entry)
  <2>1. CASE c = NoClaim
    BY <2>1 DEF NoClaim
  <2> QED BY <2>1, ClaimFields
<1>2. n \in Nat /\ \A i \in 1..n : losers[i].row \in LoserRows(c)
  BY <1>1 DEF LoserRows
<1> HIDE DEF losers
<1>3. LoserRows(c) \subseteq Keys
  BY LoserRowsAreKeys
<1>4. ASSUME NEW q \in A, NEW k \in LoserRows(c)
      PROVE  EnforceLoser(q, p, y, c, k) \in A
  <2>1. Exempts(y, c, LiveRows(q), w, cols)
    BY DEF KeepsCells
  <2>2. k \in Keys
    BY <1>3
  <2>3. /\ EnforceLoser(q, p, y, c, k) \in ReplicaState
        /\ KeepsCells(q, EnforceLoser(q, p, y, c, k), w, cols)
    BY <2>1, <2>2, EnforceLoserKeepsCells
  <2> QED BY <2>3, KeepsCellsTransitive
<1>5. r \in A
  BY DEF KeepsCells
<1>6. \E g \in [0..n -> A] : g[n] = EnforceClaim(r, p, y, c)
  <2>1. \A a \in A, i \in 1..Len(losers) : EnforceLoser(a, p, y, c, losers[i].row) \in A
    BY <1>2, <1>4
  <2>2. losers = c.losers
    BY DEF losers
  <2>3. PICK last : last = EnforceClaim(r, p, y, c)
    OBVIOUS
  <2> HIDE DEF A
  <2> QED BY <1>1, <1>5, <2>1, <2>2, <2>3, EnforceClaimChain
<1>7. n \in 0..n
  BY <1>2
<1> HIDE DEF n
<1> QED BY <1>6, <1>7

LEMMA UniquenessKeepsCells ==
  ASSUME NEW r \in ReplicaState, NEW p \in Peers, NEW registry \in Registry,
         NEW w \in Keys, NEW cols \in SUBSET Cols,
         \A y \in ClaimKeys : Exempts(y, registry[y], LiveRows(r), w, cols)
  PROVE  LET s == enforce_uniqueness_tombstones(r, p, registry)
         IN  s \in ReplicaState /\ KeepsCells(r, s, w, cols)
<1> DEFINE order == SetToSeq(ClaimKeys)
           n == Len(order)
           A == {q \in ReplicaState : KeepsCells(r, q, w, cols)}
<1>1. order \in Seq(ClaimKeys)
  BY RegistryAssumption, SetToSeqType
<1> HIDE DEF order
<1>2. n \in Nat /\ \A i \in 1..n : order[i] \in ClaimKeys
  BY <1>1
<1>3. ASSUME NEW q \in A, NEW y \in ClaimKeys
      PROVE  EnforceClaim(q, p, y, registry[y]) \in A
  <2>1. registry[y] \in ClaimOf(Keys)
    BY DEF Registry
  <2>2. Exempts(y, registry[y], LiveRows(q), w, cols)
    BY DEF KeepsCells
  <2>3. EnforceClaim(q, p, y, registry[y]) \in ReplicaState
        /\ KeepsCells(q, EnforceClaim(q, p, y, registry[y]), w, cols)
    BY <2>1, <2>2, EnforceClaimKeepsCells
  <2> QED BY <2>3, KeepsCellsTransitive
<1>4. r \in A
  BY DEF KeepsCells
<1>5. \E g \in [0..n -> A] : g[n] = enforce_uniqueness_tombstones(r, p, registry)
  <2>1. \A a \in A, i \in 1..Len(order) : EnforceClaim(a, p, order[i], registry[order[i]]) \in A
    BY <1>2, <1>3
  <2>2. order = SetToSeq(ClaimKeys)
    BY DEF order
  <2>3. PICK last : last = enforce_uniqueness_tombstones(r, p, registry)
    OBVIOUS
  <2> HIDE DEF A
  <2> QED BY <1>1, <1>4, <2>1, <2>2, <2>3, EnforceChain
<1>6. n \in 0..n
  BY <1>2
<1> HIDE DEF n
<1> QED BY <1>5, <1>6

\* Of the entries with indices in I some is older than no other.
LatestIn(losers, I) ==
  \E i \in I : \A j \in I : ~VLess(losers[i].version, losers[j].version)

LEMMA LatestExists ==
  ASSUME NEW losers \in Seq(Entry), NEW I \in SUBSET (1..Len(losers)), I # {}
  PROVE  LatestIn(losers, I)
<1> DEFINE n == Len(losers)
           S == {m \in 1..n : I \cap (1..m) # {} /\ ~LatestIn(losers, I \cap (1..m))}
<1>1. n \in Nat /\ \A i \in 1..n : losers[i] \in Entry
  OBVIOUS
<1>2. \A i \in 1..n : losers[i].version \in OptVersion
  BY <1>1, VersionIsOpt DEF Entry
<1>3. \A i, j \in 1..n : \/ VLess(losers[i].version, losers[j].version)
                         \/ losers[i].version = losers[j].version
                         \/ VLess(losers[j].version, losers[i].version)
  BY <1>2, VLessTotal
<1>4. ASSUME S # {} PROVE FALSE
  <2>1. S \in SUBSET Nat
    OBVIOUS
  <2>2. PICK m \in S : \A y \in S : m <= y
    <3>1. Min(S) \in S /\ \A y \in S : Min(S) <= y
      <4> HIDE DEF S
      <4> QED BY <1>4, <2>1, MinIsLeast
    <3> QED BY <3>1
  <2> DEFINE J == I \cap (1..(m - 1))
             K == I \cap (1..m)
  <2>3. m \in 1..n /\ K # {} /\ ~LatestIn(losers, K)
    BY <2>2
  <2>4. m \notin I => K = J
    BY <2>3
  <2>5. m \in I => K = J \cup {m}
    BY <2>3
  <2>6. J # {} => LatestIn(losers, J)
    <3>1. ASSUME J # {} PROVE m - 1 \in 1..n /\ m - 1 \notin S
      <4>1. m # 1
        BY <3>1
      <4>2. m - 1 \in 1..n /\ ~(m <= m - 1)
        BY <1>1, <2>3, <4>1
      <4> QED BY <2>2, <4>2
    <3> QED BY <3>1
  <2>7. J \subseteq 1..n /\ \A i \in J : i \in 1..n
    BY <1>1, <2>3
  <2> HIDE DEF J, K, S
  <2>8. m \in I
    BY <2>3, <2>4, <2>6
  <2>9. CASE J = {}
    <3>1. ~VLess(losers[m].version, losers[m].version)
      BY <1>2, <2>3, VLessIrreflexive
    <3> QED BY <2>3, <2>5, <2>8, <2>9, <3>1 DEF LatestIn
  <2>10. CASE J # {}
    <3>1. PICK i \in J : \A j \in J : ~VLess(losers[i].version, losers[j].version)
      BY <2>6, <2>10 DEF LatestIn
    <3>2. i \in 1..n
      BY <2>7
    <3>3. CASE ~VLess(losers[i].version, losers[m].version)
      BY <2>3, <2>5, <2>8, <3>1, <3>3 DEF LatestIn
    <3>4. CASE VLess(losers[i].version, losers[m].version)
      <4>1. ASSUME NEW j \in K
            PROVE  ~VLess(losers[m].version, losers[j].version)
        <5>1. CASE j = m
          BY <1>2, <2>3, <5>1, VLessIrreflexive
        <5>2. CASE j \in J
          <6>1. j \in 1..n /\ ~VLess(losers[i].version, losers[j].version)
            BY <2>7, <3>1, <5>2
          <6> QED BY <1>2, <2>3, <3>2, <3>4, <6>1, VLessTransitive
        <5> QED BY <2>5, <2>8, <5>1, <5>2
      <4> QED BY <2>3, <2>5, <2>8, <4>1 DEF LatestIn
    <3> QED BY <3>3, <3>4
  <2> QED BY <2>9, <2>10
<1>5. CASE n # 0
  <2>1. n \in 1..n /\ n \notin S
    <3>1. n \in 1..n
      <4> HIDE DEF n
      <4> QED BY <1>1, <1>5
    <3>2. S = {}
      <4> HIDE DEF S
      <4> QED BY <1>4
    <3> HIDE DEF S, n
    <3> QED BY <3>1, <3>2
  <2>2. I \cap (1..n) = I
    OBVIOUS
  <2>3. ~(I \cap (1..n) # {} /\ ~LatestIn(losers, I \cap (1..n)))
    <3> HIDE DEF n
    <3> QED BY <2>1
  <2> HIDE DEF n
  <2> QED BY <2>2, <2>3
<1>6. CASE n = 0
  <2>1. 1..n = {}
    BY <1>6
  <2> HIDE DEF n, S
  <2> QED BY <2>1 DEF n
<1> QED BY <1>5, <1>6

\* When the owner of a claim is dead and some live loser is left, one of them is
\* the effective winner, provided that each is among the losers once.
LEMMA HeirExists ==
  ASSUME NEW c \in ClaimOf(Keys), NEW live, c.owner \notin live,
         LoserRows(c) \cap live # {},
         \A i, j \in DOMAIN c.losers :
           c.losers[i].row \in live /\ c.losers[i].row = c.losers[j].row => i = j
  PROVE  \E w \in LoserRows(c) \cap live : is_effective_unique_winner(c, live, w)
<1> DEFINE losers == c.losers
           I == {i \in 1..Len(losers) : losers[i].row \in live}
<1>1. losers \in Seq(Entry)
  <2>1. CASE c = NoClaim
    BY <2>1 DEF NoClaim
  <2> QED BY <2>1, ClaimFields
<1>2. DOMAIN losers = 1..Len(losers)
  BY <1>1
<1>3. LoserRows(c) = {losers[i].row : i \in 1..Len(losers)}
  BY <1>2 DEF LoserRows
<1>4. I # {}
  BY <1>3
<1>5. PICK i \in I : \A j \in I : ~VLess(losers[i].version, losers[j].version)
  <2>1. I \in SUBSET (1..Len(losers))
    OBVIOUS
  <2>2. LatestIn(losers, I)
    <3> HIDE DEF losers, I
    <3> QED BY <1>1, <1>4, <2>1, LatestExists
  <2> QED BY <2>2 DEF LatestIn
<1> DEFINE w == losers[i].row
<1>6. w \in live /\ w \in LoserRows(c) /\ i \in DOMAIN losers
  BY <1>2, <1>3
<1>7. \A j \in 1..(i - 1) : losers[j].row # w
  <2>1. ASSUME NEW j \in 1..(i - 1), losers[j].row = w PROVE FALSE
    <3>1. j \in DOMAIN losers /\ j # i
      BY <1>1, <1>2
    <3> QED BY <1>6, <2>1, <3>1
  <2> QED BY <2>1
<1>8. \A j \in DOMAIN losers :
        losers[j].row \in live \ {w} => ~VLess(losers[i].version, losers[j].version)
  BY <1>2, <1>5
<1>9. is_effective_unique_winner(c, live, w)
  BY <1>6, <1>7, <1>8 DEF is_effective_unique_winner
<1> QED BY <1>6, <1>9

\* When the owner of x has died by the time uniqueness is enforced, one of the live
\* losers keeps its cells through the passes, provided that each has lost x once,
\* and nothing else in the columns of x.
LEMMA HeirKeepsCells ==
  ASSUME NEW r \in ReplicaState, NEW p \in Peers, NEW registry \in Registry,
         NEW x \in ClaimKeys, NEW a, a = enforce_fk_cascades(r, p),
         registry[x].owner \notin LiveRows(a),
         LoserRows(registry[x]) \cap LiveRows(a) # {},
         \A k \in LoserRows(registry[x]) \cap LiveRows(a) : LostOnly(registry, k, x)
  PROVE  \E w \in LoserRows(registry[x]) \cap LiveRows(a) :
           KeepsCells(a, Enforced(r, p, registry), w, DOMAIN x.value)
<1> DEFINE c == registry[x]
           live == LiveRows(a)
<1>1. a \in ReplicaState
  BY CascadesEnd DEF Calms
<1>2. Enforced(r, p, registry) = enforce_uniqueness_tombstones(a, p, registry)
  BY SecondCascadeIsIdle
<1>3. c \in ClaimOf(Keys) /\ DOMAIN x.value \in SUBSET Cols
  BY ClaimKeyColumns DEF Registry
<1>4. \A i, j \in DOMAIN c.losers :
        c.losers[i].row \in live /\ c.losers[i].row = c.losers[j].row => i = j
  BY DEF LostOnly, LoserRows
<1> HIDE DEF c, live
<1>5. PICK w \in LoserRows(c) \cap live : is_effective_unique_winner(c, live, w)
  <2>1. c.owner \notin live /\ LoserRows(c) \cap live # {}
    BY DEF c, live
  <2> QED BY <1>3, <1>4, <2>1, HeirExists
<1>6. w \in Keys
  BY DEF live, LiveRows
<1>7. ASSUME NEW y \in ClaimKeys
      PROVE  Exempts(y, registry[y], live, w, DOMAIN x.value)
  <2>1. CASE y = x
    BY <1>5, <2>1 DEF Exempts, c, live
  <2>2. CASE y # x
    <3>1. LostOnly(registry, w, x)
      BY <1>5 DEF c, live
    <3>2. w \in LoserRows(registry[y]) => DOMAIN y.value \cap DOMAIN x.value = {}
      BY <2>2, <3>1 DEF LostOnly
    <3> QED BY <3>2 DEF Exempts
  <2> QED BY <2>1, <2>2
<1> DEFINE cols == DOMAIN x.value
<1>8. \A y \in ClaimKeys : Exempts(y, registry[y], LiveRows(a), w, cols)
  BY <1>7 DEF live
<1>9. cols \in SUBSET Cols
  BY <1>3
<1> HIDE DEF cols
<1>10. KeepsCells(a, enforce_uniqueness_tombstones(a, p, registry), w, cols)
  BY <1>1, <1>6, <1>8, <1>9, UniquenessKeepsCells
<1> QED BY <1>2, <1>5, <1>10 DEF cols, c, live

-----------------------------------------------------------------------------
(***************************************************************************)
(* What the passes leave alone.                                            *)
(***************************************************************************)
LEMMA ClaimKeyIsClearable ==
  ASSUME NEW x \in ClaimKeys
  PROVE  DOMAIN x.value \subseteq Clearable(x.table)
<1>1. PICK t \in Tables : \E u \in Schemas[t].unique :
        x \in {[table |-> t, value |-> y] :
                 y \in {f \in [u -> Values \ {Null}] : \A c \in u : f[c] \in Schemas[t].columns[c]}}
  BY DEF ClaimKeys
<1>2. PICK u \in Schemas[t].unique : DOMAIN x.value = u /\ x.table = t
  BY <1>1
<1> QED BY <1>2 DEF Clearable

LEMMA EnforceLoserSpares ==
  ASSUME NEW r \in ReplicaState, NEW p \in Peers, NEW x \in ClaimKeys, NEW c,
         NEW k \in RowsOf(x.table)
  PROVE  LET s == EnforceLoser(r, p, x, c, k)
         IN  s \in ReplicaState /\ Spares(r, s)
<1> DEFINE cols == Held(r.rows[k], DOMAIN x.value)
           S == {k}
           v == NextVersion(r, p)
           n == Nulling(r, p, S, cols)
           s == EnforceLoser(r, p, x, c, k)
<1>1. s \in {r, n}
  <2>1. [j \in S |-> NulledRow(r.rows[j], cols, v)] = [j \in {k} |-> NulledRow(r.rows[k], cols, v)]
    <3> HIDE DEF cols, v
    <3> QED OBVIOUS
  <2>2. n = WrittenRows(r, p, [j \in {k} |-> NulledRow(r.rows[k], cols, v)], <<>>)
    <3> HIDE DEF cols
    <3> QED BY <2>1 DEF Nulling, v
  <2> HIDE DEF n
  <2> QED BY <2>2 DEF EnforceLoser
<1>2. k \in Keys /\ TableOf[k] = x.table
  BY DEF RowsOf
<1>3. s \in ReplicaState /\ LiveRows(s) = LiveRows(r)
  BY <1>2, EnforceLoserResolves DEF Quiets
<1>4. cols \subseteq Clearable(TableOf[k])
  BY <1>2, ClaimKeyIsClearable DEF Held
<1>5. ASSUME NEW j \in Keys, NEW d \in Cols \ Clearable(TableOf[j])
      PROVE  n.rows[j].cells[d] = r.rows[j].cells[d]
  <2>1. S \in SUBSET Keys /\ (j \in S <=> j = k)
    BY <1>2
  <2>2. n.rows[j] = IF j \in S THEN NulledRow(r.rows[j], cols, v) ELSE r.rows[j]
    <3> HIDE DEF S, cols, n
    <3> QED BY <2>1, NullingFacts DEF n, v
  <2>3. CASE j = k
    <3> DEFINE row == r.rows[j]
    <3>1. row \in Row /\ v \in Version
      BY ReplicaFields, NextIsVersion
    <3>2. n.rows[j] = NulledRow(row, cols, v) /\ d \in Cols /\ d \notin cols
      BY <1>4, <2>1, <2>2, <2>3
    <3> HIDE DEF row, cols, v, n
    <3>3. \A e \in Cols : NulledRow(row, cols, v).cells[e] =
                              IF e \in cols THEN [value |-> Null, version |-> v]
                              ELSE row.cells[e]
      BY <3>1, NulledRowType
    <3>4. NulledRow(row, cols, v).cells[d] = row.cells[d]
      BY <3>2, <3>3
    <3> QED BY <3>2, <3>4 DEF row
  <2>4. CASE j # k
    BY <2>1, <2>2, <2>4
  <2> QED BY <2>3, <2>4
<1> HIDE DEF n, s
<1>6. Spares(r, s)
  BY <1>1, <1>3, <1>5 DEF Spares
<1> QED BY <1>3, <1>6 DEF s

LEMMA EnforceClaimSpares ==
  ASSUME NEW r \in ReplicaState, NEW p \in Peers, NEW x \in ClaimKeys, NEW c \in ClaimOf(Keys),
         LoserRows(c) \subseteq RowsOf(x.table)
  PROVE  LET s == EnforceClaim(r, p, x, c)
         IN  s \in ReplicaState /\ Spares(r, s)
<1> DEFINE losers == c.losers
           n == Len(losers)
           A == {q \in ReplicaState : Spares(r, q)}
<1>1. losers \in Seq(Entry)
  <2>1. CASE c = NoClaim
    BY <2>1 DEF NoClaim
  <2> QED BY <2>1, ClaimFields
<1>2. n \in Nat /\ \A i \in 1..n : losers[i].row \in RowsOf(x.table)
  BY <1>1 DEF LoserRows
<1> HIDE DEF losers
<1>3. ASSUME NEW q \in A, NEW k \in RowsOf(x.table)
      PROVE  EnforceLoser(q, p, x, c, k) \in A
  <2>1. EnforceLoser(q, p, x, c, k) \in ReplicaState /\ Spares(q, EnforceLoser(q, p, x, c, k))
    BY EnforceLoserSpares
  <2> QED BY <2>1, SparesTransitive
<1>4. r \in A
  BY SparesItself
<1>5. \E g \in [0..n -> A] : g[n] = EnforceClaim(r, p, x, c)
  <2>1. \A a \in A, i \in 1..Len(losers) : EnforceLoser(a, p, x, c, losers[i].row) \in A
    BY <1>2, <1>3
  <2>2. losers = c.losers
    BY DEF losers
  <2>3. PICK last : last = EnforceClaim(r, p, x, c)
    OBVIOUS
  <2> HIDE DEF A
  <2> QED BY <1>1, <1>4, <2>1, <2>2, <2>3, EnforceClaimChain
<1>6. n \in 0..n
  BY <1>2
<1> HIDE DEF n
<1> QED BY <1>5, <1>6

\* The losers of a claim are rows of its table.
InTheirTables(registry) == \A x \in ClaimKeys : LoserRows(registry[x]) \subseteq RowsOf(x.table)

LEMMA UniquenessSpares ==
  ASSUME NEW r \in ReplicaState, NEW p \in Peers, NEW registry \in Registry,
         InTheirTables(registry)
  PROVE  LET s == enforce_uniqueness_tombstones(r, p, registry)
         IN  s \in ReplicaState /\ Spares(r, s)
<1> DEFINE order == SetToSeq(ClaimKeys)
           n == Len(order)
           A == {q \in ReplicaState : Spares(r, q)}
<1>1. order \in Seq(ClaimKeys)
  BY RegistryAssumption, SetToSeqType
<1> HIDE DEF order
<1>2. n \in Nat /\ \A i \in 1..n : order[i] \in ClaimKeys
  BY <1>1
<1>3. ASSUME NEW q \in A, NEW x \in ClaimKeys
      PROVE  EnforceClaim(q, p, x, registry[x]) \in A
  <2>1. registry[x] \in ClaimOf(Keys) /\ LoserRows(registry[x]) \subseteq RowsOf(x.table)
    BY DEF Registry, InTheirTables
  <2>2. EnforceClaim(q, p, x, registry[x]) \in ReplicaState
        /\ Spares(q, EnforceClaim(q, p, x, registry[x]))
    BY <2>1, EnforceClaimSpares
  <2> QED BY <2>2, SparesTransitive
<1>4. r \in A
  BY SparesItself
<1>5. \E g \in [0..n -> A] : g[n] = enforce_uniqueness_tombstones(r, p, registry)
  <2>1. \A a \in A, i \in 1..Len(order) : EnforceClaim(a, p, order[i], registry[order[i]]) \in A
    BY <1>2, <1>3
  <2>2. order = SetToSeq(ClaimKeys)
    BY DEF order
  <2>3. PICK last : last = enforce_uniqueness_tombstones(r, p, registry)
    OBVIOUS
  <2> HIDE DEF A
  <2> QED BY <1>1, <1>4, <2>1, <2>2, <2>3, EnforceChain
<1>6. n \in 0..n
  BY <1>2
<1> HIDE DEF n
<1> QED BY <1>5, <1>6

LEMMA EnforcedSpares ==
  ASSUME NEW r \in ReplicaState, NEW p \in Peers, NEW registry \in Registry,
         InTheirTables(registry)
  PROVE  LET s == Enforced(r, p, registry)
         IN  s \in ReplicaState /\ Spares(r, s)
<1> DEFINE a == enforce_fk_cascades(r, p)
           b == enforce_uniqueness_tombstones(a, p, registry)
           s == enforce_fk_cascades(b, p)
<1>1. a \in ReplicaState /\ Spares(r, a)
  BY CascadesEnd DEF Calms
<1>2. s = Enforced(r, p, registry)
  BY DEF Enforced
<1> HIDE DEF a
<1>3. b \in ReplicaState /\ Spares(a, b)
  BY <1>1, UniquenessSpares
<1> HIDE DEF b
<1>4. s \in ReplicaState /\ Spares(b, s)
  BY <1>3, CascadesEnd DEF Calms
<1> HIDE DEF s
<1>5. Spares(r, s)
  BY <1>1, <1>3, <1>4, SparesTransitive
<1> QED BY <1>2, <1>4, <1>5

-----------------------------------------------------------------------------
(***************************************************************************)
(* Two peers that resolve the same conflicts.  Each ticks a clock of its   *)
(* own; what the passes read of a version is only how it compares with the *)
(* versions from before them.                                              *)
(***************************************************************************)

\* Two rows with the same cells and deletes up to those written after tick n: such
\* cells are NULL, and such deletes newer than every reference.
AlikeRows(a, b, n) ==
  /\ a.deleted = b.deleted
  /\ \/ a.delVersion = b.delVersion
     \/ n < a.delVersion.counter /\ n < b.delVersion.counter
  /\ \A c \in Cols : \/ a.cells[c] = b.cells[c] /\ a.cells[c].version.counter <= n
                     \/ a.cells[c].value = Null /\ b.cells[c].value = Null

Alike(r, s, n) ==
  /\ r \in ReplicaState /\ s \in ReplicaState
  /\ n \in Nat /\ n <= r.clock /\ n <= s.clock
  /\ \A k \in Keys : /\ (Visible(r, k) <=> Visible(s, k))
                     /\ (r.tombs[k] = NoVersion <=> s.tombs[k] = NoVersion)
                     /\ AlikeRows(r.rows[k], s.rows[k], n)

LEMMA AlikeLive ==
  ASSUME NEW r, NEW s, NEW n, Alike(r, s, n)
  PROVE  LiveRows(r) = LiveRows(s)
BY DEF Alike, LiveRows

LEMMA AlikeSymmetric ==
  ASSUME NEW r, NEW s, NEW n, Alike(r, s, n)
  PROVE  Alike(s, r, n)
BY DEF Alike, AlikeRows

LEMMA AlikeRank ==
  ASSUME NEW r, NEW s, NEW n, Alike(r, s, n)
  PROVE  Rank(r) = Rank(s)
<1>1. \A w \in Keys \X Cols :
        r.rows[w[1]].cells[w[2]].value = s.rows[w[1]].cells[w[2]].value
  BY DEF Alike, AlikeRows
<1>2. Links(r) = Links(s)
  BY <1>1 DEF Links
<1> QED BY <1>2, AlikeLive DEF Rank

\* A delete after tick n is newer than every reference up to tick n.
LEMMA NotNewerThanLater ==
  ASSUME NEW v \in OptVersion, NEW d \in OptVersion, NEW n \in Nat,
         v.counter <= n, n < d.counter
  PROVE  NotNewer(v, d)
BY OptVersionFields DEF NotNewer

\* The same rows are dead, and by the same versions or by versions after tick n.
SameDead(d, e, n) ==
  /\ DOMAIN d = DOMAIN e /\ DOMAIN d \subseteq Keys
  /\ \A k \in DOMAIN d :
       /\ d[k] \in OptVersion /\ e[k] \in OptVersion
       /\ d[k] = e[k] \/ (n < d[k].counter /\ n < e[k].counter)

LEMMA AlikeTombstones ==
  ASSUME NEW r, NEW s, NEW n, Alike(r, s, n), NEW t
  PROVE  SameDead(Tombstones(r, t), Tombstones(s, t), n)
<1> DEFINE D == {j \in RowsOf(t) : r.rows[j].deleted /\ r.rows[j].delVersion # NoVersion}
           E == {j \in RowsOf(t) : s.rows[j].deleted /\ s.rows[j].delVersion # NoVersion}
<1>1. \A k \in Keys : /\ AlikeRows(r.rows[k], s.rows[k], n)
                      /\ r.rows[k].delVersion \in OptVersion
                      /\ s.rows[k].delVersion \in OptVersion
  BY ReplicaFields, RowFields DEF Alike
<1>2. \A k \in RowsOf(t) : k \in Keys
  BY DEF RowsOf
<1>3. \A k \in Keys : r.rows[k].delVersion # NoVersion <=> s.rows[k].delVersion # NoVersion
  BY <1>1 DEF Alike, AlikeRows, NoVersion
<1>4. D = E /\ D \subseteq Keys
  BY <1>1, <1>2, <1>3 DEF AlikeRows
<1>5. /\ Tombstones(r, t) = [k \in D |-> r.rows[k].delVersion]
      /\ Tombstones(s, t) = [k \in E |-> s.rows[k].delVersion]
  BY DEF Tombstones
<1> HIDE DEF D, E
<1> QED BY <1>1, <1>4, <1>5 DEF SameDead, AlikeRows

\* A foreign key finds the same rows.
LEMMA AlikeAffected ==
  ASSUME NEW r, NEW s, NEW n, Alike(r, s, n), NEW d, NEW e, SameDead(d, e, n),
         NEW fk \in ForeignKeyDef
  PROVE  Affected(r, d, fk) = Affected(s, e, fk)
<1> DEFINE c == fk.column
           Hits(q, dead, j, k) == /\ q.rows[j].cells[c].value = k
                                  /\ NotNewer(q.rows[j].cells[c].version, dead[k])
<1>1. c \in Cols
  BY ForeignKeyFields
<1>2. ASSUME NEW a, NEW b, Alike(a, b, n), NEW f, NEW g, SameDead(f, g, n),
             NEW j \in Keys, NEW k \in DOMAIN f, Hits(a, f, j, k)
      PROVE  Hits(b, g, j, k)
  <2>1. k \in Keys /\ k # Null /\ f[k] \in OptVersion /\ g[k] \in OptVersion
    BY <1>2, NullIsNoKey DEF SameDead
  <2>2. /\ a.rows[j].cells[c] = b.rows[j].cells[c]
        /\ a.rows[j].cells[c].version.counter <= n
    BY <1>1, <1>2, <2>1 DEF Alike, AlikeRows
  <2>3. b.rows[j].cells[c].version \in OptVersion
    BY <1>1, <1>2, ReplicaFields, RowFields, CellVersion DEF Alike
  <2>4. CASE f[k] = g[k]
    BY <1>2, <2>2, <2>4
  <2>5. CASE n < g[k].counter
    BY <1>2, <2>1, <2>2, <2>3, <2>5, NotNewerThanLater DEF Alike
  <2> QED BY <1>2, <2>4, <2>5 DEF SameDead
<1>3. Alike(s, r, n) /\ SameDead(e, d, n)
  BY AlikeSymmetric DEF SameDead
<1>4. \A j \in Keys : \A k \in DOMAIN d : Hits(r, d, j, k) <=> Hits(s, e, j, k)
  <2> HIDE DEF Hits
  <2> QED BY <1>2, <1>3 DEF SameDead
<1>5. \A j \in RowsOf(fk.table) : j \in Keys /\ (Visible(r, j) <=> Visible(s, j))
  BY DEF RowsOf, Alike
<1>6. DOMAIN d = DOMAIN e
  BY DEF SameDead
<1> QED BY <1>4, <1>5, <1>6 DEF Affected

\* The two peers delete the same rows, each at a tick of its own.
LEMMA AlikeCascade ==
  ASSUME NEW r, NEW s, NEW n, Alike(r, s, n), NEW p \in Peers, NEW q \in Peers,
         NEW S \in SUBSET Keys
  PROVE  Alike(Cascade(r, p, S), Cascade(s, q, S), n)
<1> DEFINE a == Cascade(r, p, S)
           b == Cascade(s, q, S)
           v == NextVersion(r, p)
           w == NextVersion(s, q)
<1>1. /\ r \in ReplicaState /\ s \in ReplicaState
      /\ n \in Nat /\ r.clock \in Nat /\ s.clock \in Nat /\ n <= r.clock /\ n <= s.clock
  BY ReplicaFields DEF Alike
<1>2. /\ v.counter = Tick(r.clock) /\ w.counter = Tick(s.clock)
      /\ n < Tick(r.clock) /\ n < Tick(s.clock) /\ v # NoVersion /\ w # NoVersion
  BY <1>1, NextIsVersion DEF NextVersion, Tick
<1>3. /\ a \in ReplicaState /\ a.clock = Tick(r.clock)
      /\ \A k \in Keys :
           /\ a.rows[k] = IF k \in S THEN DeletedRow(r.rows[k], v) ELSE r.rows[k]
           /\ a.tombs[k] = IF k \in S THEN v ELSE r.tombs[k]
  BY <1>1, CascadeFacts
<1>4. /\ b \in ReplicaState /\ b.clock = Tick(s.clock)
      /\ \A k \in Keys :
           /\ b.rows[k] = IF k \in S THEN DeletedRow(s.rows[k], w) ELSE s.rows[k]
           /\ b.tombs[k] = IF k \in S THEN w ELSE s.tombs[k]
  BY <1>1, CascadeFacts
<1> HIDE DEF a, b, v, w
<1>5. n <= a.clock /\ n <= b.clock
  BY <1>1, <1>3, <1>4 DEF Tick
<1>6. ASSUME NEW k \in Keys
      PROVE  /\ (Visible(a, k) <=> Visible(b, k))
             /\ (a.tombs[k] = NoVersion <=> b.tombs[k] = NoVersion)
             /\ AlikeRows(a.rows[k], b.rows[k], n)
  <2>1. /\ (Visible(r, k) <=> Visible(s, k))
        /\ (r.tombs[k] = NoVersion <=> s.tombs[k] = NoVersion)
        /\ AlikeRows(r.rows[k], s.rows[k], n)
    BY DEF Alike
  <2>2. CASE k \in S
    <3>1. a.rows[k] = DeletedRow(r.rows[k], v) /\ b.rows[k] = DeletedRow(s.rows[k], w)
      BY <1>3, <1>4, <2>2
    <3>2. \A row, u : /\ DeletedRow(row, u).cells = row.cells
                      /\ DeletedRow(row, u).deleted = TRUE
                      /\ DeletedRow(row, u).delVersion = u
      BY DeletedRowFields
    <3>3. /\ a.rows[k].cells = r.rows[k].cells /\ a.rows[k].deleted = TRUE
          /\ a.rows[k].delVersion = v
      BY <3>1, <3>2
    <3>4. /\ b.rows[k].cells = s.rows[k].cells /\ b.rows[k].deleted = TRUE
          /\ b.rows[k].delVersion = w
      BY <3>1, <3>2
    <3>5. AlikeRows(a.rows[k], b.rows[k], n)
      BY <1>2, <2>1, <3>3, <3>4 DEF AlikeRows
    <3>6. ~Visible(a, k) /\ ~Visible(b, k)
      BY <3>3, <3>4 DEF Visible
    <3> QED BY <1>2, <1>3, <1>4, <2>2, <3>5, <3>6
  <2>3. CASE k \notin S
    <3>1. a.rows[k] = r.rows[k] /\ b.rows[k] = s.rows[k]
      BY <1>3, <1>4, <2>3
    <3> QED BY <1>3, <1>4, <2>1, <2>3, <3>1 DEF Visible
  <2> QED BY <2>2, <2>3
<1> QED BY <1>1, <1>3, <1>4, <1>5, <1>6 DEF Alike, a, b

\* They set the same column of the same live rows to NULL.
LEMMA AlikeOrphan ==
  ASSUME NEW r, NEW s, NEW n, Alike(r, s, n), NEW p \in Peers, NEW q \in Peers,
         NEW S \in SUBSET LiveRows(r), NEW c \in Cols
  PROVE  Alike(Orphan(r, p, S, c), Orphan(s, q, S, c), n)
<1> DEFINE cols == {c}
           a == Nulling(r, p, S, cols)
           b == Nulling(s, q, S, cols)
           v == NextVersion(r, p)
           w == NextVersion(s, q)
<1>1. /\ r \in ReplicaState /\ s \in ReplicaState /\ S \in SUBSET Keys
      /\ n \in Nat /\ r.clock \in Nat /\ s.clock \in Nat /\ n <= r.clock /\ n <= s.clock
  BY ReplicaFields DEF Alike, LiveRows
<1>2. Orphan(r, p, S, c) = a /\ Orphan(s, q, S, c) = b
  BY DEF Orphan, Nulling
<1> HIDE DEF cols
<1>3. /\ a \in ReplicaState /\ a.clock = Tick(r.clock)
      /\ \A k \in Keys :
           /\ a.rows[k] = IF k \in S THEN NulledRow(r.rows[k], cols, v) ELSE r.rows[k]
           /\ a.tombs[k] = r.tombs[k]
  BY <1>1, NullingFacts
<1>4. /\ b \in ReplicaState /\ b.clock = Tick(s.clock)
      /\ \A k \in Keys :
           /\ b.rows[k] = IF k \in S THEN NulledRow(s.rows[k], cols, w) ELSE s.rows[k]
           /\ b.tombs[k] = s.tombs[k]
  BY <1>1, NullingFacts
<1>5. v \in Version /\ w \in Version /\ c \in cols
  BY <1>1, NextIsVersion DEF cols
<1> HIDE DEF a, b, v, w
<1>6. n <= a.clock /\ n <= b.clock
  BY <1>1, <1>3, <1>4 DEF Tick
<1>7. ASSUME NEW k \in Keys
      PROVE  /\ (Visible(a, k) <=> Visible(b, k))
             /\ (a.tombs[k] = NoVersion <=> b.tombs[k] = NoVersion)
             /\ AlikeRows(a.rows[k], b.rows[k], n)
  <2>1. /\ (Visible(r, k) <=> Visible(s, k))
        /\ (r.tombs[k] = NoVersion <=> s.tombs[k] = NoVersion)
        /\ AlikeRows(r.rows[k], s.rows[k], n)
        /\ r.rows[k] \in Row /\ s.rows[k] \in Row
    BY ReplicaFields DEF Alike
  <2>2. CASE k \in S
    <3> DEFINE x == NulledRow(r.rows[k], cols, v)
               y == NulledRow(s.rows[k], cols, w)
    <3>1. a.rows[k] = x /\ b.rows[k] = y
      BY <1>3, <1>4, <2>2
    <3>2. /\ x.deleted = r.rows[k].deleted /\ x.delVersion = r.rows[k].delVersion
          /\ \A d \in Cols : x.cells[d] = IF d \in cols THEN [value |-> Null, version |-> v]
                                          ELSE r.rows[k].cells[d]
      BY <1>5, <2>1, NulledRowType
    <3>3. /\ y.deleted = s.rows[k].deleted /\ y.delVersion = s.rows[k].delVersion
          /\ \A d \in Cols : y.cells[d] = IF d \in cols THEN [value |-> Null, version |-> w]
                                          ELSE s.rows[k].cells[d]
      BY <1>5, <2>1, NulledRowType
    <3>4. x # NoRow /\ y # NoRow
      BY <1>5, <2>1, NulledRowFades
    <3>5. Visible(r, k)
      BY <2>2 DEF LiveRows
    <3> HIDE DEF x, y
    <3>6. \A d \in Cols : \/ x.cells[d] = y.cells[d] /\ x.cells[d].version.counter <= n
                          \/ x.cells[d].value = Null /\ y.cells[d].value = Null
      BY <2>1, <3>2, <3>3 DEF AlikeRows
    <3>7. AlikeRows(x, y, n)
      BY <2>1, <3>2, <3>3, <3>6 DEF AlikeRows
    <3>8. Visible(a, k) /\ Visible(b, k)
      BY <2>1, <3>1, <3>2, <3>3, <3>4, <3>5 DEF Visible
    <3> QED BY <1>3, <1>4, <2>1, <3>1, <3>7, <3>8
  <2>3. CASE k \notin S
    <3>1. a.rows[k] = r.rows[k] /\ b.rows[k] = s.rows[k]
      BY <1>3, <1>4, <2>3
    <3> QED BY <1>3, <1>4, <2>1, <3>1 DEF Visible
  <2> QED BY <2>2, <2>3
<1>8. Alike(a, b, n)
  BY <1>1, <1>3, <1>4, <1>6, <1>7 DEF Alike
<1> QED BY <1>2, <1>8

LEMMA AlikePolicy ==
  ASSUME NEW r, NEW s, NEW n, Alike(r, s, n), NEW p \in Peers, NEW q \in Peers,
         NEW d, NEW e, SameDead(d, e, n), NEW fk \in ForeignKeyDef
  PROVE  Alike(ApplyPolicy(r, p, fk, Affected(r, d, fk)),
               ApplyPolicy(s, q, fk, Affected(s, e, fk)), n)
<1> DEFINE S == Affected(r, d, fk)
<1>1. Affected(s, e, fk) = S
  BY AlikeAffected
<1>2. S \in SUBSET LiveRows(r) /\ S \in SUBSET Keys
  BY DEF Affected, LiveRows, RowsOf
<1>3. fk.column \in Cols
  BY ForeignKeyFields
<1> HIDE DEF S
<1>4. CASE S # {} /\ fk.on_delete = "Cascade"
  <2>1. ApplyPolicy(r, p, fk, S) = Cascade(r, p, S) /\ ApplyPolicy(s, q, fk, S) = Cascade(s, q, S)
    BY <1>4 DEF ApplyPolicy
  <2> QED BY <1>1, <1>2, <2>1, AlikeCascade DEF S
<1>5. CASE S # {} /\ fk.on_delete = "Orphan"
  <2>1. /\ ApplyPolicy(r, p, fk, S) = Orphan(r, p, S, fk.column)
        /\ ApplyPolicy(s, q, fk, S) = Orphan(s, q, S, fk.column)
    BY <1>5 DEF ApplyPolicy
  <2> QED BY <1>1, <1>2, <1>3, <2>1, AlikeOrphan DEF S
<1>6. CASE S = {} \/ fk.on_delete \notin {"Cascade", "Orphan"}
  <2>1. ApplyPolicy(r, p, fk, S) = r /\ ApplyPolicy(s, q, fk, S) = s
    BY <1>6 DEF ApplyPolicy
  <2> QED BY <1>1, <2>1 DEF S
<1> QED BY <1>4, <1>5, <1>6

\* Two chains whose steps keep a relation, given by its pairs R, end in a pair of it.
LEMMA ChainsStayRelated ==
  ASSUME NEW n \in Nat, NEW g, NEW h, NEW R, <<g[0], h[0]>> \in R,
         \A i \in 1..n : <<g[i - 1], h[i - 1]>> \in R => <<g[i], h[i]>> \in R
  PROVE  <<g[n], h[n]>> \in R
<1> DEFINE f == [i \in 0..n |-> <<g[i], h[i]>>]
           Inv == [i \in 0..n |-> R]
<1>1. 0 \in 0..n /\ n \in 0..n /\ \A i \in 1..n : i \in 0..n /\ i - 1 \in 0..n
  OBVIOUS
<1>2. \A i \in 0..n : f[i] = <<g[i], h[i]>> /\ Inv[i] = R
  OBVIOUS
<1> HIDE DEF f, Inv
<1>3. f[0] \in Inv[0]
  BY <1>1, <1>2
<1>4. \A i \in 1..n : f[i - 1] \in Inv[i - 1] => f[i] \in Inv[i]
  BY <1>1, <1>2
<1>5. \A i \in 0..n : f[i] \in Inv[i]
  BY <1>3, <1>4, ChainStaysIn
<1> QED BY <1>1, <1>2, <1>5

LEMMA AlikeCascadeDead ==
  ASSUME NEW r, NEW s, NEW n, Alike(r, s, n), NEW p \in Peers, NEW q \in Peers,
         NEW t, NEW d, NEW e, SameDead(d, e, n)
  PROVE  Alike(CascadeDead(r, p, t, d), CascadeDead(s, q, t, e), n)
<1> DEFINE fks == ForeignKeysTo(t)
           m == Len(fks)
           A == ReplicaState
           R == {x \in A \X A : Alike(x[1], x[2], n)}
           step(x, i) == ApplyPolicy(x, p, fks[i], Affected(x, d, fks[i]))
           tick(x, i) == ApplyPolicy(x, q, fks[i], Affected(x, e, fks[i]))
<1>1. /\ fks \in Seq(ForeignKeyDef) /\ ToSet(fks) \subseteq ToSet(ForeignKeyDefs)
      /\ fks = ForeignKeysTo(t)
  BY ForeignKeysToFacts
<1> HIDE DEF fks
<1>2. m \in Nat /\ \A i \in 1..m : fks[i] \in ForeignKeyDef /\ fks[i] \in ToSet(ForeignKeyDefs)
  <2>1. fks \in Seq(ForeignKeyDef)
    BY <1>1
  <2>2. m \in Nat /\ DOMAIN fks = 1..m /\ \A i \in 1..m : fks[i] \in ForeignKeyDef
    BY <2>1
  <2>3. \A i \in DOMAIN fks : fks[i] \in ToSet(fks)
    BY DEF ToSet
  <2> QED BY <1>1, <2>2, <2>3
<1>3. r \in A /\ s \in A /\ DOMAIN d \subseteq Keys /\ DOMAIN e \subseteq Keys
  BY DEF Alike, SameDead
<1>4. \A x \in A, i \in 1..m : step(x, i) \in A /\ tick(x, i) \in A
  BY <1>2, <1>3, PolicyCalms DEF Calms
<1> HIDE DEF A, R
<1>5. PICK g \in [0..m -> A] : /\ g[0] = r
                               /\ \A i \in 1..m : g[i] = step(g[i - 1], i)
                               /\ g[m] = CascadeDead(r, p, t, d)
  <2>1. \A x \in A, i \in 1..Len(fks) :
          ApplyPolicy(x, p, fks[i], Affected(x, d, fks[i])) \in A
    BY <1>4
  <2>2. PICK last : last = CascadeDead(r, p, t, d)
    OBVIOUS
  <2> QED BY <1>1, <1>3, <2>1, <2>2, CascadeDeadChain
<1>6. PICK h \in [0..m -> A] : /\ h[0] = s
                               /\ \A i \in 1..m : h[i] = tick(h[i - 1], i)
                               /\ h[m] = CascadeDead(s, q, t, e)
  <2>1. \A x \in A, i \in 1..Len(fks) :
          ApplyPolicy(x, q, fks[i], Affected(x, e, fks[i])) \in A
    BY <1>4
  <2>2. PICK last : last = CascadeDead(s, q, t, e)
    OBVIOUS
  <2> QED BY <1>1, <1>3, <2>1, <2>2, CascadeDeadChain
<1>7. \A x, y : <<x, y>> \in R <=> Alike(x, y, n)
  BY DEF R, A, Alike
<1>8. \A x, y : \A i \in 1..m : Alike(x, y, n) => Alike(step(x, i), tick(y, i), n)
  BY <1>2, AlikePolicy
<1> HIDE DEF step, tick
<1>9. <<g[0], h[0]>> \in R
  BY <1>5, <1>6, <1>7
<1>10. \A i \in 1..m : <<g[i - 1], h[i - 1]>> \in R => <<g[i], h[i]>> \in R
  BY <1>5, <1>6, <1>7, <1>8
<1>11. <<g[m], h[m]>> \in R
  BY <1>2, <1>9, <1>10, ChainsStayRelated
<1> QED BY <1>5, <1>6, <1>7, <1>11

LEMMA AlikeCascadeFrom ==
  ASSUME NEW r, NEW s, NEW n, Alike(r, s, n), NEW p \in Peers, NEW q \in Peers, NEW t
  PROVE  Alike(CascadeFrom(r, p, t), CascadeFrom(s, q, t), n)
<1> DEFINE d == Tombstones(r, t)
           e == Tombstones(s, t)
<1>1. SameDead(d, e, n) /\ DOMAIN d = DOMAIN e
  BY AlikeTombstones DEF SameDead
<1>2. /\ CascadeFrom(r, p, t) = IF DOMAIN d = {} THEN r ELSE CascadeDead(r, p, t, d)
      /\ CascadeFrom(s, q, t) = IF DOMAIN e = {} THEN s ELSE CascadeDead(s, q, t, e)
  BY DEF CascadeFrom
<1> HIDE DEF d, e
<1>3. Alike(CascadeDead(r, p, t, d), CascadeDead(s, q, t, e), n)
  BY <1>1, AlikeCascadeDead
<1> QED BY <1>1, <1>2, <1>3

LEMMA AlikeCascadePass ==
  ASSUME NEW r, NEW s, NEW n, Alike(r, s, n), NEW p \in Peers, NEW q \in Peers
  PROVE  Alike(CascadePass(r, p), CascadePass(s, q), n)
<1> DEFINE m == Len(TableOrder)
           A == ReplicaState
           R == {x \in A \X A : Alike(x[1], x[2], n)}
<1>1. m \in Nat /\ TableOrder \in Seq(Tables)
  BY SchemaAssumption
<1>2. r \in A /\ s \in A
  BY DEF Alike
<1>3. \A x \in A, i \in 1..Len(TableOrder), o \in Peers : CascadeFrom(x, o, TableOrder[i]) \in A
  BY CascadeFromCalms DEF Calms
<1> HIDE DEF A, R
<1>4. PICK g \in [0..m -> A] : /\ g[0] = r
                               /\ \A i \in 1..m : g[i] = CascadeFrom(g[i - 1], p, TableOrder[i])
                               /\ g[m] = CascadePass(r, p)
  <2>1. PICK last : last = CascadePass(r, p)
    OBVIOUS
  <2> QED BY <1>1, <1>2, <1>3, <2>1, CascadePassChain
<1>5. PICK h \in [0..m -> A] : /\ h[0] = s
                               /\ \A i \in 1..m : h[i] = CascadeFrom(h[i - 1], q, TableOrder[i])
                               /\ h[m] = CascadePass(s, q)
  <2>1. PICK last : last = CascadePass(s, q)
    OBVIOUS
  <2> QED BY <1>1, <1>2, <1>3, <2>1, CascadePassChain
<1>6. \A x, y : <<x, y>> \in R <=> Alike(x, y, n)
  BY DEF R, A, Alike
<1>7. \A x, y, t : Alike(x, y, n) => Alike(CascadeFrom(x, p, t), CascadeFrom(y, q, t), n)
  BY AlikeCascadeFrom
<1>8. <<g[0], h[0]>> \in R
  BY <1>4, <1>5, <1>6
<1>9. \A i \in 1..m : <<g[i - 1], h[i - 1]>> \in R => <<g[i], h[i]>> \in R
  BY <1>4, <1>5, <1>6, <1>7
<1>10. <<g[m], h[m]>> \in R
  BY <1>1, <1>8, <1>9, ChainsStayRelated
<1> QED BY <1>4, <1>5, <1>6, <1>10

\* They stop after the same number of passes.
THEOREM AlikeCascades ==
  ASSUME NEW r, NEW s, NEW n, Alike(r, s, n), NEW p \in Peers, NEW q \in Peers
  PROVE  Alike(enforce_fk_cascades(r, p), enforce_fk_cascades(s, q), n)
<1> DEFINE X == ReplicaState
           N(x) == CascadePass(x, p)
           O(x) == CascadePass(x, q)
           F(x) == enforce_fk_cascades(x, p)
           G(x) == enforce_fk_cascades(x, q)
           Parts(x) == \E y \in X : Alike(x, y, n) /\ ~Alike(F(x), G(y), n)
           S == {Rank(x) : x \in {y \in X : Parts(y)}}
<1>1. /\ \A x \in X : F(x) = IF N(x) = x THEN x ELSE F(N(x))
      /\ \A x \in X : G(x) = IF O(x) = x THEN x ELSE G(O(x))
  BY CascadesUnfold
<1>2. \A x \in X : /\ N(x) \in X /\ O(x) \in X /\ Rank(x) \in Nat
                   /\ Rank(N(x)) \in Nat /\ Rank(O(x)) \in Nat
                   /\ N(x) # x => Rank(N(x)) < Rank(x)
                   /\ O(x) # x => Rank(O(x)) < Rank(x)
  BY PassLowersRank
<1>3. \A x, y : Alike(x, y, n) => /\ x \in X /\ y \in X
                                  /\ Rank(x) = Rank(y)
                                  /\ Alike(N(x), O(y), n)
                                  /\ Rank(N(x)) = Rank(O(y))
  <2>1. \A x, y : Alike(x, y, n) => x \in X /\ y \in X /\ Rank(x) = Rank(y)
    BY AlikeRank DEF Alike
  <2>2. \A x, y : Alike(x, y, n) => Alike(N(x), O(y), n)
    BY AlikeCascadePass
  <2> HIDE DEF X, N, O
  <2> QED BY <2>1, <2>2
<1> HIDE DEF X, N, O, F, G
<1>4. ASSUME S # {} PROVE FALSE
  <2>1. S \in SUBSET Nat
    BY <1>2
  <2>2. Min(S) \in S /\ \A y \in S : Min(S) <= y
    <3> HIDE DEF S
    <3> QED BY <1>4, <2>1, MinIsLeast
  <2>3. PICK x \in X : Parts(x) /\ \A y \in X : Parts(y) => Rank(x) <= Rank(y)
    <3>1. \A y \in X : Parts(y) => Rank(y) \in S
      OBVIOUS
    <3>2. PICK x \in X : Parts(x) /\ Min(S) = Rank(x)
      BY <2>2
    <3> HIDE DEF S, Parts
    <3> QED BY <2>2, <3>1, <3>2
  <2>4. PICK y \in X : Alike(x, y, n) /\ ~Alike(F(x), G(y), n)
    BY <2>3
  <2>5. Alike(N(x), O(y), n) /\ Rank(x) = Rank(y) /\ Rank(N(x)) = Rank(O(y))
    BY <1>3, <2>4
  <2>6. CASE N(x) = x
    <3>1. O(y) = y
      <4>1. Rank(y) = Rank(O(y)) /\ Rank(y) \in Nat
        BY <1>2, <2>5, <2>6
      <4>2. O(y) # y => Rank(O(y)) < Rank(y)
        BY <1>2
      <4> QED BY <4>1, <4>2
    <3> QED BY <1>1, <2>4, <2>6, <3>1
  <2>7. CASE N(x) # x
    <3>1. O(y) # y /\ Rank(N(x)) < Rank(x)
      BY <1>2, <2>5, <2>7
    <3>2. F(x) = F(N(x)) /\ G(y) = G(O(y)) /\ N(x) \in X /\ O(y) \in X
      BY <1>1, <1>2, <2>7, <3>1
    <3>3. Parts(N(x))
      BY <2>4, <2>5, <3>2
    <3> HIDE DEF Parts
    <3> QED BY <1>2, <2>3, <3>1, <3>2, <3>3
  <2> QED BY <2>6, <2>7
<1>5. ~Parts(r) /\ Alike(r, s, n) /\ r \in X /\ s \in X
  BY <1>3, <1>4
<1> QED BY <1>5 DEF F, G

\* Where c and d have the same losers among the live rows, they have the same
\* effective winner in the place of their dead owner.
LEMMA SameWinner ==
  ASSUME NEW c \in ClaimOf(Keys), NEW d \in ClaimOf(Keys), NEW alive, c.owner = d.owner,
         SameLosers(c, d, alive), c.owner \notin alive, NEW k \in LoserRows(c) \cap alive,
         is_effective_unique_winner(c, alive, k)
  PROVE  is_effective_unique_winner(d, alive, k)
<1>1. c.losers \in Seq(Entry) /\ d.losers \in Seq(Entry)
  <2>1. ASSUME NEW e \in ClaimOf(Keys)
        PROVE  e.losers \in Seq(Entry)
    <3>1. CASE e = NoClaim
      BY <3>1 DEF NoClaim
    <3> QED BY <3>1, ClaimFields
  <2> QED BY <2>1
<1>2. LiveEntries(c, alive) = LiveEntries(d, alive)
      /\ \A l, m \in LiveEntries(c, alive) : l.row = m.row => l = m
  BY DEF SameLosers
<1>3. c # NoClaim /\ c.owner # k /\ k \in alive
  <2>1. NoClaim.losers = <<>>
    BY DEF NoClaim
  <2>2. DOMAIN NoClaim.losers = {}
    BY <2>1
  <2> QED BY <2>2 DEF LoserRows
<1>4. PICK i \in DOMAIN c.losers :
        /\ c.losers[i].row = k
        /\ \A j \in DOMAIN c.losers :
             c.losers[j].row \in alive \ {k} => ~VLess(c.losers[i].version, c.losers[j].version)
  BY <1>3 DEF is_effective_unique_winner
<1> DEFINE e == c.losers[i]
           D == {j \in DOMAIN d.losers : d.losers[j].row = k}
<1>5. \A l : /\ l \in LiveEntries(c, alive) <=>
                  \E j \in DOMAIN c.losers : l = c.losers[j] /\ c.losers[j].row \in alive
             /\ l \in LiveEntries(d, alive) <=>
                  \E j \in DOMAIN d.losers : l = d.losers[j] /\ d.losers[j].row \in alive
  BY DEF LiveEntries, ToSet
<1>6. e \in LiveEntries(c, alive)
  BY <1>3, <1>4, <1>5
<1>7. \A j \in D : d.losers[j] = e
  BY <1>2, <1>3, <1>4, <1>5, <1>6
<1>8. D # {} /\ D \in SUBSET Nat
  BY <1>1, <1>2, <1>4, <1>5, <1>6
<1>9. PICK m \in D : \A j \in D : m <= j
  <2> HIDE DEF D
  <2> QED BY <1>8, MinIsLeast
<1>10. m \in DOMAIN d.losers /\ d.losers[m] = e /\ d.losers[m].row = k
  BY <1>4, <1>7, <1>9
<1>11. \A j \in 1..(m - 1) : d.losers[j].row # k
  <2>1. \A j \in 1..(m - 1) : j \in DOMAIN d.losers /\ ~(m <= j)
    BY <1>1, <1>10
  <2> QED BY <1>9, <2>1
<1>12. ASSUME NEW j \in DOMAIN d.losers, d.losers[j].row \in alive \ {k}
       PROVE  ~VLess(e.version, d.losers[j].version)
  <2>1. PICK h \in DOMAIN c.losers : d.losers[j] = c.losers[h]
    BY <1>2, <1>5, <1>12
  <2> QED BY <1>4, <1>12, <2>1
<1> QED BY <1>10, <1>11, <1>12 DEF is_effective_unique_winner

\* The claims f and g of two registries have the same owners, and the same losers
\* among the rows that are alive.
AlikeClaims(f, g, alive) ==
  \A x \in ClaimKeys : f[x].owner = g[x].owner /\ SameLosers(f[x], g[x], alive)

LEMMA AlikeClaimsSymmetric ==
  ASSUME NEW f, NEW g, NEW alive, AlikeClaims(f, g, alive)
  PROVE  AlikeClaims(g, f, alive)
BY DEF AlikeClaims, SameLosers

\* A column of a live row that one registry spares is spared by the other.
LEMMA AlikeExempts ==
  ASSUME NEW f \in Registry, NEW g \in Registry, NEW alive, AlikeClaims(f, g, alive),
         NEW k \in alive, NEW cols, NEW y \in ClaimKeys,
         Exempts(y, f[y], alive, k, cols)
  PROVE  Exempts(y, g[y], alive, k, cols)
<1>1. f[y] \in ClaimOf(Keys) /\ g[y] \in ClaimOf(Keys)
  BY DEF Registry
<1>2. f[y].owner = g[y].owner /\ SameLosers(f[y], g[y], alive)
  BY DEF AlikeClaims
<1>3. k \in LoserRows(f[y]) <=> k \in LoserRows(g[y])
  BY <1>2 DEF SameLosers
<1>4. CASE k \notin LoserRows(f[y]) \/ DOMAIN y.value \cap cols = {}
  BY <1>3, <1>4 DEF Exempts
<1>5. CASE k \in LoserRows(f[y]) /\ DOMAIN y.value \cap cols # {}
  <2>1. f[y].owner \notin alive /\ is_effective_unique_winner(f[y], alive, k)
    BY <1>5 DEF Exempts
  <2>2. is_effective_unique_winner(g[y], alive, k)
    BY <1>1, <1>2, <1>5, <2>1, SameWinner
  <2> QED BY <1>2, <2>1, <2>2 DEF Exempts
<1> QED BY <1>4, <1>5

\* A column that is not spared is NULL, or was never written.
LEMMA NotExemptIsCleared ==
  ASSUME NEW r \in ReplicaState, NEW p \in Peers, NEW f \in Registry,
         NEW k \in LiveRows(r), NEW c \in Cols, NEW y \in ClaimKeys,
         ~Exempts(y, f[y], LiveRows(r), k, {c})
  PROVE  ValueAt(enforce_uniqueness_tombstones(r, p, f).rows[k], c) = Null
<1> DEFINE a == enforce_uniqueness_tombstones(r, p, f)
<1>1. /\ k \in LoserRows(f[y]) /\ c \in DOMAIN y.value
      /\ ~(f[y].owner \notin LiveRows(r) /\ is_effective_unique_winner(f[y], LiveRows(r), k))
  BY DEF Exempts
<1>2. ResolvesClaim(a, f, y) /\ Wipes(r, a)
  BY UniquenessResolves, UniquenessWipes
<1> HIDE DEF a
<1>3. LiveRows(a) = LiveRows(r)
  BY <1>2, WipesLive
<1>4. Held(a.rows[k], DOMAIN y.value) = {}
  BY <1>1, <1>2, <1>3 DEF ResolvesClaim, Resolves
<1> QED BY <1>1, <1>4 DEF Held, a

\* From alike replicas and alike claims the enforcement leaves the same values.
LEMMA AlikeValues ==
  ASSUME NEW r, NEW s, NEW n, Alike(r, s, n), NEW p \in Peers, NEW q \in Peers,
         NEW f \in Registry, NEW g \in Registry, AlikeClaims(f, g, LiveRows(r)),
         NEW k \in LiveRows(r), NEW c \in Cols
  PROVE  enforce_uniqueness_tombstones(r, p, f).rows[k].cells[c].value =
           enforce_uniqueness_tombstones(s, q, g).rows[k].cells[c].value
<1> DEFINE a == enforce_uniqueness_tombstones(r, p, f)
           b == enforce_uniqueness_tombstones(s, q, g)
           live == LiveRows(r)
<1>1. /\ r \in ReplicaState /\ s \in ReplicaState /\ k \in Keys
      /\ LiveRows(s) = live /\ k \in LiveRows(s) /\ {c} \in SUBSET Cols
  BY AlikeLive DEF Alike, LiveRows
<1>2. \/ r.rows[k].cells[c] = s.rows[k].cells[c]
      \/ r.rows[k].cells[c].value = Null /\ s.rows[k].cells[c].value = Null
  BY <1>1 DEF Alike, AlikeRows
<1>3. \A y \in ClaimKeys : Exempts(y, f[y], live, k, {c}) <=> Exempts(y, g[y], live, k, {c})
  BY AlikeExempts, AlikeClaimsSymmetric
<1>4. CASE \A y \in ClaimKeys : Exempts(y, f[y], live, k, {c})
  <2>1. KeepsCells(r, a, k, {c})
    BY <1>1, <1>4, UniquenessKeepsCells
  <2>2. KeepsCells(s, b, k, {c})
    <3>1. \A y \in ClaimKeys : Exempts(y, g[y], LiveRows(s), k, {c})
      BY <1>1, <1>3, <1>4
    <3> QED BY <1>1, <3>1, UniquenessKeepsCells
  <2> QED BY <1>2, <2>1, <2>2 DEF KeepsCells
<1>5. CASE \E y \in ClaimKeys : ~Exempts(y, f[y], live, k, {c})
  <2>1. PICK y \in ClaimKeys : /\ ~Exempts(y, f[y], LiveRows(r), k, {c})
                               /\ ~Exempts(y, g[y], LiveRows(s), k, {c})
    BY <1>1, <1>3, <1>5
  <2>2. ValueAt(a.rows[k], c) = Null /\ ValueAt(b.rows[k], c) = Null
    BY <1>1, <2>1, NotExemptIsCleared
  <2>3. Wipes(r, a) /\ Wipes(s, b)
    BY <1>1, UniquenessWipes
  <2> HIDE DEF a, b
  <2>4. /\ \/ a.rows[k].cells[c] = r.rows[k].cells[c]
           \/ a.rows[k].cells[c].value = Null /\ ValueAt(r.rows[k], c) # Null
        /\ \/ b.rows[k].cells[c] = s.rows[k].cells[c]
           \/ b.rows[k].cells[c].value = Null /\ ValueAt(s.rows[k], c) # Null
    BY <1>1, <2>3 DEF Wipes
  <2> QED BY <1>2, <2>2, <2>4 DEF ValueAt, a, b
<1> QED BY <1>4, <1>5

\* Two peers with the same rows that resolve the same conflicts, each with its own
\* clock and with its own registry, end with the same visible rows, values and
\* tombstones: the versions of their writes differ, and no pass reads that.
THEOREM ResolutionsAgree ==
  ASSUME NEW r, NEW s, NEW n, Alike(r, s, n), NEW p \in Peers, NEW q \in Peers,
         NEW f \in Registry, NEW g \in Registry,
         AlikeClaims(f, g, LiveRows(enforce_fk_cascades(r, p)))
  PROVE  LET a == Enforced(r, p, f)
             b == Enforced(s, q, g)
         IN  /\ LiveRows(a) = LiveRows(b)
             /\ Contents(a, LiveRows(a)) = Contents(b, LiveRows(b))
             /\ \A k \in Keys : a.tombs[k] = NoVersion <=> b.tombs[k] = NoVersion
<1> DEFINE x == enforce_fk_cascades(r, p)
           y == enforce_fk_cascades(s, q)
           a == enforce_uniqueness_tombstones(x, p, f)
           b == enforce_uniqueness_tombstones(y, q, g)
<1>1. Alike(x, y, n) /\ AlikeClaims(f, g, LiveRows(x))
  BY AlikeCascades
<1>2. Enforced(r, p, f) = a /\ Enforced(s, q, g) = b
  BY SecondCascadeIsIdle DEF Alike
<1> HIDE DEF x, y
<1>3. /\ x \in ReplicaState /\ y \in ReplicaState /\ LiveRows(x) = LiveRows(y)
      /\ \A k \in Keys : x.tombs[k] = NoVersion <=> y.tombs[k] = NoVersion
  BY <1>1, AlikeLive DEF Alike
<1>4. Wipes(x, a) /\ Wipes(y, b)
  BY <1>3, UniquenessWipes
<1>5. \A k \in LiveRows(x), c \in Cols : a.rows[k].cells[c].value = b.rows[k].cells[c].value
  BY <1>1, AlikeValues
<1> HIDE DEF a, b
<1>6. LiveRows(a) = LiveRows(x) /\ LiveRows(b) = LiveRows(x)
  BY <1>3, <1>4, WipesLive
<1>7. Contents(a, LiveRows(a)) = Contents(b, LiveRows(b))
  BY <1>5, <1>6 DEF Contents
<1>8. \A k \in Keys : a.tombs[k] = NoVersion <=> b.tombs[k] = NoVersion
  BY <1>3, <1>4 DEF Wipes
<1> QED BY <1>2, <1>6, <1>7, <1>8

-----------------------------------------------------------------------------
(***************************************************************************)
(* The statements.                                                         *)
(***************************************************************************)

\* The entries that the claims of F make for x.
Claimed(F, x) == {Loser(e.row, e.version) : e \in {f \in F : f.value = x}}

\* A statement of p has led from s to q, writing values of W, and the claims of q
\* record what it has filed and the entries E from before.
Runs(s, q, p, W, E) ==
  /\ q \in PeerState
  /\ WellTyped(q.replica)
  /\ Grows(s.replica, q.replica, p, W)
  /\ s.filed \subseteq q.filed
  /\ \A e \in q.filed \ s.filed : Fresh(s.replica, q.replica, p, e.version)
  /\ \A x \in ClaimKeys : Settled(q.uniqueness[x], E[x] \cup Claimed(q.filed, x))

LEMMA PeerFields ==
  ASSUME NEW s \in PeerState
  PROVE  /\ s.replica \in ReplicaState
         /\ s.uniqueness \in Registry
         /\ s.indexes \in IndexManager
         /\ s.filed \in SUBSET ClaimEvent
BY DEF PeerState

LEMMA NewPeerState ==
  ASSUME NEW r \in ReplicaState, NEW u \in Registry, NEW i \in IndexManager,
         NEW f \in SUBSET ClaimEvent
  PROVE  [replica |-> r, uniqueness |-> u, indexes |-> i, filed |-> f] \in PeerState
BY DEF PeerState

LEMMA ValueAtType ==
  ASSUME NEW row \in Row, NEW c \in Cols
  PROVE  ValueAt(row, c) \in Values
<1>1. row.cells[c] \in Cell
  BY RowFields
<1> QED BY <1>1, NullIsNoKey DEF Cell, ValueAt

LEMMA SchemaFacts ==
  ASSUME NEW k \in Keys
  PROVE  /\ TableOf[k] \in Tables
         /\ Schemas[TableOf[k]].unique \subseteq SUBSET Cols
         /\ \A c \in DOMAIN Schemas[TableOf[k]].columns : c \in Cols
         /\ \A c \in DOMAIN Schemas[TableOf[k]].columns :
              Schemas[TableOf[k]].columns[c] \subseteq Values
<1>1. TableOf[k] \in Tables
  BY SchemaAssumption
<1> QED BY <1>1, SchemaAssumption

\* A row of well-typed cells claims only values of its columns.
LEMMA ValueKeysAreClaimKeys ==
  ASSUME NEW k \in Keys, NEW row \in Row,
         \A c \in Cols : InColumn(k, c, ValueAt(row, c))
  PROVE  ValueKeys(k, row) \subseteq ClaimKeys
<1> DEFINE t == TableOf[k]
           X(u) == {[table |-> t, value |-> x] :
                      x \in {f \in [u -> Values \ {Null}] :
                               \A c \in u : f[c] \in Schemas[t].columns[c]}}
<1>1. ASSUME NEW u \in Schemas[t].unique, Held(row, u) = u
      PROVE  [table |-> t, value |-> [c \in u |-> ValueAt(row, c)]] \in X(u)
  <2>1. u \subseteq Cols
    BY SchemaFacts
  <2>2. \A c \in u : ValueAt(row, c) # Null
    BY <1>1 DEF Held
  <2>3. \A c \in u : ValueAt(row, c) \in Values /\ ValueAt(row, c) \in Schemas[t].columns[c]
    BY <2>1, <2>2, ValueAtType DEF InColumn
  <2>4. [c \in u |-> ValueAt(row, c)] \in [u -> Values \ {Null}]
    BY <2>2, <2>3
  <2> HIDE DEF t
  <2> QED BY <2>3, <2>4
<1>2. t \in Tables
  BY SchemaFacts
<1>3. \A u \in Schemas[t].unique : X(u) \subseteq ClaimKeys
  BY <1>2 DEF ClaimKeys
<1> HIDE DEF X
<1>4. ValueKeys(k, row) = {[table |-> t, value |-> [c \in u |-> ValueAt(row, c)]] :
                             u \in {u \in Schemas[t].unique : Held(row, u) = u}}
  BY DEF ValueKeys
<1> HIDE DEF t
<1> QED BY <1>1, <1>3, <1>4

-----------------------------------------------------------------------------
\* Indexes.
LEMMA IndexFacts ==
  ASSUME NEW i \in Indexes
  PROVE  i.table \in Tables /\ i.columns \subseteq Cols
<1>1. PICK t \in Tables : \E u \in Schemas[t].indexes : i = [table |-> t, columns |-> u]
  BY DEF Indexes
<1>2. PICK u \in Schemas[t].indexes : i = [table |-> t, columns |-> u]
  BY <1>1
<1>3. u \subseteq DOMAIN Schemas[t].columns /\ DOMAIN Schemas[t].columns \subseteq Cols
  BY SchemaAssumption
<1> QED BY <1>2, <1>3

LEMMA EntryType ==
  ASSUME NEW i \in Indexes, NEW k \in RowsOf(i.table), NEW row \in Row
  PROVE  EntryOf(i, k, row) \subseteq IndexEntry(i)
<1>1. \A c \in i.columns : ValueAt(row, c) \in Values
  BY IndexFacts, ValueAtType
<1>2. extract_index_key(i.columns, row) \in [i.columns -> Values]
  BY <1>1 DEF extract_index_key
<1>3. [key |-> extract_index_key(i.columns, row), row |-> k] \in IndexEntry(i)
  BY <1>2 DEF IndexEntry
<1> QED BY <1>3 DEF EntryOf

LEMMA IndexManagerFacts ==
  /\ \A f \in IndexManager : /\ DOMAIN f \subseteq Indexes
                             /\ \A i \in DOMAIN f : f[i] \subseteq IndexEntry(i)
  /\ \A S \in SUBSET Indexes : \A f :
       f = [i \in S |-> f[i]] /\ (\A i \in S : f[i] \subseteq IndexEntry(i))
         => f \in IndexManager
<1> DEFINE All == UNION {IndexEntry(i) : i \in Indexes}
<1>1. IndexManager = {f \in UNION {[S -> SUBSET All] : S \in SUBSET Indexes} :
                        \A i \in DOMAIN f : f[i] \subseteq IndexEntry(i)}
  BY DEF IndexManager
<1>2. \A i \in Indexes : IndexEntry(i) \subseteq All
  OBVIOUS
<1> HIDE DEF All
<1>3. ASSUME NEW S \in SUBSET Indexes, NEW f,
             f = [i \in S |-> f[i]], \A i \in S : f[i] \subseteq IndexEntry(i)
      PROVE  f \in IndexManager
  <2>1. \A i \in S : f[i] \in SUBSET All
    BY <1>2, <1>3
  <2>2. f \in [S -> SUBSET All] /\ DOMAIN f = S
    BY <1>3, <2>1
  <2> QED BY <1>1, <1>3, <2>2
<1>4. ASSUME NEW f \in IndexManager
      PROVE  DOMAIN f \subseteq Indexes /\ \A i \in DOMAIN f : f[i] \subseteq IndexEntry(i)
  BY <1>1
<1> QED BY <1>3, <1>4

LEMMA UpdateRowType ==
  ASSUME NEW m \in IndexManager, NEW k \in Keys, NEW old, NEW new \in Row
  PROVE  update_row(m, k, old, new) \in IndexManager
<1> DEFINE f == update_row(m, k, old, new)
           S == DOMAIN m
<1>1. S \in SUBSET Indexes /\ \A i \in S : m[i] \subseteq IndexEntry(i)
  BY IndexManagerFacts
<1>2. f = [i \in S |-> IF i.table = TableOf[k]
                       THEN (m[i] \ EntryOf(i, k, old)) \cup EntryOf(i, k, new)
                       ELSE m[i]]
  BY DEF update_row
<1>3. ASSUME NEW i \in S, i.table = TableOf[k]
      PROVE  EntryOf(i, k, new) \subseteq IndexEntry(i)
  <2>1. k \in RowsOf(i.table) /\ i \in Indexes
    BY <1>1, <1>3 DEF RowsOf
  <2> QED BY <2>1, EntryType
<1> HIDE DEF f, S
<1>4. \A i \in S : f[i] \subseteq IndexEntry(i)
  BY <1>1, <1>2, <1>3
<1>5. f = [i \in S |-> f[i]]
  BY <1>2
<1>6. f \in IndexManager
  BY <1>1, <1>4, <1>5, IndexManagerFacts
<1> QED BY <1>6 DEF f

LEMMA RebuiltType ==
  ASSUME NEW i \in Indexes, NEW rows \in [Keys -> Row]
  PROVE  Rebuilt(i, rows) \subseteq IndexEntry(i)
<1>1. \A k \in RowsOf(i.table) : EntryOf(i, k, rows[k]) \subseteq IndexEntry(i)
  <2>1. \A k \in RowsOf(i.table) : rows[k] \in Row
    BY DEF RowsOf
  <2> QED BY <2>1, EntryType
<1> QED BY <1>1 DEF Rebuilt

-----------------------------------------------------------------------------
\* One tick that writes one row.
LEMMA WrittenFacts ==
  ASSUME NEW r \in ReplicaState, NEW p \in Peers, NEW k \in Keys, NEW row \in Row,
         NEW tomb \in OptVersion
  PROVE  LET s == Written(r, p, k, row, tomb)
         IN  /\ s \in ReplicaState
             /\ s.clock = Tick(r.clock)
             /\ s.frontier = frontier_update(r.frontier, p, Tick(r.clock))
             /\ s.rows[k] = row /\ s.tombs[k] = tomb
             /\ \A j \in Keys \ {k} : s.rows[j] = r.rows[j] /\ s.tombs[j] = r.tombs[j]
<1> DEFINE s == Written(r, p, k, row, tomb)
           f == frontier_update(r.frontier, p, Tick(r.clock))
<1>1. r.clock \in Nat /\ r.frontier \in Frontier
  BY ReplicaFields
<1>2. Tick(r.clock) \in Nat /\ f \in Frontier
  BY <1>1 DEF Tick, frontier_update, Frontier
<1>3. r.rows \in [Keys -> Row] /\ r.tombs \in [Keys -> OptVersion]
  BY DEF ReplicaState, Tombs
<1>4. s = [rows |-> [r.rows EXCEPT ![k] = row], tombs |-> [r.tombs EXCEPT ![k] = tomb],
           clock |-> Tick(r.clock), frontier |-> f]
  BY DEF Written
<1> HIDE DEF s, f
<1>5. s \in ReplicaState
  BY <1>2, <1>3, <1>4 DEF ReplicaState, Tombs
<1>6. s.clock = Tick(r.clock) /\ s.frontier = f
  BY <1>4
<1>7. s.rows = [r.rows EXCEPT ![k] = row] /\ s.tombs = [r.tombs EXCEPT ![k] = tomb]
  BY <1>4
<1> QED BY <1>3, <1>5, <1>6, <1>7 DEF s, f

\* row can follow the rows that p holds in r and in q, whose replica is next:
\* its cells are theirs or written at the next tick, with values of W.
Follows(r, q, p, W, k, row) ==
  /\ \A c \in Cols : /\ InColumn(k, c, ValueAt(row, c))
                     /\ \/ row.cells[c] \in {r.rows[k].cells[c], q.rows[k].cells[c]}
                        \/ /\ row.cells[c].version = NextVersion(q, p)
                           /\ row.cells[c].value \in W
  /\ \/ /\ row.deleted = r.rows[k].deleted
        /\ row.delVersion = r.rows[k].delVersion
        /\ q.tombs[k] = r.tombs[k]
     \/ /\ row.deleted = q.rows[k].deleted
        /\ row.delVersion = q.rows[k].delVersion

LEMMA WrittenGrows ==
  ASSUME NEW r, NEW q \in ReplicaState, NEW p \in Peers, NEW W \in SUBSET Values,
         Good(r, p), Grows(r, q, p, W), NEW k \in Keys, NEW row \in Row,
         Follows(r, q, p, W, k, row), WellTyped(q)
  PROVE  LET s == Written(q, p, k, row, q.tombs[k])
         IN  /\ s \in ReplicaState
             /\ Grows(r, s, p, W)
             /\ WellTyped(s)
             /\ \A j \in Keys : s.tombs[j] = q.tombs[j]
<1> DEFINE tomb == q.tombs[k]
           s == Written(q, p, k, row, tomb)
<1>1. tomb \in OptVersion
  BY ReplicaFields
<1>2. /\ s \in ReplicaState
      /\ s.clock = Tick(q.clock)
      /\ s.frontier = frontier_update(q.frontier, p, Tick(q.clock))
      /\ s.rows[k] = row /\ s.tombs[k] = tomb
      /\ \A j \in Keys \ {k} : s.rows[j] = q.rows[j] /\ s.tombs[j] = q.tombs[j]
  <2> HIDE DEF tomb
  <2> QED BY <1>1, WrittenFacts
<1> HIDE DEF s
<1>3. ASSUME NEW j \in Keys, NEW c \in Cols
      PROVE  CellTicks(r, q, s, p, W, j, c)
  <2>1. CASE j = k
    BY <1>2, <2>1 DEF CellTicks, Follows
  <2>2. CASE j # k
    BY <1>2, <2>2 DEF CellTicks
  <2> QED BY <2>1, <2>2
<1>4. ASSUME NEW j \in Keys
      PROVE  DeleteTicks(r, q, s, p, j)
  <2>1. CASE j = k
    BY <1>2, <2>1 DEF DeleteTicks, Follows
  <2>2. CASE j # k
    BY <1>2, <2>2 DEF DeleteTicks
  <2> QED BY <2>1, <2>2
<1>5. Grows(r, s, p, W)
  <2>1. s \in [rows : [Keys -> Row], tombs : Tombs, clock : Nat, frontier : Frontier]
    BY <1>2 DEF ReplicaState
  <2> QED BY <1>2, <1>3, <1>4, <2>1, OneTick
<1>6. WellTyped(s)
  BY <1>2 DEF WellTyped, Follows
<1> QED BY <1>2, <1>5, <1>6 DEF s

LEMMA FreshLater ==
  ASSUME NEW r, NEW q, NEW s, NEW p \in Peers, NEW W, Grows(r, q, p, W),
         r \in ReplicaState, s \in ReplicaState, s.clock = Tick(q.clock)
  PROVE  /\ \A v : Fresh(r, q, p, v) => Fresh(r, s, p, v)
         /\ Fresh(r, s, p, NextVersion(q, p))
<1>1. q \in ReplicaState
  BY DEF Grows, Good
<1>2. r.clock \in Nat /\ q.clock \in Nat /\ s.clock = q.clock + 1 /\ r.clock <= q.clock
  BY <1>1, ReplicaFields DEF Grows, Tick
<1>3. \A v \in Version : v.counter \in Nat
  BY DEF Version
<1>4. /\ NextVersion(q, p) \in Version
      /\ NextVersion(q, p).peer = p
      /\ NextVersion(q, p).counter = s.clock
  BY <1>1, NextIsVersion DEF NextVersion
<1> QED BY <1>2, <1>3, <1>4 DEF Fresh

\* A statement goes on with one more row.
LEMMA RowWrittenRuns ==
  ASSUME NEW s \in PeerState, NEW q, NEW p \in Peers, NEW W \in SUBSET Values, NEW E,
         Good(s.replica, p), Runs(s, q, p, W, E),
         NEW k \in Keys, NEW row \in Row, NEW cols,
         Follows(s.replica, q.replica, p, W, k, row)
  PROVE  LET t == RowWritten(q, p, k, row, cols)
         IN  /\ Runs(s, t, p, W, E)
             /\ \A j \in Keys : t.replica.tombs[j] = q.replica.tombs[j]
<1> DEFINE v == NextVersion(q.replica, p)
           X == Filed(k, row, cols)
           r == Written(q.replica, p, k, row, q.replica.tombs[k])
           u == [x \in ClaimKeys |-> IF x \in X THEN claim(q.uniqueness[x], k, v)
                                    ELSE q.uniqueness[x]]
           i == update_row(q.indexes, k, q.replica.rows[k], row)
           new == {[row |-> k, value |-> x, version |-> v] : x \in X}
           f == q.filed \cup new
           t == [replica |-> r, uniqueness |-> u, indexes |-> i, filed |-> f]
<1>1. RowWritten(q, p, k, row, cols) = t
  BY DEF RowWritten
<1>2. /\ q \in PeerState /\ q.replica \in ReplicaState /\ q.indexes \in IndexManager
      /\ q.filed \in SUBSET ClaimEvent /\ WellTyped(q.replica)
      /\ Grows(s.replica, q.replica, p, W) /\ s.replica \in ReplicaState
  BY PeerFields DEF Runs
<1>3. v \in Version
  BY <1>2, NextIsVersion
<1>4. X \subseteq ClaimKeys
  <2>1. ValueKeys(k, row) \subseteq ClaimKeys
    <3>1. \A c \in Cols : InColumn(k, c, ValueAt(row, c))
      BY DEF Follows
    <3> HIDE DEF X
    <3> QED BY <3>1, ValueKeysAreClaimKeys
  <2> QED BY <2>1 DEF Filed
<1>5. /\ r \in ReplicaState
      /\ Grows(s.replica, r, p, W)
      /\ WellTyped(r)
      /\ \A j \in Keys : r.tombs[j] = q.replica.tombs[j]
  <2> DEFINE a == s.replica
             b == q.replica
  <2>1. /\ b \in ReplicaState /\ Good(a, p) /\ Grows(a, b, p, W)
        /\ Follows(a, b, p, W, k, row) /\ WellTyped(b)
    BY <1>2
  <2>2. r = Written(b, p, k, row, b.tombs[k])
    OBVIOUS
  <2> HIDE DEF a, r
  <2>3. \A j \in Keys : r.tombs[j] = b.tombs[j]
    <3> DEFINE tomb == b.tombs[k]
    <3>1. tomb \in OptVersion /\ r = Written(b, p, k, row, tomb)
      BY <2>1, <2>2, ReplicaFields
    <3>2. r.tombs[k] = tomb /\ \A j \in Keys \ {k} : r.tombs[j] = b.tombs[j]
      <4> HIDE DEF b, tomb
      <4> QED BY <2>1, <3>1, WrittenFacts
    <3> QED BY <3>2
  <2>4. r \in ReplicaState /\ Grows(a, r, p, W) /\ WellTyped(r)
    <3> HIDE DEF b
    <3> QED BY <2>1, <2>2, WrittenGrows
  <2> QED BY <2>3, <2>4 DEF a
<1>6. r.clock = Tick(q.replica.clock)
  BY DEF Written
<1> HIDE DEF r, v, X
<1>7. ASSUME NEW x \in ClaimKeys
      PROVE  Settled(u[x], E[x] \cup Claimed(f, x)) /\ u[x] \in ClaimOf(Keys)
  <2>1. Settled(q.uniqueness[x], E[x] \cup Claimed(q.filed, x))
    BY DEF Runs
  <2>2. CASE x \in X
    <3> DEFINE e == [row |-> k, value |-> x, version |-> v]
    <3>1. Claimed(f, x) = Claimed(q.filed, x) \cup {Loser(k, v)}
      <4>1. e.row = k /\ e.version = v /\ e.value = x /\ e \in f
        BY <2>2
      <4>2. \A g \in f : g.value = x => g \in q.filed \/ g = e
        OBVIOUS
      <4> HIDE DEF e
      <4> QED BY <4>1, <4>2 DEF Claimed
    <3>2. u[x] = claim(q.uniqueness[x], k, v)
      BY <2>2
    <3>3. Settled(claim(q.uniqueness[x], k, v),
                  (E[x] \cup Claimed(q.filed, x)) \cup {Loser(k, v)})
      BY <1>3, <2>1, ClaimSettles
    <3>4. (E[x] \cup Claimed(q.filed, x)) \cup {Loser(k, v)} = E[x] \cup Claimed(f, x)
      BY <3>1
    <3>5. Settled(u[x], E[x] \cup Claimed(f, x))
      BY <3>2, <3>3, <3>4
    <3> QED BY <3>5 DEF Settled
  <2>3. CASE x \notin X
    <3>1. Claimed(f, x) = Claimed(q.filed, x)
      BY <2>3 DEF Claimed
    <3>2. u[x] = q.uniqueness[x]
      BY <2>3
    <3>3. Settled(u[x], E[x] \cup Claimed(f, x))
      BY <2>1, <3>1, <3>2
    <3> QED BY <3>3 DEF Settled
  <2> QED BY <2>2, <2>3
<1>8. u \in Registry
  BY <1>7 DEF Registry
<1>9. i \in IndexManager
  BY <1>2, UpdateRowType
<1>10. new \subseteq ClaimEvent
  <2>1. \A x \in X : x.table = TableOf[k]
    BY DEF X, Filed, ValueKeys
  <2> QED BY <1>3, <1>4, <2>1 DEF ClaimEvent
<1>11. f \in SUBSET ClaimEvent
  BY <1>2, <1>10
<1>12. s.filed \subseteq f
  BY DEF Runs
<1>13. ASSUME NEW e \in f \ s.filed
       PROVE  Fresh(s.replica, r, p, e.version)
  <2>1. /\ \A w : Fresh(s.replica, q.replica, p, w) => Fresh(s.replica, r, p, w)
        /\ Fresh(s.replica, r, p, v)
    BY <1>2, <1>5, <1>6, FreshLater DEF v
  <2>2. CASE e \in q.filed
    BY <2>1, <2>2 DEF Runs
  <2>3. CASE e \in new
    <3>1. e.version = v
      BY <2>3
    <3> QED BY <2>1, <3>1
  <2> QED BY <2>2, <2>3
<1> HIDE DEF u, i, f
<1>14. t \in PeerState
  BY <1>5, <1>8, <1>9, <1>11, NewPeerState
<1>15. t.replica = r /\ t.uniqueness = u /\ t.filed = f
  OBVIOUS
<1> HIDE DEF t
<1>16. Runs(s, t, p, W, E)
  BY <1>5, <1>7, <1>12, <1>13, <1>14, <1>15 DEF Runs
<1> QED BY <1>1, <1>5, <1>15, <1>16

\* A statement can start: E has the entries of the claims so far.
Starts(s, p, E) ==
  /\ s \in PeerState
  /\ Good(s.replica, p)
  /\ WellTyped(s.replica)
  /\ \A x \in ClaimKeys : Settled(s.uniqueness[x], E[x] \cup Claimed(s.filed, x))

\* No two rows share the version of a claim, and no version is past n.
NamesRows(F, n) ==
  \A e \in F : /\ e.version.counter <= n
               /\ \A f \in F : e.version = f.version => e.row = f.row

\* From s to q every row has claimed what it has come to hold under constraints
\* on one column.
Files(s, q) ==
  /\ NamesRows(s.filed, s.replica.clock) => NamesRows(q.filed, q.replica.clock)
  /\ \A k \in Keys : \A x \in ValueKeys(k, q.replica.rows[k]) :
       OnOneColumn(x) /\ x \notin ValueKeys(k, s.replica.rows[k]) =>
         \E e \in q.filed : e.row = k /\ e.value = x

LEMMA FilesFromItself ==
  ASSUME NEW s
  PROVE  Files(s, s)
BY DEF Files

LEMMA KeyOfColumn ==
  ASSUME NEW k, NEW row, NEW old, NEW x \in ValueKeys(k, row), NEW c, DOMAIN x.value = {c}
  PROVE  /\ ValueAt(row, c) # Null
         /\ ValueAt(old, c) = ValueAt(row, c) => x \in ValueKeys(k, old)
<1>1. PICK u \in Schemas[TableOf[k]].unique :
        /\ Held(row, u) = u
        /\ x = [table |-> TableOf[k], value |-> [d \in u |-> ValueAt(row, d)]]
  BY DEF ValueKeys
<1>2. u = {c}
  <2>1. x.value = [d \in u |-> ValueAt(row, d)]
    BY <1>1
  <2>2. DOMAIN x.value = u
    BY <2>1
  <2> QED BY <2>2
<1>3. ValueAt(row, c) # Null
  BY <1>1, <1>2 DEF Held
<1>4. ASSUME ValueAt(old, c) = ValueAt(row, c)
      PROVE  x \in ValueKeys(k, old)
  <2>1. Held(old, u) = u
    BY <1>2, <1>3, <1>4 DEF Held
  <2>2. [d \in u |-> ValueAt(old, d)] = [d \in u |-> ValueAt(row, d)]
    BY <1>2, <1>4
  <2> QED BY <1>1, <2>1, <2>2 DEF ValueKeys
<1> QED BY <1>3, <1>4

\* What only sets cells to NULL claims nothing.
LEMMA ClearedFiles ==
  ASSUME NEW s \in PeerState, NEW t, NEW p, Grows(s.replica, t.replica, p, {Null}),
         t.filed = s.filed
  PROVE  Files(s, t)
<1>1. NamesRows(s.filed, s.replica.clock) => NamesRows(t.filed, t.replica.clock)
  <2>1. s.replica.clock \in Nat /\ t.replica.clock \in Nat
    BY PeerFields, ReplicaFields DEF Grows, Good
  <2>2. \A e \in s.filed : e.version.counter \in Nat
    BY PeerFields DEF ClaimEvent, Version
  <2> QED BY <2>1, <2>2 DEF NamesRows, Grows
<1>2. ASSUME NEW k \in Keys, NEW x \in ValueKeys(k, t.replica.rows[k]), OnOneColumn(x)
      PROVE  x \in ValueKeys(k, s.replica.rows[k])
  <2>1. PICK c \in Cols : DOMAIN x.value = {c}
    BY <1>2 DEF OnOneColumn
  <2>2. ValueAt(t.replica.rows[k], c) # Null
    BY <2>1, KeyOfColumn
  <2>3. ValueAt(s.replica.rows[k], c) = ValueAt(t.replica.rows[k], c)
    BY <2>2 DEF Grows, CellGrows, ValueAt
  <2> QED BY <2>1, <2>3, KeyOfColumn
<1> QED BY <1>1, <1>2 DEF Files

\* A statement that writes and deletes nothing.
IsWrite(s, q, p, E) ==
  /\ Runs(s, q, p, Values, E)
  /\ Files(s, q)
  /\ \A k \in Keys : q.replica.tombs[k] = s.replica.tombs[k]

LEMMA RunsFromItself ==
  ASSUME NEW s, NEW p, NEW W, NEW E, Starts(s, p, E)
  PROVE  Runs(s, s, p, W, E)
BY GrowsFromItself DEF Starts, Runs

LEMMA InRowOrderFacts ==
  ASSUME NEW S
  PROVE  /\ InRowOrder(S) \in Seq(Keys)
         /\ ToSet(InRowOrder(S)) \subseteq S
         /\ IsInjective(InRowOrder(S))
<1>1. RowOrder \in Seq(Keys) /\ IsInjective(RowOrder)
  BY SchemaAssumption, SetToSeqType DEF RowOrder
<1>2. /\ Kept(RowOrder, S) \in Seq(Keys)
      /\ ToSet(Kept(RowOrder, S)) = ToSet(RowOrder) \cap S
      /\ IsInjective(Kept(RowOrder, S))
  BY <1>1, KeptFacts
<1> QED BY <1>2 DEF InRowOrder

-----------------------------------------------------------------------------
\* INSERT.
IsNew(new) == new.key \in Keys /\ new.vals \in Assignments(TableOf[new.key])

LEMMA NewCellsFacts ==
  ASSUME NEW new, IsNew(new)
  PROVE  \A c \in DOMAIN NewCells(new) : /\ c \in Cols
                                         /\ NewCells(new)[c] \in Values
                                         /\ InColumn(new.key, c, NewCells(new)[c])
<1> DEFINE t == TableOf[new.key]
           cols == Schemas[t].columns
           f == new.vals
           g == Schemas[t].defaults
<1>1. t \in Tables /\ DOMAIN cols \subseteq Cols /\ \A c \in DOMAIN cols : cols[c] \subseteq Values
  BY SchemaFacts DEF IsNew
<1>2. DOMAIN g \subseteq DOMAIN cols /\ \A c \in DOMAIN g : g[c] \in cols[c]
  BY <1>1, SchemaAssumption
<1>3. DOMAIN f \subseteq DOMAIN cols /\ \A c \in DOMAIN f : f[c] \in cols[c]
  <2>1. f \in UNION {{h \in [S -> Values] : \A c \in S : h[c] \in cols[c]} :
                       S \in (SUBSET DOMAIN cols) \ {{}}}
    BY DEF IsNew, Assignments
  <2> QED BY <2>1
<1>4. NewCells(new) = [c \in DOMAIN f \cup DOMAIN g |-> IF c \in DOMAIN f THEN f[c] ELSE g[c]]
  BY DEF NewCells, Over
<1>5. ASSUME NEW c \in DOMAIN NewCells(new)
      PROVE  c \in DOMAIN cols /\ NewCells(new)[c] \in cols[c]
  BY <1>2, <1>3, <1>4
<1> QED BY <1>1, <1>5 DEF InColumn

\* A row of p with some of its cells written at v.
IsWritten(row, old, v, vals) ==
  /\ row \in Row
  /\ row.deleted = old.deleted
  /\ row.delVersion = old.delVersion
  /\ \A c \in Cols : row.cells[c] = IF c \in DOMAIN vals THEN [value |-> vals[c], version |-> v]
                                    ELSE old.cells[c]

LEMMA InsertedRowFacts ==
  ASSUME NEW v \in Version, NEW vals, \A c \in DOMAIN vals : vals[c] \in Values
  PROVE  IsWritten(InsertedRow(v, vals), NoRow, v, vals)
<1> DEFINE row == InsertedRow(v, vals)
           cells == [c \in Cols |-> IF c \in DOMAIN vals THEN [value |-> vals[c], version |-> v]
                                   ELSE NoCell]
<1>1. row = [cells |-> cells, deleted |-> FALSE, delVersion |-> NoVersion]
  BY DEF InsertedRow
<1>2. cells \in [Cols -> Cell]
  BY DEF Cell
<1>3. \A c \in Cols : cells[c] = IF c \in DOMAIN vals THEN [value |-> vals[c], version |-> v]
                                 ELSE NoRow.cells[c]
  BY DEF NoRow
<1> HIDE DEF row, cells
<1>4. row \in Row
  BY <1>1, <1>2, VersionIsOpt DEF Row
<1>5. row.cells = cells /\ row.deleted = FALSE /\ row.delVersion = NoVersion
  BY <1>1
<1>6. NoRow.deleted = FALSE /\ NoRow.delVersion = NoVersion
  BY DEF NoRow
<1> QED BY <1>3, <1>4, <1>5, <1>6 DEF IsWritten, row

LEMMA UpdatedRowFacts ==
  ASSUME NEW old \in Row, NEW v \in Version, NEW vals, \A c \in DOMAIN vals : vals[c] \in Values
  PROVE  IsWritten(UpdatedRow(old, v, vals), old, v, vals)
<1> DEFINE row == UpdatedRow(old, v, vals)
           cells == [c \in Cols |-> IF c \in DOMAIN vals THEN [value |-> vals[c], version |-> v]
                                   ELSE old.cells[c]]
<1>1. row = [cells |-> cells, deleted |-> old.deleted, delVersion |-> old.delVersion]
  BY DEF UpdatedRow
<1>2. cells \in [Cols -> Cell]
  BY RowFields DEF Cell
<1>3. \A c \in Cols : cells[c] = IF c \in DOMAIN vals THEN [value |-> vals[c], version |-> v]
                                 ELSE old.cells[c]
  OBVIOUS
<1> HIDE DEF row, cells
<1>4. row \in Row
  BY <1>1, <1>2, RowFields DEF Row
<1>5. row.cells = cells /\ row.deleted = old.deleted /\ row.delVersion = old.delVersion
  BY <1>1
<1> QED BY <1>3, <1>4, <1>5 DEF IsWritten, row

LEMMA ValueAtWritten ==
  ASSUME NEW row, NEW old, NEW v \in Version, NEW vals, IsWritten(row, old, v, vals), NEW c \in Cols
  PROVE  ValueAt(row, c) = IF c \in DOMAIN vals THEN vals[c] ELSE ValueAt(old, c)
<1>1. CASE c \in DOMAIN vals
  <2>1. row.cells[c] = [value |-> vals[c], version |-> v]
    BY <1>1 DEF IsWritten
  <2>2. row.cells[c].version = v /\ row.cells[c].value = vals[c] /\ NoCell.version = NoVersion
    BY <2>1 DEF NoCell
  <2>3. row.cells[c] # NoCell
    BY <2>2, VersionIsOpt
  <2> QED BY <1>1, <2>2, <2>3 DEF ValueAt
<1>2. CASE c \notin DOMAIN vals
  BY <1>2 DEF IsWritten, ValueAt
<1> QED BY <1>1, <1>2

\* A written row follows, when what it is written over is the row of r or q.
LEMMA WrittenFollows ==
  ASSUME NEW r, NEW q \in ReplicaState, NEW p \in Peers, NEW k \in Keys,
         NEW row, NEW old, NEW vals,
         IsWritten(row, old, NextVersion(q, p), vals),
         \A c \in DOMAIN vals : vals[c] \in Values /\ InColumn(k, c, vals[c]),
         \/ old = r.rows[k] /\ q.tombs[k] = r.tombs[k]
         \/ old = q.rows[k],
         \A c \in Cols : InColumn(k, c, ValueAt(old, c))
  PROVE  Follows(r, q, p, Values, k, row)
<1> DEFINE v == NextVersion(q, p)
<1>1. v \in Version
  BY NextIsVersion
<1>2. ASSUME NEW c \in Cols
      PROVE  /\ InColumn(k, c, ValueAt(row, c))
             /\ \/ row.cells[c] \in {r.rows[k].cells[c], q.rows[k].cells[c]}
                \/ row.cells[c].version = v /\ row.cells[c].value \in Values
  <2>1. ValueAt(row, c) = IF c \in DOMAIN vals THEN vals[c] ELSE ValueAt(old, c)
    <3> HIDE DEF v
    <3> QED BY <1>1, ValueAtWritten DEF v
  <2>2. CASE c \in DOMAIN vals
    <3>1. row.cells[c] = [value |-> vals[c], version |-> v]
      BY <2>2 DEF IsWritten
    <3>2. row.cells[c].version = v /\ row.cells[c].value = vals[c]
      BY <3>1
    <3> QED BY <2>1, <2>2, <3>2
  <2>3. CASE c \notin DOMAIN vals
    <3>1. row.cells[c] = old.cells[c]
      BY <2>3 DEF IsWritten
    <3> QED BY <2>1, <2>3, <3>1
  <2> QED BY <2>2, <2>3
<1>3. \/ /\ row.deleted = r.rows[k].deleted
         /\ row.delVersion = r.rows[k].delVersion
         /\ q.tombs[k] = r.tombs[k]
      \/ /\ row.deleted = q.rows[k].deleted
         /\ row.delVersion = q.rows[k].delVersion
  BY DEF IsWritten
<1> QED BY <1>2, <1>3 DEF Follows

\* A row written files the claims on what the write has changed in it.
LEMMA RowWrittenFiles ==
  ASSUME NEW s \in PeerState, NEW q \in PeerState, NEW p \in Peers, Files(s, q),
         NEW k \in Keys, NEW row, NEW old, NEW vals,
         IsWritten(row, old, NextVersion(q.replica, p), vals),
         old = s.replica.rows[k] \/ old = q.replica.rows[k]
  PROVE  Files(s, RowWritten(q, p, k, row, DOMAIN vals))
<1> DEFINE v == NextVersion(q.replica, p)
           cols == DOMAIN vals
           X == Filed(k, row, cols)
           r == Written(q.replica, p, k, row, q.replica.tombs[k])
           new == {[row |-> k, value |-> x, version |-> v] : x \in X}
           t == RowWritten(q, p, k, row, cols)
<1>1. q.replica \in ReplicaState /\ q.filed \in SUBSET ClaimEvent
  BY PeerFields
<1>2. v \in Version /\ row \in Row
  BY <1>1, NextIsVersion DEF IsWritten
<1>3. t.replica = r /\ t.filed = q.filed \cup new
  BY DEF RowWritten
<1>4. r.rows[k] = row /\ r.clock = Tick(q.replica.clock)
      /\ \A j \in Keys \ {k} : r.rows[j] = q.replica.rows[j]
  <2> DEFINE tomb == q.replica.tombs[k]
             b == q.replica
  <2>1. tomb \in OptVersion /\ b \in ReplicaState /\ r = Written(b, p, k, row, tomb)
    BY <1>1, ReplicaFields
  <2> HIDE DEF tomb, b, r
  <2>2. r.rows[k] = row /\ r.clock = Tick(b.clock)
        /\ \A j \in Keys \ {k} : r.rows[j] = b.rows[j]
    BY <1>2, <2>1, WrittenFacts
  <2> QED BY <2>2 DEF b
<1>5. v.counter = r.clock /\ q.replica.clock \in Nat /\ r.clock = q.replica.clock + 1
  <2>1. v.counter = Tick(q.replica.clock)
    BY DEF NextVersion
  <2> QED BY <1>1, <1>4, <2>1, ReplicaFields DEF Tick
<1> HIDE DEF t, r, v
<1>6. ASSUME NamesRows(s.filed, s.replica.clock)
      PROVE  NamesRows(t.filed, t.replica.clock)
  <2>1. NamesRows(q.filed, q.replica.clock)
    BY <1>6 DEF Files
  <2>2. \A e \in new : e.version = v /\ e.row = k
    OBVIOUS
  <2> HIDE DEF new
  <2>3. \A e \in q.filed : e.version.counter \in Nat
    BY <1>1 DEF ClaimEvent, Version
  <2>4. \A e \in q.filed : e.version.counter <= r.clock /\ e.version # v
    BY <1>5, <2>1, <2>3 DEF NamesRows
  <2>5. \A e \in new : e.version.counter <= r.clock
    BY <1>5, <2>2
  <2>6. \A e, f \in t.filed : e.version = f.version => e.row = f.row
    BY <1>3, <2>1, <2>2, <2>4 DEF NamesRows
  <2> QED BY <1>3, <2>4, <2>5, <2>6 DEF NamesRows
<1>7. ASSUME NEW j \in Keys, NEW x \in ValueKeys(j, r.rows[j]), OnOneColumn(x),
             x \notin ValueKeys(j, s.replica.rows[j])
      PROVE  \E e \in t.filed : e.row = j /\ e.value = x
  <2>1. CASE x \in ValueKeys(j, q.replica.rows[j])
    BY <1>3, <1>7, <2>1 DEF Files
  <2>2. CASE x \notin ValueKeys(j, q.replica.rows[j])
    <3>1. j = k /\ x \in ValueKeys(k, row) /\ x \notin ValueKeys(k, old)
      BY <1>4, <1>7, <2>2
    <3>2. PICK c \in Cols : DOMAIN x.value = {c}
      BY <1>7 DEF OnOneColumn
    <3>3. ValueAt(old, c) # ValueAt(row, c)
      BY <3>1, <3>2, KeyOfColumn
    <3>4. c \in cols
      BY <1>2, <3>3, ValueAtWritten DEF v
    <3>5. x \in X
      BY <3>1, <3>2, <3>4 DEF Filed
    <3> DEFINE e == [row |-> k, value |-> x, version |-> v]
    <3>6. e \in t.filed /\ e.row = k /\ e.value = x
      BY <1>3, <3>5
    <3> HIDE DEF e
    <3> QED BY <3>1, <3>6
  <2> QED BY <2>1, <2>2
<1> QED BY <1>3, <1>6, <1>7 DEF Files, t

\* One row of an INSERT, which the replica does not have.
LEMMA InsertedWrites ==
  ASSUME NEW s, NEW q \in PeerState, NEW p \in Peers, NEW E, Starts(s, p, E), IsWrite(s, q, p, E),
         NEW new, IsNew(new), s.replica.rows[new.key] = NoRow
  PROVE  Inserted(q, p, new) \in PeerState /\ IsWrite(s, Inserted(q, p, new), p, E)
<1>1. s \in PeerState /\ s.replica \in ReplicaState /\ Good(s.replica, p)
  BY PeerFields DEF Starts
<1> DEFINE k == new.key
           vals == NewCells(new)
           v == NextVersion(q.replica, p)
           row == InsertedRow(v, vals)
           cols == DOMAIN vals
<1>2. k \in Keys /\ s.replica.rows[k] = NoRow /\ IsNew(new)
  BY DEF IsNew
<1>3. \A c \in DOMAIN vals : c \in Cols /\ vals[c] \in Values /\ InColumn(k, c, vals[c])
  BY <1>2, NewCellsFacts
<1>4. q.replica \in ReplicaState /\ v \in Version /\ Runs(s, q, p, Values, E)
      /\ \A j \in Keys : q.replica.tombs[j] = s.replica.tombs[j]
      /\ Files(s, q)
  BY PeerFields, NextIsVersion DEF IsWrite
<1>5. IsWritten(row, NoRow, v, vals)
  <2> HIDE DEF v, vals
  <2> QED BY <1>3, <1>4, InsertedRowFacts
<1>6. \A c \in Cols : InColumn(k, c, ValueAt(NoRow, c))
  BY NoRowType DEF ValueAt, InColumn
<1>7. Follows(s.replica, q.replica, p, Values, k, row)
  <2> DEFINE a == s.replica
             b == q.replica
             old == NoRow
  <2>1. \/ old = a.rows[k] /\ b.tombs[k] = a.tombs[k]
        \/ old = b.rows[k]
    BY <1>2, <1>4
  <2>2. b \in ReplicaState /\ IsWritten(row, old, NextVersion(b, p), vals)
    BY <1>4, <1>5
  <2>3. \A c \in Cols : InColumn(k, c, ValueAt(old, c))
    BY <1>6
  <2> HIDE DEF a, b, old, k, vals, row
  <2>4. Follows(a, b, p, Values, k, row)
    BY <1>2, <1>3, <2>1, <2>2, <2>3, WrittenFollows
  <2> QED BY <2>4 DEF a, b
<1>8. Inserted(q, p, new) = RowWritten(q, p, k, row, cols)
  BY DEF Inserted
<1>9. row \in Row
  BY <1>5 DEF IsWritten
<1> DEFINE t == RowWritten(q, p, k, row, cols)
<1>10. Runs(s, t, p, Values, E) /\ \A j \in Keys : t.replica.tombs[j] = q.replica.tombs[j]
  <2> HIDE DEF k, row, cols
  <2> QED BY <1>1, <1>2, <1>4, <1>7, <1>9, RowWrittenRuns
<1>11. Files(s, t)
  <2> HIDE DEF k, row, vals
  <2> QED BY <1>1, <1>2, <1>4, <1>5, RowWrittenFiles
<1> HIDE DEF t, k
<1>12. t \in PeerState /\ IsWrite(s, t, p, E)
  BY <1>4, <1>10, <1>11 DEF Runs, IsWrite
<1> QED BY <1>8, <1>12 DEF t, k

\* INSERT writes rows that the replica does not have.
LEMMA InsertRuns ==
  ASSUME NEW s, NEW p \in Peers, NEW E, Starts(s, p, E),
         NEW N, NEW batch \in Seq(N),
         \A i \in DOMAIN batch : /\ IsNew(batch[i])
                                 /\ s.replica.rows[batch[i].key] = NoRow
  PROVE  IsWrite(s, exec_insert(s, p, batch), p, E)
<1> DEFINE n == Len(batch)
           A == {q \in PeerState : IsWrite(s, q, p, E)}
<1>1. n \in Nat /\ DOMAIN batch = 1..n
  OBVIOUS
<1>2. s \in PeerState /\ s.replica \in ReplicaState /\ Good(s.replica, p)
  BY PeerFields DEF Starts
<1>3. ASSUME NEW q \in A, NEW i \in 1..n
      PROVE  Inserted(q, p, batch[i]) \in A
  BY <1>1, InsertedWrites
<1>4. s \in A
  BY <1>2, RunsFromItself, FilesFromItself DEF IsWrite
<1>5. \E g \in [0..n -> A] : g[n] = exec_insert(s, p, batch)
  <2>1. \A a \in A, i \in 1..Len(batch) : Inserted(a, p, batch[i]) \in A
    BY <1>3
  <2>2. PICK last : last = exec_insert(s, p, batch)
    OBVIOUS
  <2> HIDE DEF A
  <2> QED BY <1>4, <2>1, <2>2, InsertChain
<1>6. n \in 0..n
  BY <1>1
<1> HIDE DEF n
<1> QED BY <1>5, <1>6

-----------------------------------------------------------------------------
\* UPDATE.

\* assign can be the SET list of an UPDATE of row k.
IsSetList(k, assign) ==
  LET cols == Schemas[TableOf[k]].columns
  IN  \A c \in DOMAIN assign :
        /\ c \in DOMAIN cols
        /\ \/ assign[c] \in cols[c]
           \/ assign[c] \in DOMAIN cols /\ cols[assign[c]] \subseteq cols[c]

LEMMA EvaluatedFacts ==
  ASSUME NEW k \in Keys, NEW row \in Row, NEW assign, IsSetList(k, assign),
         \A c \in Cols : InColumn(k, c, ValueAt(row, c))
  PROVE  /\ DOMAIN Evaluated(row, assign) = DOMAIN assign
         /\ \A c \in DOMAIN assign : /\ Evaluated(row, assign)[c] \in Values
                                     /\ InColumn(k, c, Evaluated(row, assign)[c])
<1> DEFINE cols == Schemas[TableOf[k]].columns
<1>1. /\ \A c \in DOMAIN cols : c \in Cols
      /\ \A c \in DOMAIN cols : cols[c] \subseteq Values
  BY SchemaFacts
<1>2. ASSUME NEW c \in DOMAIN assign
      PROVE  /\ Evaluated(row, assign)[c] \in Values
             /\ InColumn(k, c, Evaluated(row, assign)[c])
  <2>1. c \in DOMAIN cols /\ (\/ assign[c] \in cols[c]
                              \/ assign[c] \in DOMAIN cols /\ cols[assign[c]] \subseteq cols[c])
    BY DEF IsSetList
  <2>2. Evaluated(row, assign)[c] = IF assign[c] \in Cols THEN ValueAt(row, assign[c]) ELSE assign[c]
    BY DEF Evaluated
  <2>3. CASE assign[c] \in Cols
    <3>1. assign[c] \notin Values
      BY <2>3, LiteralAssumption
    <3>2. assign[c] \in DOMAIN cols /\ cols[assign[c]] \subseteq cols[c]
      BY <1>1, <2>1, <3>1
    <3>3. InColumn(k, assign[c], ValueAt(row, assign[c]))
      BY <2>3
    <3>4. ValueAt(row, assign[c]) = Null \/ ValueAt(row, assign[c]) \in cols[c]
      BY <3>2, <3>3 DEF InColumn
    <3> QED BY <2>1, <2>2, <2>3, <3>4, ValueAtType DEF InColumn
  <2>4. CASE assign[c] \notin Cols
    BY <1>1, <2>1, <2>2, <2>4 DEF InColumn
  <2> QED BY <2>3, <2>4
<1> QED BY <1>2 DEF Evaluated

LEMMA BeforeFailureFacts ==
  ASSUME NEW s, NEW assign, NEW rows \in Seq(Keys)
  PROVE  /\ BeforeFailure(s, assign, rows) \in Seq(Keys)
         /\ ToSet(BeforeFailure(s, assign, rows)) \subseteq ToSet(rows)
         /\ \A i \in DOMAIN BeforeFailure(s, assign, rows) :
              ~NullsRequired(s, BeforeFailure(s, assign, rows)[i], assign)
         /\ IsInjective(rows) => IsInjective(BeforeFailure(s, assign, rows))
<1> DEFINE I == {i \in 1..Len(rows) : NullsRequired(s, rows[i], assign)}
           failing == IF I # {} THEN Min(I) ELSE 0
<1>1. BeforeFailure(s, assign, rows) = IF failing = 0 THEN rows ELSE SubSeq(rows, 1, failing - 1)
  BY DEF BeforeFailure, SelectInSeq
<1>2. /\ failing \in 0..Len(rows)
      /\ \A i \in 1..Len(rows) : failing = 0 \/ i < failing => ~NullsRequired(s, rows[i], assign)
  <2>1. Len(rows) \in Nat
    OBVIOUS
  <2>2. I \in SUBSET Nat /\ I \subseteq 1..Len(rows)
    BY <2>1
  <2>3. I # {} => Min(I) \in I /\ \A y \in I : Min(I) <= y
    <3> HIDE DEF I
    <3> QED BY <2>2, MinIsLeast
  <2>4. failing \in 0..Len(rows)
    BY <2>1, <2>2, <2>3
  <2>5. ASSUME NEW i \in 1..Len(rows), failing = 0 \/ i < failing
        PROVE  i \notin I
    <3> HIDE DEF I
    <3>1. CASE I = {}
      BY <3>1
    <3>2. CASE I # {}
      <4>1. failing = Min(I) /\ failing \in I /\ \A y \in I : failing <= y
        BY <2>3, <3>2
      <4>2. failing \in 1..Len(rows)
        BY <2>2, <4>1
      <4> HIDE DEF failing
      <4> QED BY <2>1, <2>5, <4>1, <4>2
    <3> QED BY <3>1, <3>2
  <2> QED BY <2>4, <2>5
<1> HIDE DEF I, failing
<1>3. CASE failing = 0
  <2>1. DOMAIN rows = 1..Len(rows)
    OBVIOUS
  <2> QED BY <1>1, <1>2, <1>3, <2>1
<1>4. CASE failing # 0
  <2> DEFINE n == failing - 1
             t == SubSeq(rows, 1, n)
  <2>1. n \in 0..Len(rows) /\ Len(rows) \in Nat
    BY <1>2, <1>4
  <2> HIDE DEF n
  <2>2. /\ t \in Seq(Keys)
        /\ Len(t) = n
        /\ \A i \in 1..n : t[i] = rows[i]
    BY <2>1
  <2>3. DOMAIN t = 1..n /\ 1..n \subseteq DOMAIN rows
    BY <2>1, <2>2
  <2> HIDE DEF t
  <2>4. ToSet(t) \subseteq ToSet(rows)
    BY <2>2, <2>3 DEF ToSet
  <2>5. \A i \in DOMAIN t : ~NullsRequired(s, t[i], assign)
    <3>1. \A i \in 1..n : i \in 1..Len(rows) /\ i < failing
      BY <1>2, <2>1 DEF n
    <3> QED BY <1>2, <2>2, <2>3, <3>1
  <2>6. IsInjective(rows) => IsInjective(t)
    BY <2>2, <2>3 DEF IsInjective
  <2> QED BY <1>1, <1>4, <2>2, <2>4, <2>5, <2>6 DEF n, t
<1> QED BY <1>3, <1>4

AreSetLists(S, assign) == \A k \in S : IsSetList(k, assign)

LEMMA UpdatedWrites ==
  ASSUME NEW s, NEW q \in PeerState, NEW p \in Peers, NEW E, Starts(s, p, E), IsWrite(s, q, p, E),
         NEW k \in Keys, NEW assign, IsSetList(k, assign)
  PROVE  Updated(q, p, k, assign) \in PeerState /\ IsWrite(s, Updated(q, p, k, assign), p, E)
<1>1. s \in PeerState /\ s.replica \in ReplicaState /\ Good(s.replica, p)
  BY PeerFields DEF Starts
<1> DEFINE old == q.replica.rows[k]
           vals == Evaluated(old, assign)
           v == NextVersion(q.replica, p)
           row == UpdatedRow(old, v, vals)
           cols == DOMAIN assign
<1>2. q.replica \in ReplicaState /\ v \in Version /\ Runs(s, q, p, Values, E)
      /\ WellTyped(q.replica)
      /\ \A j \in Keys : q.replica.tombs[j] = s.replica.tombs[j]
      /\ Files(s, q)
  BY PeerFields, NextIsVersion DEF Runs, IsWrite
<1>3. old \in Row /\ \A c \in Cols : InColumn(k, c, ValueAt(old, c))
  BY <1>2, ReplicaFields DEF WellTyped
<1>4. \A c \in DOMAIN vals : vals[c] \in Values /\ InColumn(k, c, vals[c])
  <2> HIDE DEF old
  <2> QED BY <1>3, EvaluatedFacts
<1>5. IsWritten(row, old, v, vals)
  <2> HIDE DEF old, v, vals
  <2> QED BY <1>2, <1>3, <1>4, UpdatedRowFacts
<1>6. Follows(s.replica, q.replica, p, Values, k, row)
  <2> DEFINE a == s.replica
             b == q.replica
  <2>1. \/ old = a.rows[k] /\ b.tombs[k] = a.tombs[k]
        \/ old = b.rows[k]
    OBVIOUS
  <2>2. b \in ReplicaState /\ IsWritten(row, old, NextVersion(b, p), vals)
    BY <1>2, <1>5
  <2> HIDE DEF a, b, old, vals, row
  <2>3. Follows(a, b, p, Values, k, row)
    BY <1>3, <1>4, <2>1, <2>2, WrittenFollows
  <2> QED BY <2>3 DEF a, b
<1>7. Updated(q, p, k, assign) = RowWritten(q, p, k, row, cols)
  BY DEF Updated
<1>8. row \in Row
  BY <1>5 DEF IsWritten
<1> DEFINE t == RowWritten(q, p, k, row, cols)
<1>9. Runs(s, t, p, Values, E) /\ \A j \in Keys : t.replica.tombs[j] = q.replica.tombs[j]
  <2> HIDE DEF row, cols
  <2> QED BY <1>1, <1>2, <1>6, <1>8, RowWrittenRuns
<1>10. Files(s, t)
  <2>1. DOMAIN vals = cols
    <3> HIDE DEF old
    <3> QED BY <1>3, EvaluatedFacts
  <2>2. q \in PeerState /\ old = q.replica.rows[k]
    OBVIOUS
  <2> HIDE DEF old, row, vals, cols
  <2>3. Files(s, RowWritten(q, p, k, row, DOMAIN vals))
    BY <1>1, <1>2, <1>5, <2>2, RowWrittenFiles
  <2> QED BY <2>1, <2>3
<1> HIDE DEF t
<1>11. t \in PeerState /\ IsWrite(s, t, p, E)
  BY <1>2, <1>9, <1>10 DEF Runs, IsWrite
<1> QED BY <1>7, <1>11 DEF t

LEMMA UpdateRuns ==
  ASSUME NEW s, NEW p \in Peers, NEW E, Starts(s, p, E), NEW S, NEW assign,
         AreSetLists(S, assign)
  PROVE  IsWrite(s, exec_update(s, p, S, assign), p, E)
<1> DEFINE rows == BeforeFailure(s, assign, InRowOrder(S))
           n == Len(rows)
           A == {q \in PeerState : IsWrite(s, q, p, E)}
<1>1. rows \in Seq(Keys) /\ ToSet(rows) \subseteq S
  <2>1. InRowOrder(S) \in Seq(Keys) /\ ToSet(InRowOrder(S)) \subseteq S
    BY InRowOrderFacts
  <2> QED BY <2>1, BeforeFailureFacts
<1> HIDE DEF rows
<1>2. n \in Nat /\ \A i \in 1..n : rows[i] \in Keys /\ rows[i] \in S
  <2>1. n \in Nat /\ DOMAIN rows = 1..n /\ \A i \in 1..n : rows[i] \in Keys
    BY <1>1
  <2> HIDE DEF n
  <2> QED BY <1>1, <2>1 DEF ToSet
<1>3. s \in PeerState /\ s.replica \in ReplicaState /\ Good(s.replica, p)
  BY PeerFields DEF Starts
<1>4. ASSUME NEW q \in A, NEW k \in Keys, k \in S
      PROVE  Updated(q, p, k, assign) \in A
  <2>1. IsSetList(k, assign)
    BY <1>4 DEF AreSetLists
  <2> QED BY <2>1, UpdatedWrites
<1>5. s \in A
  BY <1>3, RunsFromItself, FilesFromItself DEF IsWrite
<1>6. \E g \in [0..n -> A] : g[n] = exec_update(s, p, S, assign)
  <2>1. \A a \in A, i \in 1..Len(rows) : Updated(a, p, rows[i], assign) \in A
    BY <1>2, <1>4
  <2>2. PICK last : last = exec_update(s, p, S, assign)
    OBVIOUS
  <2>3. rows = BeforeFailure(s, assign, InRowOrder(S))
    BY DEF rows
  <2> HIDE DEF A
  <2> QED BY <1>1, <1>5, <2>1, <2>2, <2>3, UpdateChain
<1>7. n \in 0..n
  BY <1>2
<1> HIDE DEF n
<1> QED BY <1>6, <1>7

-----------------------------------------------------------------------------
\* DELETE.
LEMMA DeleteRowGrows ==
  ASSUME NEW r, NEW q \in ReplicaState, NEW p \in Peers, Good(r, p), Grows(r, q, p, {Null}),
         NEW k \in Keys, WellTyped(q)
  PROVE  LET s == DeleteRow(q, p, k)
         IN  /\ s \in ReplicaState
             /\ Grows(r, s, p, {Null})
             /\ WellTyped(s)
             /\ s.rows[k] \in Row
             /\ s.clock = Tick(q.clock)
<1> DEFINE v == NextVersion(q, p)
           row == DeletedRow(q.rows[k], v)
           s == Written(q, p, k, row, v)
<1>1. v \in OptVersion
  BY NextIsVersion
<1>2. q.rows[k] \in Row
  BY ReplicaFields
<1>3. row.cells = q.rows[k].cells /\ row.deleted = TRUE /\ row.delVersion = v
  <2> HIDE DEF v
  <2> QED BY DeletedRowFields, Zenon
<1>4. row \in Row
  <2>1. q.rows[k].cells \in [Cols -> Cell]
    BY <1>2, RowFields DEF Row
  <2> QED BY <1>1, <2>1 DEF DeletedRow, Row
<1>5. DeleteRow(q, p, k) = s
  BY DEF DeleteRow
<1> HIDE DEF row
<1>6. /\ s \in ReplicaState
      /\ s.clock = Tick(q.clock)
      /\ s.frontier = frontier_update(q.frontier, p, Tick(q.clock))
      /\ s.rows[k] = row /\ s.tombs[k] = v
      /\ \A j \in Keys \ {k} : s.rows[j] = q.rows[j] /\ s.tombs[j] = q.tombs[j]
  <2> HIDE DEF v
  <2> QED BY <1>1, <1>4, WrittenFacts
<1> HIDE DEF s
<1>7. \A j \in Keys : s.rows[j].cells = q.rows[j].cells
  BY <1>3, <1>6
<1>8. \A j \in Keys, c \in Cols : CellTicks(r, q, s, p, {Null}, j, c)
  BY <1>7 DEF CellTicks
<1>9. ASSUME NEW j \in Keys
      PROVE  DeleteTicks(r, q, s, p, j)
  <2>1. CASE j = k
    BY <1>3, <1>6, <2>1 DEF DeleteTicks
  <2>2. CASE j # k
    BY <1>6, <2>2 DEF DeleteTicks
  <2> QED BY <2>1, <2>2
<1>10. Grows(r, s, p, {Null})
  <2>1. s \in [rows : [Keys -> Row], tombs : Tombs, clock : Nat, frontier : Frontier]
    BY <1>6 DEF ReplicaState
  <2>2. {Null} \in SUBSET Values
    BY NullIsNoKey
  <2> QED BY <1>6, <1>8, <1>9, <2>1, <2>2, OneTick
<1>11. WellTyped(s)
  BY <1>7 DEF WellTyped, ValueAt
<1> QED BY <1>4, <1>5, <1>6, <1>10, <1>11

LEMMA PeerExcept ==
  ASSUME NEW s \in PeerState, NEW r, NEW i
  PROVE  /\ [s EXCEPT !.replica = r, !.indexes = i] =
               [replica |-> r, uniqueness |-> s.uniqueness, indexes |-> i, filed |-> s.filed]
         /\ [s EXCEPT !.replica = r] =
               [replica |-> r, uniqueness |-> s.uniqueness, indexes |-> s.indexes,
                filed |-> s.filed]
<1>1. s = [replica |-> s.replica, uniqueness |-> s.uniqueness, indexes |-> s.indexes,
           filed |-> s.filed]
  BY DEF PeerState
<1>2. [s EXCEPT !.replica = r] =
        [replica |-> r, uniqueness |-> s.uniqueness, indexes |-> s.indexes,
         filed |-> s.filed]
  BY <1>1
<1> DEFINE q == [replica |-> r, uniqueness |-> s.uniqueness, indexes |-> s.indexes,
                 filed |-> s.filed]
<1>3. [q EXCEPT !.indexes = i] =
        [replica |-> r, uniqueness |-> s.uniqueness, indexes |-> i, filed |-> s.filed]
  OBVIOUS
<1>4. [s EXCEPT !.replica = r, !.indexes = i] = [[s EXCEPT !.replica = r] EXCEPT !.indexes = i]
  OBVIOUS
<1> QED BY <1>2, <1>3, <1>4

LEMMA DeletedAtRuns ==
  ASSUME NEW s, NEW q, NEW p \in Peers, NEW E, Starts(s, p, E), Runs(s, q, p, {Null}, E),
         NEW k \in Keys
  PROVE  LET t == DeletedAt(q, p, k)
         IN  Runs(s, t, p, {Null}, E) /\ t.filed = q.filed
<1> DEFINE r == DeleteRow(q.replica, p, k)
           i == update_row(q.indexes, k, q.replica.rows[k], r.rows[k])
           t == [replica |-> r, uniqueness |-> q.uniqueness, indexes |-> i, filed |-> q.filed]
<1>1. /\ q \in PeerState /\ q.replica \in ReplicaState /\ q.indexes \in IndexManager
      /\ q.filed \in SUBSET ClaimEvent /\ q.uniqueness \in Registry /\ WellTyped(q.replica)
      /\ Grows(s.replica, q.replica, p, {Null}) /\ s.replica \in ReplicaState
      /\ Good(s.replica, p)
  BY PeerFields DEF Runs, Starts
<1>2. DeletedAt(q, p, k) = t
  <2>1. DeletedAt(q, p, k) = [q EXCEPT !.replica = r, !.indexes = i]
    BY DEF DeletedAt
  <2> HIDE DEF r, i
  <2> QED BY <1>1, <2>1, PeerExcept
<1>3. /\ r \in ReplicaState
      /\ Grows(s.replica, r, p, {Null})
      /\ WellTyped(r)
      /\ r.rows[k] \in Row
      /\ r.clock = Tick(q.replica.clock)
  BY <1>1, DeleteRowGrows
<1> HIDE DEF r
<1>4. i \in IndexManager
  BY <1>1, <1>3, UpdateRowType
<1> HIDE DEF i
<1>5. t \in PeerState
  BY <1>1, <1>3, <1>4, NewPeerState
<1>6. t.replica = r /\ t.uniqueness = q.uniqueness /\ t.filed = q.filed
  OBVIOUS
<1>7. \A v : Fresh(s.replica, q.replica, p, v) => Fresh(s.replica, r, p, v)
  BY <1>1, <1>3, FreshLater
<1> HIDE DEF t
<1>8. Runs(s, t, p, {Null}, E)
  BY <1>3, <1>5, <1>6, <1>7 DEF Runs
<1> QED BY <1>2, <1>6, <1>8

\* The passes after a statement, or after a merge, with new indexes.
LEMMA ClearedRuns ==
  ASSUME NEW s, NEW q, NEW p \in Peers, NEW E, Starts(s, p, E), Runs(s, q, p, {Null}, E),
         NEW r, Clears(q.replica, r, p), NEW i \in IndexManager
  PROVE  Runs(s, [replica |-> r, uniqueness |-> q.uniqueness, indexes |-> i,
                  filed |-> q.filed], p, {Null}, E)
<1> DEFINE t == [replica |-> r, uniqueness |-> q.uniqueness, indexes |-> i, filed |-> q.filed]
<1>1. /\ q \in PeerState /\ q.replica \in ReplicaState
      /\ q.filed \in SUBSET ClaimEvent /\ q.uniqueness \in Registry /\ WellTyped(q.replica)
      /\ Grows(s.replica, q.replica, p, {Null}) /\ s.replica \in ReplicaState
      /\ Good(s.replica, p)
  BY PeerFields DEF Runs, Starts
<1>2. Good(q.replica, p)
  BY <1>1 DEF Grows
<1>3. r \in ReplicaState /\ Grows(q.replica, r, p, {Null})
  BY <1>2 DEF Clears
<1>4. Grows(s.replica, r, p, {Null})
  BY <1>1, <1>3, GrowsTransitive
<1>5. ASSUME NEW k \in Keys, NEW c \in Cols
      PROVE  InColumn(k, c, ValueAt(r.rows[k], c))
  <2>1. InColumn(k, c, ValueAt(q.replica.rows[k], c))
    BY <1>1 DEF WellTyped
  <2>2. \/ r.rows[k].cells[c] = q.replica.rows[k].cells[c]
        \/ r.rows[k].cells[c].value = Null
    BY <1>3 DEF Grows, CellGrows
  <2> QED BY <2>1, <2>2 DEF ValueAt, InColumn
<1>6. WellTyped(r)
  BY <1>5 DEF WellTyped
<1>7. \A v : Fresh(s.replica, q.replica, p, v) => Fresh(s.replica, r, p, v)
  <2>1. q.replica.clock \in Nat /\ r.clock \in Nat /\ q.replica.clock <= r.clock
    BY <1>1, <1>3, ReplicaFields DEF Grows
  <2>2. \A v \in Version : v.counter \in Nat
    BY DEF Version
  <2> QED BY <2>1, <2>2 DEF Fresh
<1>8. t \in PeerState
  BY <1>1, <1>3, NewPeerState
<1>9. t.replica = r /\ t.uniqueness = q.uniqueness /\ t.filed = q.filed
  OBVIOUS
<1> HIDE DEF t
<1>10. Runs(s, t, p, {Null}, E)
  BY <1>4, <1>6, <1>7, <1>8, <1>9 DEF Runs
<1> QED BY <1>10 DEF t

LEMMA DeleteRuns ==
  ASSUME NEW s, NEW p \in Peers, NEW E, Starts(s, p, E), NEW S
  PROVE  LET t == exec_delete(s, p, S)
         IN  /\ Runs(s, t, p, {Null}, E)
             /\ t.filed = s.filed
             /\ NothingToCascade(t.replica)
<1> DEFINE rows == InRowOrder(S)
           n == Len(rows)
           A == {q \in PeerState : Runs(s, q, p, {Null}, E) /\ q.filed = s.filed}
           d == RowsDeleted(s, p, S)
           r == Enforced(d.replica, p, d.uniqueness)
           t == [replica |-> r, uniqueness |-> d.uniqueness, indexes |-> d.indexes,
                 filed |-> d.filed]
<1>1. rows \in Seq(Keys)
  BY InRowOrderFacts
<1> HIDE DEF rows
<1>2. n \in Nat /\ \A i \in 1..n : rows[i] \in Keys
  BY <1>1
<1>3. s \in A
  BY RunsFromItself DEF Starts
<1>4. ASSUME NEW q \in A, NEW k \in Keys
      PROVE  DeletedAt(q, p, k) \in A
  <2>1. Runs(s, DeletedAt(q, p, k), p, {Null}, E) /\ DeletedAt(q, p, k).filed = q.filed
    BY DeletedAtRuns
  <2> QED BY <2>1 DEF Runs
<1>5. \E g \in [0..n -> A] : g[n] = d
  <2>1. \A a \in A, i \in 1..Len(rows) : DeletedAt(a, p, rows[i]) \in A
    BY <1>2, <1>4
  <2>2. rows = InRowOrder(S) /\ d = RowsDeleted(s, p, S)
    BY DEF rows
  <2> HIDE DEF A, d
  <2> QED BY <1>1, <1>3, <2>1, <2>2, DeleteChain
<1>6. n \in 0..n
  BY <1>2
<1> HIDE DEF n, d
<1>7. d \in A
  BY <1>5, <1>6
<1>8. d \in PeerState /\ d.replica \in ReplicaState /\ d.uniqueness \in Registry
      /\ d.indexes \in IndexManager /\ d.filed = s.filed
  BY <1>7, PeerFields
<1>9. Clears(d.replica, r, p) /\ NothingToCascade(r)
  BY <1>8, EnforcedFacts
<1>10. exec_delete(s, p, S) = t
  <2>1. exec_delete(s, p, S) = [d EXCEPT !.replica = r]
    BY DEF exec_delete, d
  <2> HIDE DEF r
  <2> QED BY <1>8, <2>1, PeerExcept
<1> HIDE DEF r
<1>11. Runs(s, t, p, {Null}, E)
  BY <1>7, <1>8, <1>9, ClearedRuns
<1>12. t.replica = r /\ t.filed = d.filed
  OBVIOUS
<1> QED BY <1>8, <1>9, <1>10, <1>11, <1>12

-----------------------------------------------------------------------------
(***************************************************************************)
(* What the statements keep: the indexes as the rows of their tables, and  *)
(* a value in every NOT NULL column of a visible row.                      *)
(***************************************************************************)
Indexed(s) == \A i \in DOMAIN s.indexes : s.indexes[i] = Rebuilt(i, s.replica.rows)

RowFilled(k, row) == \A c \in Schemas[TableOf[k]].notNull : ValueAt(row, c) # Null

Filled(r) == \A k \in LiveRows(r) : RowFilled(k, r.rows[k])

Keeps(s, q) ==
  /\ Indexed(s) => Indexed(q)
  /\ Filled(s.replica) => Filled(q.replica)

\* A row is visible exactly when it has an index entry.
LEMMA LiveEntry ==
  ASSUME NEW r, NEW k \in Keys, NEW i
  PROVE  EntryOf(i, k, r.rows[k]) =
           IF k \in LiveRows(r)
           THEN {[key |-> extract_index_key(i.columns, r.rows[k]), row |-> k]} ELSE {}
BY DEF EntryOf, LiveRows, Visible

LEMMA EntryRow ==
  ASSUME NEW i, NEW k, NEW row, NEW e \in EntryOf(i, k, row)
  PROVE  e.row = k
BY DEF EntryOf

LEMMA NotNullColumns ==
  ASSUME NEW k \in Keys
  PROVE  Schemas[TableOf[k]].notNull \subseteq Cols
<1>1. TableOf[k] \in Tables
  BY SchemaAssumption
<1> QED BY <1>1, SchemaAssumption

\* What the passes spare.
LEMMA FilledSpares ==
  ASSUME RequiredAreSpared, NEW r, NEW s, Spares(r, s), Filled(r)
  PROVE  Filled(s)
<1>1. ASSUME NEW k \in LiveRows(s), NEW c \in Schemas[TableOf[k]].notNull
      PROVE  ValueAt(s.rows[k], c) # Null
  <2>1. k \in Keys /\ k \in LiveRows(r)
    BY <1>1 DEF Spares, LiveRows
  <2>2. c \in Cols \ Clearable(TableOf[k])
    BY <1>1, <2>1, NotNullColumns, SchemaAssumption DEF RequiredAreSpared
  <2>3. s.rows[k].cells[c] = r.rows[k].cells[c]
    BY <2>1, <2>2 DEF Spares
  <2>4. ValueAt(r.rows[k], c) # Null
    BY <1>1, <2>1 DEF Filled, RowFilled
  <2> QED BY <2>3, <2>4 DEF ValueAt
<1> QED BY <1>1 DEF Filled, RowFilled

LEMMA RebuiltSpares ==
  ASSUME IndexedAreSpared, NEW r, NEW s, Spares(r, s), NEW i \in Indexes
  PROVE  Rebuilt(i, s.rows) = Rebuilt(i, r.rows)
<1>1. ASSUME NEW k \in RowsOf(i.table)
      PROVE  EntryOf(i, k, s.rows[k]) = EntryOf(i, k, r.rows[k])
  <2>1. k \in Keys /\ TableOf[k] = i.table
    BY DEF RowsOf
  <2>2. k \in LiveRows(r) <=> k \in LiveRows(s)
    BY <2>1 DEF Spares, IndexedAreSpared
  <2>3. \A c \in i.columns : ValueAt(s.rows[k], c) = ValueAt(r.rows[k], c)
    <3>1. \A c \in i.columns : c \in Cols \ Clearable(TableOf[k])
      BY <2>1, IndexFacts DEF IndexedAreSpared
    <3> QED BY <2>1, <3>1 DEF Spares, ValueAt
  <2>4. extract_index_key(i.columns, s.rows[k]) = extract_index_key(i.columns, r.rows[k])
    BY <2>3 DEF extract_index_key
  <2> QED BY <2>1, <2>2, <2>4, LiveEntry
<1> QED BY <1>1 DEF Rebuilt

\* update_row leaves an index as a rebuild would make it.
LEMMA InRebuilt ==
  ASSUME NEW i, NEW rows, NEW e
  PROVE  e \in Rebuilt(i, rows) <=> \E j \in RowsOf(i.table) : e \in EntryOf(i, j, rows[j])
BY DEF Rebuilt

LEMMA RebuiltRow ==
  ASSUME NEW i, NEW rows, NEW k, k \in RowsOf(i.table), NEW after,
         \A j \in RowsOf(i.table) \ {k} : after[j] = rows[j]
  PROVE  Rebuilt(i, after)
           = (Rebuilt(i, rows) \ EntryOf(i, k, rows[k])) \cup EntryOf(i, k, after[k])
<1> DEFINE old == EntryOf(i, k, rows[k])
           new == EntryOf(i, k, after[k])
<1>1. ASSUME NEW e
      PROVE  e \in Rebuilt(i, after) <=> e \in (Rebuilt(i, rows) \ old) \cup new
  <2> DEFINE elsewhere == \E j \in RowsOf(i.table) \ {k} : e \in EntryOf(i, j, rows[j])
  <2>1. elsewhere => e \notin old
    BY EntryRow
  <2>2. e \in Rebuilt(i, rows) <=> elsewhere \/ e \in old
    BY InRebuilt
  <2>3. e \in Rebuilt(i, after) <=> elsewhere \/ e \in new
    BY InRebuilt
  <2> HIDE DEF elsewhere, old, new
  <2> QED BY <2>1, <2>2, <2>3
<1> HIDE DEF old, new
<1>2. Rebuilt(i, after) = (Rebuilt(i, rows) \ old) \cup new
  BY <1>1
<1> QED BY <1>2 DEF old, new

LEMMA RebuiltElsewhere ==
  ASSUME NEW i, NEW rows, NEW after, \A j \in RowsOf(i.table) : after[j] = rows[j]
  PROVE  Rebuilt(i, after) = Rebuilt(i, rows)
BY DEF Rebuilt

LEMMA UpdateRowRebuilds ==
  ASSUME NEW m, NEW rows, NEW k \in Keys, NEW after,
         \A j \in Keys \ {k} : after[j] = rows[j],
         \A i \in DOMAIN m : m[i] = Rebuilt(i, rows),
         NEW f, f = update_row(m, k, rows[k], after[k])
  PROVE  \A i \in DOMAIN f : f[i] = Rebuilt(i, after)
<1>1. DOMAIN f = DOMAIN m
  BY DEF update_row
<1>2. ASSUME NEW i \in DOMAIN m
      PROVE  f[i] = Rebuilt(i, after)
  <2>1. m[i] = Rebuilt(i, rows)
    OBVIOUS
  <2>2. CASE i.table = TableOf[k]
    <3>1. f[i] = (m[i] \ EntryOf(i, k, rows[k])) \cup EntryOf(i, k, after[k])
      BY <2>2 DEF update_row
    <3>2. k \in RowsOf(i.table) /\ \A j \in RowsOf(i.table) \ {k} : after[j] = rows[j]
      BY <2>2 DEF RowsOf
    <3>3. Rebuilt(i, after) = (Rebuilt(i, rows) \ EntryOf(i, k, rows[k])) \cup EntryOf(i, k, after[k])
      BY <3>2, RebuiltRow
    <3> QED BY <2>1, <3>1, <3>3
  <2>3. CASE i.table # TableOf[k]
    <3>1. f[i] = m[i]
      BY <2>3 DEF update_row
    <3>2. \A j \in RowsOf(i.table) : after[j] = rows[j]
      BY <2>3 DEF RowsOf
    <3> QED BY <2>1, <3>1, <3>2, RebuiltElsewhere
  <2> QED BY <2>2, <2>3
<1> QED BY <1>1, <1>2

\* A row is written, with its index entries.
LEMMA RowWrittenKeeps ==
  ASSUME NEW s \in PeerState, NEW p \in Peers, NEW k \in Keys, NEW row \in Row, NEW cols,
         Filled(s.replica) => row.deleted \/ RowFilled(k, row)
  PROVE  LET t == RowWritten(s, p, k, row, cols)
         IN  /\ Keeps(s, t)
             /\ \A j \in Keys \ {k} : t.replica.rows[j] = s.replica.rows[j]
<1> DEFINE t == RowWritten(s, p, k, row, cols)
           w == Written(s.replica, p, k, row, s.replica.tombs[k])
<1>1. /\ t.replica = w
      /\ t.indexes = update_row(s.indexes, k, s.replica.rows[k], row)
  BY DEF RowWritten
<1>2. s.replica \in ReplicaState /\ s.replica.tombs[k] \in OptVersion
  BY PeerFields, ReplicaFields
<1>3. w.rows[k] = row /\ \A j \in Keys \ {k} : w.rows[j] = s.replica.rows[j]
  BY <1>2, WrittenFacts
<1> HIDE DEF t, w
<1>4. Indexed(s) => Indexed(t)
  <2>1. SUFFICES ASSUME Indexed(s) PROVE Indexed(t)
    OBVIOUS
  <2>2. \A i \in DOMAIN s.indexes : s.indexes[i] = Rebuilt(i, s.replica.rows)
    BY <2>1 DEF Indexed
  <2>3. t.indexes = update_row(s.indexes, k, s.replica.rows[k], w.rows[k])
    BY <1>1, <1>3
  <2>4. \A i \in DOMAIN t.indexes : t.indexes[i] = Rebuilt(i, w.rows)
    <3> DEFINE m == s.indexes
               rows == s.replica.rows
               after == w.rows
               f == t.indexes
    <3>1. /\ \A j \in Keys \ {k} : after[j] = rows[j]
          /\ \A i \in DOMAIN m : m[i] = Rebuilt(i, rows)
          /\ f = update_row(m, k, rows[k], after[k])
      BY <1>3, <2>2, <2>3
    <3> HIDE DEF m, rows, after, f
    <3>2. \A i \in DOMAIN f : f[i] = Rebuilt(i, after)
      BY <3>1, UpdateRowRebuilds
    <3> QED BY <3>2 DEF f, after
  <2> QED BY <1>1, <2>4 DEF Indexed
<1>5. Filled(s.replica) => Filled(w)
  <2>1. ASSUME Filled(s.replica), NEW j \in LiveRows(w)
        PROVE  RowFilled(j, w.rows[j])
    <3>1. j \in Keys /\ w.rows[j] # NoRow /\ ~w.rows[j].deleted
      BY DEF LiveRows, Visible
    <3>2. CASE j = k
      BY <1>3, <2>1, <3>1, <3>2
    <3>3. CASE j # k
      BY <1>3, <2>1, <3>1, <3>3 DEF Filled, LiveRows, Visible
    <3> QED BY <3>2, <3>3
  <2> QED BY <2>1 DEF Filled
<1> QED BY <1>1, <1>3, <1>4, <1>5 DEF Keeps, t

LEMMA DeletedAtType ==
  ASSUME NEW s \in PeerState, NEW p \in Peers, NEW k \in Keys
  PROVE  DeletedAt(s, p, k) \in PeerState
<1> DEFINE v == NextVersion(s.replica, p)
           row == DeletedRow(s.replica.rows[k], v)
           r == DeleteRow(s.replica, p, k)
           i == update_row(s.indexes, k, s.replica.rows[k], r.rows[k])
<1>1. /\ s.replica \in ReplicaState /\ v \in OptVersion /\ s.replica.rows[k] \in Row
      /\ s.uniqueness \in Registry /\ s.indexes \in IndexManager /\ s.filed \in SUBSET ClaimEvent
  BY PeerFields, ReplicaFields, NextIsVersion
<1>2. row \in Row
  <2> HIDE DEF v
  <2>1. s.replica.rows[k].cells \in [Cols -> Cell]
    BY <1>1, RowFields DEF Row
  <2> QED BY <1>1, <2>1 DEF DeletedRow, Row
<1>3. r \in ReplicaState /\ r.rows[k] \in Row
  <2>1. r = Written(s.replica, p, k, row, v)
    BY DEF DeleteRow
  <2> HIDE DEF v, row, r
  <2> QED BY <1>1, <1>2, <2>1, WrittenFacts
<1>4. DeletedAt(s, p, k) = [s EXCEPT !.replica = r, !.indexes = i]
  BY DEF DeletedAt
<1> HIDE DEF r
<1>5. i \in IndexManager
  BY <1>1, <1>3, UpdateRowType
<1> HIDE DEF i
<1>6. DeletedAt(s, p, k) = [replica |-> r, uniqueness |-> s.uniqueness, indexes |-> i,
                            filed |-> s.filed]
  BY <1>4, PeerExcept
<1> QED BY <1>1, <1>3, <1>5, <1>6, NewPeerState

LEMMA DeletedAtKeeps ==
  ASSUME NEW s \in PeerState, NEW p \in Peers, NEW k \in Keys
  PROVE  LET t == DeletedAt(s, p, k)
         IN  Keeps(s, t) /\ t.uniqueness = s.uniqueness
<1> DEFINE v == NextVersion(s.replica, p)
           row == DeletedRow(s.replica.rows[k], v)
           w == Written(s.replica, p, k, row, v)
           t == DeletedAt(s, p, k)
<1>1. s.replica \in ReplicaState /\ v \in OptVersion /\ s.replica.rows[k] \in Row
  BY PeerFields, ReplicaFields, NextIsVersion
<1>2. row \in Row /\ row.deleted
  <2> HIDE DEF v
  <2>1. row.deleted = TRUE
    BY DeletedRowFields, Zenon
  <2>2. s.replica.rows[k].cells \in [Cols -> Cell]
    BY <1>1, RowFields DEF Row
  <2> QED BY <1>1, <2>1, <2>2 DEF DeletedRow, Row
<1>3. w.rows[k] = row /\ \A j \in Keys \ {k} : w.rows[j] = s.replica.rows[j]
  <2> HIDE DEF v, row
  <2> QED BY <1>1, <1>2, WrittenFacts
<1>4. DeleteRow(s.replica, p, k) = w
  BY DEF DeleteRow
<1> HIDE DEF w, row
<1>5. /\ t.replica = w
      /\ t.indexes = update_row(s.indexes, k, s.replica.rows[k], w.rows[k])
      /\ t.uniqueness = s.uniqueness
  <2> DEFINE i == update_row(s.indexes, k, s.replica.rows[k], w.rows[k])
  <2>1. t = [s EXCEPT !.replica = w, !.indexes = i]
    BY <1>4 DEF DeletedAt
  <2> HIDE DEF i, t
  <2> QED BY <2>1, PeerExcept DEF i
<1> HIDE DEF t
<1>6. Indexed(s) => Indexed(t)
  <2>1. SUFFICES ASSUME Indexed(s) PROVE Indexed(t)
    OBVIOUS
  <2>2. \A i \in DOMAIN s.indexes : s.indexes[i] = Rebuilt(i, s.replica.rows)
    BY <2>1 DEF Indexed
  <2>3. \A i \in DOMAIN t.indexes : t.indexes[i] = Rebuilt(i, w.rows)
    <3> DEFINE m == s.indexes
               rows == s.replica.rows
               after == w.rows
               f == t.indexes
    <3>1. /\ \A j \in Keys \ {k} : after[j] = rows[j]
          /\ \A i \in DOMAIN m : m[i] = Rebuilt(i, rows)
          /\ f = update_row(m, k, rows[k], after[k])
      BY <1>3, <1>5, <2>2
    <3> HIDE DEF m, rows, after, f
    <3>2. \A i \in DOMAIN f : f[i] = Rebuilt(i, after)
      BY <3>1, UpdateRowRebuilds
    <3> QED BY <3>2 DEF f, after
  <2> QED BY <1>5, <2>3 DEF Indexed
<1>7. Filled(s.replica) => Filled(w)
  <2>1. ASSUME Filled(s.replica), NEW j \in LiveRows(w)
        PROVE  RowFilled(j, w.rows[j])
    <3>1. j \in Keys /\ j # k
      BY <1>2, <1>3 DEF LiveRows, Visible
    <3> QED BY <1>3, <2>1, <3>1 DEF Filled, LiveRows, Visible
  <2> QED BY <2>1 DEF Filled
<1> QED BY <1>5, <1>6, <1>7 DEF Keeps, t

\* The validation pass of INSERT.
HasRequired(new) ==
  \A c \in Schemas[TableOf[new.key]].notNull : c \in DOMAIN NewCells(new) /\ NewCells(new)[c] # Null

LEMMA InsertedKeeps ==
  ASSUME NEW s \in PeerState, NEW p \in Peers, NEW new, IsNew(new), HasRequired(new)
  PROVE  Keeps(s, Inserted(s, p, new))
<1> DEFINE k == new.key
           vals == NewCells(new)
           v == NextVersion(s.replica, p)
           row == InsertedRow(v, vals)
<1>1. k \in Keys /\ v \in Version
  BY PeerFields, NextIsVersion DEF IsNew
<1>2. IsWritten(row, NoRow, v, vals)
  <2>1. \A c \in DOMAIN vals : vals[c] \in Values
    BY NewCellsFacts
  <2> HIDE DEF v, vals
  <2> QED BY <1>1, <2>1, InsertedRowFacts
<1>3. RowFilled(k, row)
  <2>1. ASSUME NEW c \in Schemas[TableOf[k]].notNull
        PROVE  ValueAt(row, c) # Null
    <3>1. c \in Cols
      BY <1>1, NotNullColumns
    <3>2. c \in DOMAIN vals /\ vals[c] # Null
      BY DEF HasRequired
    <3> HIDE DEF k, row, vals, v
    <3>3. ValueAt(row, c) = vals[c]
      BY <1>1, <1>2, <3>1, <3>2, ValueAtWritten
    <3> QED BY <3>2, <3>3
  <2> QED BY <2>1 DEF RowFilled
<1>4. row \in Row
  BY <1>2 DEF IsWritten
<1>5. Inserted(s, p, new) = RowWritten(s, p, k, row, DOMAIN vals)
  BY DEF Inserted
<1> HIDE DEF k, row, vals
<1> QED BY <1>1, <1>3, <1>4, <1>5, RowWrittenKeeps

LEMMA InsertKeeps ==
  ASSUME NEW s, NEW p \in Peers, NEW E, Starts(s, p, E),
         NEW N, NEW batch \in Seq(N),
         \A i \in DOMAIN batch : /\ IsNew(batch[i])
                                 /\ HasRequired(batch[i])
                                 /\ s.replica.rows[batch[i].key] = NoRow
  PROVE  Keeps(s, exec_insert(s, p, batch))
<1> DEFINE n == Len(batch)
           A == {q \in PeerState : IsWrite(s, q, p, E) /\ Keeps(s, q)}
<1>1. n \in Nat /\ DOMAIN batch = 1..n
  OBVIOUS
<1>2. ASSUME NEW q \in A, NEW i \in 1..n
      PROVE  Inserted(q, p, batch[i]) \in A
  <2>1. Inserted(q, p, batch[i]) \in PeerState /\ IsWrite(s, Inserted(q, p, batch[i]), p, E)
    BY <1>1, InsertedWrites
  <2>2. Keeps(q, Inserted(q, p, batch[i]))
    BY <1>1, InsertedKeeps
  <2> QED BY <2>1, <2>2 DEF Keeps
<1>3. s \in A
  BY RunsFromItself, FilesFromItself DEF Starts, IsWrite, Keeps
<1>4. \E g \in [0..n -> A] : g[n] = exec_insert(s, p, batch)
  <2>1. \A a \in A, i \in 1..Len(batch) : Inserted(a, p, batch[i]) \in A
    BY <1>2
  <2>2. PICK last : last = exec_insert(s, p, batch)
    OBVIOUS
  <2> HIDE DEF A
  <2> QED BY <1>3, <2>1, <2>2, InsertChain
<1>5. n \in 0..n
  BY <1>1
<1> HIDE DEF n
<1> QED BY <1>4, <1>5

LEMMA UpdatedKeeps ==
  ASSUME NEW s \in PeerState, WellTyped(s.replica), NEW p \in Peers, NEW k \in LiveRows(s.replica),
         NEW assign, IsSetList(k, assign), ~NullsRequired(s, k, assign)
  PROVE  LET t == Updated(s, p, k, assign)
         IN  /\ Keeps(s, t)
             /\ \A j \in Keys \ {k} : t.replica.rows[j] = s.replica.rows[j]
<1> DEFINE old == s.replica.rows[k]
           vals == Evaluated(old, assign)
           v == NextVersion(s.replica, p)
           row == UpdatedRow(old, v, vals)
<1>1. k \in Keys /\ v \in Version /\ old \in Row
  BY PeerFields, NextIsVersion, ReplicaFields DEF LiveRows
<1>2. \A c \in Cols : InColumn(k, c, ValueAt(old, c))
  BY <1>1 DEF WellTyped
<1>3. DOMAIN vals = DOMAIN assign /\ \A c \in DOMAIN vals : vals[c] \in Values
  <2> HIDE DEF old
  <2> QED BY <1>1, <1>2, EvaluatedFacts
<1>4. IsWritten(row, old, v, vals)
  <2> HIDE DEF old, v, vals
  <2> QED BY <1>1, <1>3, UpdatedRowFacts
<1>5. ASSUME Filled(s.replica)
      PROVE  RowFilled(k, row)
  <2>1. ASSUME NEW c \in Schemas[TableOf[k]].notNull
        PROVE  ValueAt(row, c) # Null
    <3>1. c \in Cols
      BY <1>1, NotNullColumns
    <3>2. ValueAt(old, c) # Null
      BY <1>5, <2>1 DEF Filled, RowFilled
    <3>3. c \in DOMAIN assign => vals[c] # Null
      BY <2>1 DEF NullsRequired
    <3> HIDE DEF old, row, vals, v
    <3>4. ValueAt(row, c) = IF c \in DOMAIN vals THEN vals[c] ELSE ValueAt(old, c)
      BY <1>1, <1>4, <3>1, ValueAtWritten
    <3> QED BY <1>3, <3>2, <3>3, <3>4
  <2> QED BY <2>1 DEF RowFilled
<1>6. row \in Row
  BY <1>4 DEF IsWritten
<1>7. Updated(s, p, k, assign) = RowWritten(s, p, k, row, DOMAIN assign)
  BY DEF Updated
<1> HIDE DEF row
<1> QED BY <1>1, <1>5, <1>6, <1>7, RowWrittenKeeps

LEMMA UpdateKeeps ==
  ASSUME NEW s, NEW p \in Peers, NEW E, Starts(s, p, E), NEW S, NEW assign,
         AreSetLists(S, assign), S \subseteq LiveRows(s.replica)
  PROVE  Keeps(s, exec_update(s, p, S, assign))
<1> DEFINE rows == BeforeFailure(s, assign, InRowOrder(S))
           n == Len(rows)
           A == {q \in PeerState : IsWrite(s, q, p, E)}
           Inv == [i \in 0..n |->
                     {q \in A : /\ Keeps(s, q)
                                /\ \A j \in (i + 1)..n :
                                     q.replica.rows[rows[j]] = s.replica.rows[rows[j]]}]
<1>1. /\ rows \in Seq(Keys) /\ ToSet(rows) \subseteq S /\ IsInjective(rows)
      /\ \A i \in DOMAIN rows : ~NullsRequired(s, rows[i], assign)
  <2>1. InRowOrder(S) \in Seq(Keys) /\ ToSet(InRowOrder(S)) \subseteq S /\ IsInjective(InRowOrder(S))
    BY InRowOrderFacts
  <2> QED BY <2>1, BeforeFailureFacts
<1>2. rows = BeforeFailure(s, assign, InRowOrder(S))
  OBVIOUS
<1> HIDE DEF rows
<1>3. /\ n \in Nat
      /\ \A i \in 1..n : /\ rows[i] \in LiveRows(s.replica) /\ rows[i] \in Keys
                         /\ IsSetList(rows[i], assign)
                         /\ ~NullsRequired(s, rows[i], assign)
      /\ \A i, j \in 1..n : rows[i] = rows[j] => i = j
  <2>1. n \in Nat /\ DOMAIN rows = 1..n /\ \A i \in 1..n : rows[i] \in Keys
    BY <1>1
  <2> HIDE DEF n
  <2> QED BY <1>1, <2>1 DEF ToSet, IsInjective, AreSetLists
<1>4. ASSUME NEW q \in A, NEW i \in 1..n
      PROVE  Updated(q, p, rows[i], assign) \in A
  BY <1>3, UpdatedWrites
<1>5. s \in A
  BY RunsFromItself, FilesFromItself DEF Starts, IsWrite
<1>6. PICK g \in [0..n -> A] : /\ g[0] = s
                               /\ \A i \in 1..n : g[i] = Updated(g[i - 1], p, rows[i], assign)
                               /\ g[n] = exec_update(s, p, S, assign)
  <2>1. \A a \in A, i \in 1..Len(rows) : Updated(a, p, rows[i], assign) \in A
    BY <1>4
  <2>2. PICK last : last = exec_update(s, p, S, assign)
    OBVIOUS
  <2> HIDE DEF A, Inv
  <2> QED BY <1>1, <1>2, <1>5, <2>1, <2>2, UpdateChain
<1>7. g[0] \in Inv[0]
  BY <1>3, <1>5, <1>6 DEF Keeps
<1>8. ASSUME NEW i \in 1..n, g[i - 1] \in Inv[i - 1]
      PROVE  g[i] \in Inv[i]
  <2> DEFINE q == g[i - 1]
             k == rows[i]
  <2>1. i - 1 \in 0..n /\ i \in 0..n /\ i \in ((i - 1) + 1)..n
        /\ \A j \in (i + 1)..n : j \in ((i - 1) + 1)..n /\ j \in 1..n /\ j # i
    BY <1>3
  <2>2. /\ q \in A /\ Keeps(s, q)
        /\ \A j \in ((i - 1) + 1)..n : q.replica.rows[rows[j]] = s.replica.rows[rows[j]]
    BY <1>8, <2>1
  <2>3. q \in PeerState /\ WellTyped(q.replica)
    BY <2>2 DEF IsWrite, Runs
  <2>4. /\ k \in LiveRows(s.replica) /\ k \in Keys /\ IsSetList(k, assign)
        /\ ~NullsRequired(s, k, assign)
        /\ q.replica.rows[k] = s.replica.rows[k]
    BY <1>3, <2>1, <2>2
  <2>5. g[i] = Updated(q, p, k, assign) /\ g[i] \in A
    BY <1>6, <2>1
  <2> HIDE DEF A, Inv, q, k
  <2>6. k \in LiveRows(q.replica) /\ ~NullsRequired(q, k, assign)
    BY <2>4 DEF LiveRows, Visible, NullsRequired
  <2>7. /\ Keeps(q, g[i])
        /\ \A j \in Keys \ {k} : g[i].replica.rows[j] = q.replica.rows[j]
    BY <2>3, <2>4, <2>5, <2>6, UpdatedKeeps
  <2>8. Keeps(s, g[i])
    BY <2>2, <2>7 DEF Keeps
  <2>9. \A j \in (i + 1)..n : g[i].replica.rows[rows[j]] = s.replica.rows[rows[j]]
    BY <1>3, <2>1, <2>2, <2>7 DEF k
  <2> QED BY <2>1, <2>5, <2>8, <2>9 DEF Inv
<1>9. g[n] \in Inv[n]
  <2>1. n \in 0..n
    BY <1>3
  <2> HIDE DEF Inv, n
  <2> QED BY <1>3, <1>7, <1>8, <2>1, ChainStaysIn
<1>10. Keeps(s, g[n])
  BY <1>3, <1>9
<1> QED BY <1>6, <1>10

LEMMA DeleteKeeps ==
  ASSUME NEW s \in PeerState, NEW p \in Peers, NEW S, InTheirTables(s.uniqueness)
  PROVE  LET t == exec_delete(s, p, S)
         IN  /\ IndexedAreSpared /\ Indexed(s) => Indexed(t)
             /\ RequiredAreSpared /\ Filled(s.replica) => Filled(t.replica)
<1> DEFINE rows == InRowOrder(S)
           n == Len(rows)
           A == {q \in PeerState : Keeps(s, q) /\ q.uniqueness = s.uniqueness}
           d == RowsDeleted(s, p, S)
           r == Enforced(d.replica, p, d.uniqueness)
           t == [replica |-> r, uniqueness |-> d.uniqueness, indexes |-> d.indexes,
                 filed |-> d.filed]
<1>1. rows \in Seq(Keys)
  BY InRowOrderFacts
<1> HIDE DEF rows
<1>2. n \in Nat /\ \A i \in 1..n : rows[i] \in Keys
  BY <1>1
<1>3. s \in A
  BY DEF Keeps
<1>4. ASSUME NEW q \in A, NEW k \in Keys
      PROVE  DeletedAt(q, p, k) \in A
  <2>1. DeletedAt(q, p, k) \in PeerState
    BY DeletedAtType
  <2>2. Keeps(q, DeletedAt(q, p, k)) /\ DeletedAt(q, p, k).uniqueness = q.uniqueness
    BY DeletedAtKeeps
  <2> QED BY <2>1, <2>2 DEF Keeps
<1>5. \E g \in [0..n -> A] : g[n] = d
  <2>1. \A a \in A, i \in 1..Len(rows) : DeletedAt(a, p, rows[i]) \in A
    BY <1>2, <1>4
  <2>2. rows = InRowOrder(S) /\ d = RowsDeleted(s, p, S)
    BY DEF rows
  <2> HIDE DEF A, d
  <2> QED BY <1>1, <1>3, <2>1, <2>2, DeleteChain
<1>6. n \in 0..n
  BY <1>2
<1> HIDE DEF n, d
<1>7. d \in A
  BY <1>5, <1>6
<1>8. d \in PeerState /\ d.replica \in ReplicaState /\ d.uniqueness \in Registry
      /\ InTheirTables(d.uniqueness) /\ Keeps(s, d) /\ DOMAIN d.indexes \subseteq Indexes
  BY <1>7, PeerFields, IndexManagerFacts
<1>9. Spares(d.replica, r)
  BY <1>8, EnforcedSpares
<1>10. exec_delete(s, p, S) = t
  <2>1. exec_delete(s, p, S) = [d EXCEPT !.replica = r]
    BY DEF exec_delete, d
  <2> HIDE DEF r
  <2> QED BY <1>8, <2>1, PeerExcept
<1>11. t.replica = r /\ t.indexes = d.indexes
  OBVIOUS
<1> HIDE DEF r, t
<1>12. IndexedAreSpared /\ Indexed(s) => Indexed(t)
  <2>1. ASSUME IndexedAreSpared, Indexed(s), NEW i \in DOMAIN d.indexes
        PROVE  d.indexes[i] = Rebuilt(i, r.rows)
    <3>1. d.indexes[i] = Rebuilt(i, d.replica.rows)
      BY <1>8, <2>1 DEF Keeps, Indexed
    <3>2. Rebuilt(i, r.rows) = Rebuilt(i, d.replica.rows)
      BY <1>8, <1>9, <2>1, RebuiltSpares
    <3> QED BY <3>1, <3>2
  <2> QED BY <1>11, <2>1 DEF Indexed
<1>13. RequiredAreSpared /\ Filled(s.replica) => Filled(t.replica)
  BY <1>8, <1>9, <1>11, FilledSpares DEF Keeps
<1> QED BY <1>10, <1>12, <1>13
=============================================================================
