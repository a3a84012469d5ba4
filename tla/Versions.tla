------------------------------ MODULE Versions ------------------------------
(***************************************************************************)
(* Scalar Lamport versions, frontiers and the per-peer clock:              *)
(* crates/core/src/types.rs (Version, Frontier), crates/core/src/utils.rs  *)
(* and crates/crdt/src/clock.rs.                                           *)
(*                                                                         *)
(* A peer is a positive integer; the order of the integers stands for the  *)
(* lexicographic order of the peer ids, which breaks ties between equal    *)
(* counters.  A frontier is a BTreeMap<PeerId, u64> read with              *)
(* unwrap_or(0): a total function on Peers, 0 for a missing entry.         *)
(***************************************************************************)
EXTENDS Integers, FiniteSetsExt

CONSTANT Peers          \* the peer ids, as integers

ASSUME PeersAssumption == Peers \subseteq Nat \ {0}

(***************************************************************************)
(* NoVersion is below every version a tick returns (counters start at 1).  *)
(* It stands for delete_version = None and for the version of an absent    *)
(* cell.                                                                   *)
(***************************************************************************)
NoVersion == [counter |-> 0, peer |-> 0]

Version == [counter : Nat \ {0}, peer : Peers]

OptVersion == Version \cup {NoVersion}

\* The derived Ord of struct Version: the counter first, then the peer id.
VLess(v, w) ==
  \/ v.counter < w.counter
  \/ v.counter = w.counter /\ v.peer < w.peer

VLeq(v, w) == v = w \/ VLess(v, w)

-----------------------------------------------------------------------------
Frontier == [Peers -> Nat]

EmptyFrontier == [p \in Peers |-> 0]

\* Mutant of merge_frontiers: the other frontier is ignored.
KeepFrontier(a, b) == a

merge_frontiers(a, b) ==
  [p \in Peers |-> IF b[p] > a[p] THEN b[p] ELSE a[p]]

frontier_update(f, p, counter) ==
  [f EXCEPT ![p] = IF counter > @ THEN counter ELSE @]

frontier_dominates(a, b) == \A p \in Peers : a[p] >= b[p]

\* Mutant of Seen: off by one.
SeenOneMore(f, v) == v = NoVersion \/ v.counter <= f[v.peer] + 1

\* A frontier has seen a version iff the version's counter is not above the
\* entry of the peer that wrote it (the filter of extract_delta).
Seen(f, v) == v = NoVersion \/ v.counter <= f[v.peer]

-----------------------------------------------------------------------------
\* LamportClock::tick: the new counter is also the counter of the version.
Tick(counter) == counter + 1

\* Mutant of update_from_frontier: the clock ignores the other peers.
KeepCounter(counter, f) == counter

\* LamportClock::update_from_frontier: the maximum, without an increment.
update_from_frontier(counter, f) == Max({counter} \cup {f[p] : p \in Peers})
=============================================================================
