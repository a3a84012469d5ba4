# Anvil: specifications of the replication and conflict-resolution core

Anvil (the repository's `README.md`, `ARCHITECTURE.md`, `crates/`) is a
relational engine in which every peer executes SQL locally and peers exchange
CRDT deltas pairwise, without a coordinator. This directory holds TLA+ modules
of that core, the TLC configurations that check them and the TLAPS proofs of
the central ones. Paths below are relative to the repository's `crates/` unless
they name another file.

Contents: [the system](#the-system), [modules](#modules),
[runs](#runs-and-what-they-show), [findings](#where-the-code-and-its-documentation-disagree),
[fairness](#fairness), [proofs](#proofs), [limits](#what-is-not-covered),
[plan](#plan).

## The system

One `EngineHost` (`adapter/src/engine.rs`) owns all peers of a process; each
peer is a `ReplicaState` and an `IndexManager`. A client drives the host through
a JSON-lines command loop, one command at a time: `execute` (a SQL statement at
a peer), `sync(a, b)`, snapshots. Peers never call each other. What one peer
knows of another is what a delta carried, and a statement at one peer can fall
between any two syncs of the others: that is where the interleavings come from.
Nothing is persisted and no thread is shared; there is no crash recovery to
model.

| component | state | operations | what makes it correct | module |
|---|---|---|---|---|
| versions, frontiers, clock (`core/src/types.rs`, `core/src/utils.rs`, `crdt/src/clock.rs`) | a counter per peer; highest counter seen of every peer | `tick`, `update_from_frontier`, frontier update, merge, domination | versions are unique and newer than everything the peer has seen; no frontier runs ahead of what arrived with it | `Versions` |
| row CRDT (`crdt/src/merge.rs`) | cells with versions, delete flag and version | `merge_cell`, `merge_row` | a semilattice: commutative, associative, idempotent; delete wins | `RowMerge` |
| tombstones (`crdt/src/tombstone.rs`) | row id -> delete version | insert, merge, `collect_stable` | agree with the rows; kept until every peer has seen them | `Replica`, `Gc` |
| replica and storage (`replication/src/lib.rs`, `storage/src/engine.rs`) | rows, tombstones, clock, frontier, registry, schemas | upsert, visibility, `gc_row` | a peer shows what its frontier covers | `Replica` |
| delta sync (`sync/src/delta.rs`, `sync/src/session.rs`) | none of its own | `extract_delta`, `apply_delta`, `sync_peers`, `sync_to_quiescence` | strong convergence under delay, loss, repetition and reordering | `DeltaSync`, `EventualStore` |
| transport (`network/src`) | a trait; the in-tree implementations move nothing | send and receive a delta | nothing: it promises nothing | net of `DeltaSync` |
| SQL writes (`sql/src/executor.rs`) | none of its own | INSERT, UPDATE, DELETE: tick, claims, upsert, enforcement | an INSERT that is refused changes nothing; an UPDATE that fails leaves rows, claims and indexes in step | `Replica`, `Schema`, `Executor`, `EngineHost` |
| SQL reads (`sql/src/executor.rs`) | none | SELECT with the uniqueness filter | no reader sees a duplicate | `Executor` |
| uniqueness registry (`crdt/src/uniqueness.rs`) | value -> owner, version, losers | `claim`, `merge`, rebuilding from a delta | one owner, the latest claim; no claimant is forgotten | `Uniqueness` |
| uniqueness enforcement (`sql/src/executor.rs`, `adapter/src/engine.rs`) | none | after each DELETE and each side of a sync, the losers' columns become NULL | tables satisfy the constraint after a sync; a dead winner is replaced; peers converge | `Executor`, `EngineHost` |
| foreign keys (`sql/src/executor.rs:735`) | none | cascade, orphan or keep the children of deleted rows, to a fixpoint | no reference outlives a delete that knew of it; concurrent references survive | `ForeignKeys`, `EngineHost` |
| secondary indexes (`index/src/lib.rs`) | key -> row ids | create, update per row, rebuild after sync | equal to the rows | `SecondaryIndex`, `EngineHost` |
| snapshot hash (`hashing/src/lib.rs`) | none | a hash of rows, tombstones and owners | equal after a sync | `Snapshot` of `Executor` |
| engine host (`adapter/src/engine.rs`) | the peers | `execute`, `sync`, snapshots | the passes after a merge, in their order, leave both sides in the same logical state | `EngineHost` |
| garbage collection (`gc/src/lib.rs`, `metadata/src/lib.rs`) | frontiers of known peers | learn a frontier, `run_gc` | no zombie rows; tombstones do go | `Gc` |
| transactions, parsing, serialization, WASM, benchmarks, Python adapter | | | | not modelled, see `PROJECT.json` |

What is hard here: deltas that are extracted against a frontier and applied
later, against another one; ticks by the enforcement passes, so that resolving
a conflict writes new versions that travel and conflict in turn; the registry,
which is sent as final claims and rebuilt by replaying them; cascades and
uniqueness, each of which changes what the other looks at; collection, which
forgets what a later delta may still speak of. `PROJECT.json` lists each hazard
at its line with the properties aimed at it.

## Modules

```
Versions <- RowMerge <- Replica <- DeltaSync <- MCDeltaSync
   ^                       ^ ^         '------- INSTANCE EventualStore
   |                       | '- Gc <----------- MCGc
   |                       '--- Schema <- ForeignKeys ----.
   |                              '----- SecondaryIndex --+- Executor <- EngineHost <- MCEngineHost
   '-- Uniqueness ----------------------------------------'

RowMergeProofs <- ReplicaProofs <- DeltaSyncProofs <- DeltaSyncStepProofs, DeltaSyncRefinement
                        |<-------- GcProofs
                        '<-------- ExecutorProofs <- EngineHostProofs
```

`Collections` holds two operations on sequences and functions that `Schema` and
`Uniqueness` share. A proof module extends the module it is named after;
`ReplicaProofs` has the lemmas about clocks, frontiers and what a write or a
delta does to one replica, which the three systems built on `Replica` need.

**Versions.** A version is a counter and a peer. Peers are positive integers,
whose order stands for the lexicographic order of peer ids. Frontiers are total
functions, 0 for an entry the `BTreeMap` lacks, because every reader of a
frontier uses `unwrap_or(0)`. `NoVersion` stands for `None`.

**RowMerge.** A row is a total function of cells (`NoCell` for a missing
column), the delete flag and version. `merge_row` follows the match arms of the
code. `Received` is what `apply_delta` does with one incoming row.

**Replica.** The fields of `ReplicaState` that a table without constraints
uses, the three row writes, `extract_delta` and `apply_delta`. In the loops of
`apply_delta` each iteration touches only its own row and tombstone, so both
loops are one function over the keys.

**DeltaSync.** Peers write (`Insert`, `Update`, `Delete`), run `SyncPeers` (both
deltas extracted, then both applied, as in `session.rs` and in
`EngineHost::sync`), or hand a delta to a network (`Extract`) which may apply
it any number of times in any order (`Apply` keeps it) or lose it (`Lose`).
`writes` and `deletes` are history variables, `d.base` is the frontier a delta was extracted
against; no step reads them. `EventualStore` is what this promises, with no
replicas, deltas or clocks: a peer shows exactly the newest of what it has seen
of one common history. `Store` maps the frontiers and rows of `DeltaSync` to it.

**Uniqueness.** One registry entry as the code's operations change it. The
losers are a sequence because `claim` appends without looking and readers take
the first entry of a row. `rebuilt` replays the owner and then the losers of an
incoming registry through `claim`, as `apply_delta` does.

**Schema.** What a `TableSchema` says, as the constant function `Schemas`: the
values clients write in each column, NOT NULL, DEFAULT, foreign keys, UNIQUE
constraints and the indexes clients may create. The rows of all tables are the
keys of `Replica`, with `TableOf` telling their tables. Tables and rows have a
fixed order, that of the `BTreeMap`s, because the passes visit them in it and
each step sees what the steps before it did.

**ForeignKeys.** `enforce_fk_cascades`: `CascadePass` is one round of the `while`
loop, a fold over the parent tables and the foreign keys that refer to each; the
children one foreign key reaches share one tick. The loop is a recursive
function, so a loop that did not end would end TLC with a stack overflow
rather than pass unnoticed (`CascadesEnd` proves that it ends). A reference is a value that equals the key of a row: the code compares
the value's string with the row id, whatever `ref_column` says. NULL has a
string form too, `NULL`; `ReferenceAssumption` says that no row has it as its id.

**SecondaryIndex.** An index is the set of its entries; a peer has a function from the
indexes it has created to their entries. `Rebuilt` is both the effect of
`rebuild_table` and the definition of a correct index.

**Executor.** The statements and passes of one peer as operators on a record of
its replica, registry, indexes and the claims it has filed (a history).
`exec_insert`, `exec_update` and `exec_delete` are folds over the rows of the
statement, in the order of the code: INSERT validates all rows before it writes
one; UPDATE validates each row when its turn comes, and a failure ends it
there; DELETE runs the three passes of `Enforced` afterwards, even if no row
matched.

**EngineHost.** The peers, the statements clients may send them and
`EngineHost::sync`, with the passes and the index rebuild. `deletes` records
every delete with the frontier its peer had, which tells a reference that peer
knew of from a concurrent one. Any choice of visible rows is a WHERE clause.

**Gc.** `DeltaSync` without a network, with a `PeerRegistry` per collector:
`LearnFrontier` is `update_peer_frontier` with the current frontier of a peer,
`Collect` is `run_gc` with `global_min_frontier`. Both may come at any time
between other peers' steps, so what a collector knows is in general stale. Like `DeltaSync`,
it has a switch `ReuseKeys`: whether clients insert keys they have seen deleted, which
`exec_insert` allows.

`DeltaSync` and `Gc` have one row per statement: a statement over several rows
is a sequence of such steps at one peer with no other step between them, and
no property there speaks of a whole statement. In `EngineHost` a statement has
up to `MaxRows` rows.

## Runs and what they show

| run | instance | result |
|---|---|---|
| `delta_sync` | 2 peers, 1 key, 2 columns, clocks up to 2, 2 deltas in flight | `IInv`, strong convergence, agreement of quiescent peers, deletes final, cells never regress, one sync suffices, implements `EventualStore` |
| `host` | 2 peers; one team, two members with unique names who refer to it (CASCADE), one note that refers to a member (SET NULL); clocks up to 3 and 2 | reads are unique at every moment; syncs restore the constraint; owners are the latest claims, claimants are kept; a cascade reaches every reference its delete knew of, at any depth, at every peer; a winner that a cascade deletes is replaced in the same sync; a frontier vouches only for what its peer holds, and the merges of a sync agree before the passes run; both sides of a sync hash the same; `IInv`, which the proofs rest on; under fair syncs peers end up showing the same |
| `statements` | 2 peers, 2 rows of one table with a UNIQUE column and a NOT NULL DEFAULT column with an index, statements over 2 rows, clocks up to 2 | an index is exactly the visible rows through failing statements, duplicate keys within one INSERT, `CREATE INDEX` at any time and syncs; NOT NULL holds of merged rows; both sides of a sync hash the same; peers for which a sync has nothing to do hold and show the same; no call takes a cell or a delete back |
| `gc_collect` | 3 peers that sync, two of which write; one collector, clocks up to 2 | no zombies, collection goes unnoticed, what is collected every peer has seen deleted, every tombstone is collected in the end; `IInv`, which the proofs rest on |

Bounds and why they suffice to meet the hard cases:

- `MaxCounter` bounds the clock a *statement* may start from. Enforcement and
  `update_from_frontier` may go beyond it, as in the code. With 2 a row is
  written and deleted, or two peers write concurrently with equal counters
  (the tie that the peer id breaks); with 3 a write follows the merge of a
  concurrent one, and a row is inserted, lost to and taken back.
- Two peers have all conflicts between two concurrent writers. Writes that
  travel through a third peer, whose frontier vouches for what it did not
  write, are covered by the theorems about `DeltaSync` (any number of peers) and
  by `gc_collect`, which has three. Its third peer writes nothing, so that liveness can be
  checked in the same run; with three writers its safety properties hold as well (1.0 million states).
- Two deltas in flight are the smallest number that can be reordered; each can
  be applied again after the other.
- `Uneven` stops one peer's statements at 3 and the other's at 2, so that one
  peer can write a reference and then delete, with a clock ahead of the other's;
  the passes tick beyond that.
- One row suffices for `DeltaSync` and `Gc`: rows of a table without
  constraints share nothing but the clock. `host` has two rows that claim one
  value, and a chain of references of three tables whose children come before their
  parents in table order, so that one pass does not reach the grandchild. A
  DELETE and a sync run the loop twice, before and after uniqueness, so that here two
  single passes do what the first loop does: to tell them apart takes a chain of four
  tables, beyond what the run can afford. That the first loop is enough is proved (`SecondCascadeIsIdle`).
- `statements` has one peer insert both rows, or one key twice, in one
  statement; UPDATE copies columns (`CopyColumns`), so that a row fails on NOT NULL
  after another was written.
- Keys, columns and values are symmetric in `delta_sync`. In `host` and
  `statements` nothing is: the passes visit rows and claims in an order. The four
  runs of `EngineHost` that look for a counterexample take keys as symmetric,
  which can only hide one.

`CHECK_DEADLOCK FALSE` in every cfg: clients stop writing at the bound, and a
system whose clients have stopped and whose peers have all synced may stop.

## Where the code and its documentation disagree

Each run below checks one statement of a comment or document and TLC finds a
behaviour of the code that contradicts it.

| run | statement | what happens |
|---|---|---|
| `delta_reuse` | peers converge (`README.md:5`) | INSERT of a deleted key replaces the deleted row at the writer only; everywhere else the delete wins, and no later sync repairs it |
| `gc_reuse` | collection removes "a tombstoned row" (`storage/src/engine.rs:86-87`) | `run_gc` looks at tombstones only, and INSERT of a deleted key leaves the tombstone: the row a reader sees is removed with it |
| `unique_composite_reads` | every non-NULL unique value has a claim (`ARCHITECTURE.md:133`) | a column-wise merge produces a combination nobody claimed; two rows with it are both shown |
| `unique_self_loser` | "never record the owner as its own loser" (`crdt/src/uniqueness.rs:39-41`) | a row that takes a value back stays among the losers, and enforcement nulls it |
| `unique_nulling` | losers have "the conflicting unique columns" nulled (`ARCHITECTURE.md:125`) | a loser that has moved to another, uncontested value loses that one |
| `unique_promotion` | the best surviving loser is promoted (`sql/src/executor.rs:590-591`) | after repeated losses the first entry of each row is older than a later entry of another: nobody is promoted and the value disappears |
| `fk_concurrent` | a cascade "must not erase a concurrent/newer child write" (`sql/src/executor.rs:744-746`; `ARCHITECTURE.md:172`, which also calls scalar clocks weak for this) | a reference written concurrently by a peer whose clock is behind counts as older than the delete, and the child goes |
| `index_stale` | "identical row state → identical indexes" (`index/src/lib.rs:2-3`) | a DELETE's passes change rows without touching the indexes, which keep entries of rows that are gone |

The first two have one cause, `exec_insert` (`sql/src/executor.rs:184`), which refuses only keys of
visible rows, and it is why in all passing runs clients never reuse a deleted key
(`ReuseKeys = FALSE` in `DeltaSync` and `Gc`, a guard of `Insert` in `EngineHost`). What depends on
that, the theorems assume as `~ReuseKeys`; what does not, they prove without.
In `gc_reuse` one peer inserts a row, deletes it and inserts it again; once the other has synced and both
frontiers are known, the old tombstone is stable, and collecting it removes the row that the
first peer shows.

`unique_self_loser` also breaks snapshot hashes: `rebuilt` drops the stale entry of the
owner, so after one sync the sender has nulled the owner's value and the receiver has
not. They break in a second way, with three rows that compete for one value.
`UniquenessRegistry::merge` keeps the entry it has for a row, so of a row that lost the value at
both peers each keeps its own entry, and later syncs leave that so. When the owner is
deleted the entries decide who takes over: the peers choose different rows and null the other one,
and the next sync nulls both. The shortest such execution has seven calls: one peer inserts `k1` and `k2`
with the value, the other inserts `k1`, updates it, inserts `k3` and deletes `k3`, and they sync.
`ARCHITECTURE.md:184` lets loser details depend on the order of syncs, but leaves them out of the hash
as if nothing depended on them. A sync can change such peers again, so `RestingPeersAgree` needs no such
hypothesis. `SyncAgrees` is therefore stated of merges that leave both peers with
the same losers and one entry for each (`SameLosers`); with that it also holds of three
such rows (clocks up to 3 and 4, 920 000 states), which is more than `host` has room for.

The last is why no table of `host` has an index
and no table of `statements` a foreign key: there the cascades and the uniqueness
pass of a DELETE change no indexed column.

## Fairness

Invariants and action properties need none. `FairSpec` of `EngineHost` states
weak fairness of `Sync(a, b)` for every pair: the host itself never syncs on its
own, but its callers (`adapter/adapter.py`, the bench harness) keep calling
`sync` on every pair of peers, and a sync is always possible and never fails.
One order of the pair is enough because both have the same effect. It is
written out, `[]<>~SyncHasWork(a, b) \/ []<><<Sync(a, b)>>_vars`, because TLC is
very slow to find out whether `<<Sync(a, b)>>_vars` is enabled. `FairSpec`
of `Gc` has weak fairness of `SyncPeers` for neighbours only (peers that follow each other in
number), which is less than such a caller provides and enough, and of `LearnFrontier` and `Collect`
for a caller of the same kind; the crates expose both calls and call neither. Clients are not fair:
they may stop at any time, and the bound makes them stop.

## Proofs

### Delta sync

`RowMergeProofs` proves that `merge_row` is commutative, associative and
idempotent for all rows, under two conditions that `DeltaSync` maintains: a row is
deleted iff it has a delete version, and equal versions carry equal cells (without the
second, commutativity fails: two different values under one version would each
survive on their own side).

`DeltaSyncProofs` proves, for any sets of peers, keys, columns and values and
any bounds, from the assumptions `PeersAssumption`, `BoundsAssumption` and
`~ReuseKeys`:

- `Invariance`: `Spec => []IInv`.
- `ConvergenceHolds`: `Spec => []StrongConvergence`.
- `QuiescenceIsAgreement`: `Spec => []QuiescentPeersAgree`.

`DeltaSyncStepProofs` proves the action properties from the same invariant:

- `CellsNeverRegressHolds`, `DeletesAreFinalHolds`: every step advances the rows
  of every peer (`StepAdvances`), a statement because a tick is newer than all
  its peer holds, a delta because `Received` keeps the newer of two versions.
- `SyncQuiescesHolds`: after `SyncPeers` both frontiers cover what either
  peer had seen (`SyncCovers`), and what a peer then holds is among that.

`DeltaSyncRefinement` proves `Implements`: `Spec => ImplementsStore`. `Logged` and
`Honest` together say that the rows are the newest of what the frontier covers
(`ViewsHold`). A statement is a `Change`, because its tick is seen by its own peer
alone (`TickIsSeenHere`); all other steps only make frontiers grow, which is a
`Learn` (`GrowthIsLearn`).

All of it rests on `IInv`, which has five parts. `TypeOK` alone says nothing of convergence.
`StrongConvergence` is not inductive: that two frontiers cover the same writes
says nothing of the rows unless the rows show everything the frontier covers.
`ReplicaInv` says that, in two directions: `Logged` (a row holds only what is in
the history and covered by the frontier) and `Honest` (every covered write or
delete shows, unless a newer one does). A delta does not carry what its receiver
had seen, so `DeltaInv` states `Honest` relative to the frontier `d.base` it was
extracted against, and `ClockInv` that the receiver's frontier has only grown
since: then what the delta left out is still shown by the receiver, whatever
was applied in between. `ClockInv` also makes every tick newer than all that
its peer has seen, which with `HistoryInv` (versions name one value) keeps
histories unambiguous.

The proof goes bottom-up: clock and frontier lemmas; what `Received` and
`Tombstoned` do to one row; `ApplyGood` and `ExtractGood` for one replica and
one delta; `WrittenGood` for a local write; then one step per action
(`InsertStep`, ..., `SyncPeersStep`) and `NextIInv`. `SameRows` derives equal
rows from equal seen histories.

### Garbage collection

`GcProofs` proves, for any peers, writers, collectors, keys, columns and bounds, whether or not
clients reuse keys:

- `Invariance`: `Spec => []IInv`, and `TypeCorrect`.
- `CollectsOnlyWhatAllHaveSeenHolds`: the delete that a collected tombstone records has been seen by
  every peer, although the collector goes by frontiers it learnt some time ago.

and from `~ReuseKeys`:

- `NoZombiesHolds`, `QuiescentPeersShowTheSameHolds`.
- `CollectsOnlyDeadRowsHolds`. `gc_reuse` shows that the assumption is needed.

`TypeOK`, `ClockInv` and `HeldInv` make up the part of `IInv` that survives reuse. It is enough for
`CollectsOnlyWhatAllHaveSeen`: only a collection drops tombstones
(`WriteKeepsTombstones`, `JoinKeepsTombstones`), and what it drops is stable (`StableIsSeen`). The
rest, `DeadInv`, holds for clients that reuse no key.

`NoZombies` is not inductive. A row could come back from a peer that has not seen
its delete, after the tombstone that would refuse it has gone. That no such
peer exists is `CollectedInv`: a peer that has seen a delete and keeps nothing
of the row got there by collection, and then *every* peer has seen a delete of the row.
A collection makes it true because `global_min_frontier` is a lower bound of
frontiers learnt in the past (`GlobalMinIsSeen`), which are below those of today
(`ClockInv`, on `known`); a sync keeps it because frontiers grow. `HeldInv` says
that a peer has seen what it holds, and `CellInv` that it shows whatever its
frontier covers, of rows it has not seen deleted: together they give agreement of
quiescent peers. The steps are of three kinds: a local write, a join (a peer takes over
what another holds, or nothing) and a collection; each keeps each part.

### Statements, conflict resolution and syncs

`ExecutorProofs` is about one peer, `EngineHostProofs` about all of them. They
assume what the constants mean: `PeersAssumption`, `SchemaAssumption` (schemas
are well formed; keys and columns are finitely many), `RegistryAssumption` (so are
the values that can be claimed), `LiteralAssumption` (a literal is not a column name),
`ReferenceAssumption` (above) and `HostAssumption`. Nothing is assumed of the number of peers or
rows, the foreign keys, the constraints or the bounds.

- `ClaimSettles`, `MergeSettles`: a claim is a *record* of the claims a peer has
  seen (`Settled`): its owner made the latest of them, every other claimant is among its
  losers, and every loser has claimed. `claim` adds to the record, replaying a
  delta through `claim` records the same claims (`RebuiltSettles`), and `merge` records
  the union. Which entry of a loser stays is left open, as the code leaves it.
- `CascadesEnd`: the fixpoint of `enforce_fk_cascades` is reached on any schema,
  with cyclic foreign keys too, and there no foreign key finds anything to do. Each
  pass that changes something lowers a rank, the number of live rows plus the
  number of cells whose value is a row id (`ShrinkingLowersRank`).
- `Invariance`: `Spec => []IInv` of `EngineHost`, and from it `TypeCorrect`,
  `OwnerIsLatestClaimHolds`, `ClaimantsArePreservedHolds` and
  `NoReferenceOutlivesItsDeleteHolds`.
- `RowsOnlyAdvanceHolds`: every call replaces a cell or a delete by a newer one only. A peer's own
  writes are newer than all it has seen (`FreshIsNewer`), which `ClockInv` and `HeldInv` turn into
  all it holds; a merge keeps the newer of two.
- `FrontiersAreHonestHolds`: in a system whose passes write at every sync, under every peer's own
  clock, a version still names one value of a cell, and a peer that has seen a version
  of a cell holds that version or a newer one. It is inductive next to `IInv`: a write of a peer's own
  is newer than all that any other peer has seen of it (`GrownHonest`), and a merge takes the newer of two
  cells although the delta left out what the receiver had seen (`MergeJoins`, `ExchangedHonest`).
- `MergesAgreeHolds`: hence the two merges of a sync leave both peers with equal rows and tombstones
  (`JoinsAgree`), and with registries that record the same claims, which fixes the owners and the
  sets of losers (`StandingIsRecorded`). What can still differ after a sync, the passes have done.
- `SyncAgreesHolds`: both peers of a sync then end with the same snapshot. From equal rows the passes
  run at each peer under its own clock, so what they write differs in versions. The two executions
  stay `Alike`: each cell is the same cell at both, or NULL at both; each delete is the same at both, or
  later at both than the tick `n` on which the passes started, hence newer than every value that is
  left. So every comparison of a cascade (`NotNewer`) comes out the same at both
  (`AlikeCascades`), up to the number of passes: each changes something at one peer exactly if at the
  other. Of uniqueness, owners and losers of live rows are the same, hence the effective winners
  (`SameWinner`) and the columns they spare; a column that is not spared is cleared at both
  (`ResolutionsAgree`). `SameLosers` is the hypothesis that is explained above.
- `RestingPeersAgreeHolds`: if a sync changes nothing at either peer, both hold the same replica
  and show the same rows. A side of a sync that ends on the tick it started on has written nothing
  (`NoTickNoWrite`), so its rows are those of the merge, which `MergesAgreeHolds` makes equal;
  each frontier covers the other. Their lists of losers may differ in entries, but enforcement has
  left no loser whose entry decides anything (`SameShown`). This is the safety half of
  `PeersConverge`, for any schema and any number of peers: what stays with TLC is that syncs come to rest.
- `LosersGiveWay`: after the cascade, the uniqueness pass and the second cascade, every loser
  of a claim is dead, has no value in the claim's columns, or is the one that takes the place of
  a dead owner.
- `SecondCascadeIsIdle`: the cascade that runs after uniqueness never finds anything to do. The
  comment that justifies it (step 3 of `EngineHost::sync`) speaks of losers that
  are tombstoned, but a loser has cells set to NULL and stays alive.
- `CascadedWinnerIsReplacedHolds`: if the first cascade of a sync deletes the owner of a value, the
  losers that still hold the value do not all lose it. The property asks that they have lost
  nothing else in the columns of the constraint: enforcement clears whole columns, so a loser of
  another value loses this one too (`unique_nulling`).
- `ReadsAreUniqueHolds`, `SyncRestoresUniquenessHolds`: the two properties, for schemas whose
  UNIQUE constraints are on one column each (`OnlySingleColumns`). Of constraints on several
  columns the code does not have them (`unique_composite_reads`), so the hypothesis is the
  weakest of its kind.
- `IndexMatchesRowsHolds`: between any calls each index holds exactly the visible rows of its
  table, for schemas in which no pass changes what an index is made from (`IndexedAreSpared`: no
  UNIQUE and no SET NULL column is indexed, and no table with an index is deleted from by a
  cascade). Without the hypothesis `index_stale` is the counterexample.
- `NotNullHoldsAlways`: a visible row has a value in its NOT NULL columns at every peer, for
  schemas in which no pass clears a NOT NULL column (`RequiredAreSpared`). The code clears such a
  column without looking (`sql/src/executor.rs:716`), so there too the hypothesis marks what the
  code gives up. The schema of `statements` satisfies both hypotheses, that of `index_stale` neither.

Loops of the code are folds in the model, and no induction over data is at hand. A
fold is a function on sets of indices; that its value on every prefix
stays in a set is shown with the least prefix where it does not (`FoldExists`,
`FoldChain`, `ChainStaysIn`). Each fold then has a lemma that gives its chain of
intermediate values (`InsertChain`, `AddAllChain`, `CascadePassChain`, ...), and what it
keeps is a fact about one iteration.

Why `IInv` is needed. That a complete cascade *stays* complete at every peer is a
statement about what arrives later: a delta can bring, to a peer that has seen
the delete, a row with a reference. `HeldInv` and `DeletedInv` tie deleted
rows, tombstones and recorded deletes to frontiers: a peer has seen what it
holds, and holds as deleted whatever it has seen deleted. `RemovalInv` relates the
counter of a delete to the frontier its peer had at the end of the call: what
that peer knew of is older than the delete, except for cells its own passes have
set to NULL since. So a reference the deleting peer knew of is not newer than
the delete (`NotNewer`), and a cascade that has come to rest leaves none (`QuietNoReference`).
Owners need `FiledInv` (claims are filed by the peer that ticked, not ahead of its clock):
a frontier then covers exactly the claims that came with it, so that after a
sync a peer has seen the claims the two had seen and no other (`SyncedSeen`).

`ReadsAreUnique` and `SyncRestoresUniqueness` need two more parts. `ValueInv`: a peer has
seen the claim of every row on every value the row holds in a constraint on one column. A merge
moves such a value only as a whole cell, under a version its receiver has then seen, so no
value outruns its claim; the columns of a composite key move one by one, and there it fails.
Hence of two rows that share a value each is owner or loser of the same claim, and the
reader's filter and the passes look at both. `TickInv`: a version names one row, so that
two losers never tie and at most one takes a dead owner's place. `SyncRestoresUniqueness` is
about the state after a sync: that state satisfies the invariant again (`AfterSyncInv`) and its
losers have given way (`LosersResolved`), which leaves one row per value (`ResolvedIsUnique`).

The theorems about indexes and NOT NULL columns need, besides `IInv`, only themselves: each is
what every call keeps (`NextKeeps`) if it held at all peers before. INSERT, UPDATE and the rows a
DELETE names keep an index because `update_row`, given a row before and after, turns the rebuilt
index of the one into that of the other. UPDATE keeps NOT NULL because it visits each row once
(`InRowOrder` is injective), so the row it validated is the row it writes. What the passes leave
alone is a relation between replicas (`Spares`) that the turn of every claim and of every foreign
key satisfies and that composes along the folds: a column outside `Clearable` keeps its cells, and a
table that no cascade deletes from keeps its visible rows. That a claim's losers are rows of its own
table (`RegistryInTables`) comes from `RegistryInv`. A merge takes each cell of a visible row from a row that was
visible at one of the two peers (`MergedRow`), because deletes win; the rebuild that ends a
sync makes the indexes right whatever its passes did.

A call is seen as at most two stages at a peer: a merge (`Exchanged`), in which it
takes over what another peer holds, and writes of its own (`Grown`), which are newer than
all it had seen. The statements (`InsertRuns`, `UpdateRuns`, `DeleteRuns`) and
the passes (`EnforcedFacts`) are shown to be such writes. Each part of the invariant
is proved for each stage, over any two states (`HostInv`), and the five steps of
`Next` put them together.

### Only model-checked

Every invariant, every action property and the refinement that the passing runs check is a theorem.
TLC alone has:

- `PeersConverge` and `TombstonesAreCollected`: liveness and `ENABLED` are beyond
  the prover.
- What a fold or the loop of the cascades computes is proved as far as the invariant
  needs; that `SetToSeq` visits in the order of the `BTreeMap`s is part of the model.

## What is not covered

- Values: comparison, casting and formatting. A value is a model value, and
  one that is the text of a row id is that row's key. Predicates, ORDER BY,
  LIMIT and projections: a WHERE clause is any choice of visible rows.
- Columns of the primary key are not among the modelled columns: an UPDATE that
  sets one leaves the row under its old id.
- CREATE TABLE: every peer has the same schema from the start. A peer that
  received rows of a table before creating it would run no pass on them.
- A foreign key that does not refer to the primary key never cascades, because the
  code compares with row ids; no run has one.
- A row that is NOT NULL and UNIQUE in the same column is nulled when it loses;
  `NotNullHolds` is checked of a table where the two are different columns.
- Parsing, serialization, transactions (a buffer nothing uses), the WASM runtime
  (one peer with the same executor, and `sync_peers`), the benchmark harness.
- `sync_to_quiescence`'s loop: `SyncQuiesces` shows that its second round sends nothing.
- The sort of the losers by row id in `UniquenessRegistry::merge`. It is stable,
  so it never changes which of a row's entries comes first, and
  `is_effective_unique_winner` quantifies over the entries of other rows. Enforcement
  does depend on the order: it ticks once per loser as the list gives them
  (`sql/src/executor.rs:670-706`), so after a merge the counters of two NULLs written by one pass may be
  swapped with respect to the code. No property speaks of which NULL has which counter.
- Collection with deltas in flight: `gc` and the transport are never combined in
  the repository.
- A collected row can come back *dead*: a peer that has not collected may send
  the row again because a third peer has updated it, and it is then stored
  without a tombstone and never collected. Nothing promises otherwise;
  `NoZombies` shows that it stays invisible.

## Plan

Done: all modules above, with proofs of `RowMerge`, `DeltaSync` and its refinement
of `EventualStore`, `Gc`, and of all safety properties of `EngineHost`. Next: `EngineHost`
under a larger instance, a chain of four tables and composite keys with foreign keys.
