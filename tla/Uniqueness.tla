---------------------------- MODULE Uniqueness ------------------------------
(***************************************************************************)
(* The uniqueness registry (crates/crdt/src/uniqueness.rs), one entry of   *)
(* it: the claim on one value of one constraint.  A claim has an owner row *)
(* and a list of losers; NoClaim stands for an entry that is not in the    *)
(* BTreeMap.                                                               *)
(*                                                                         *)
(* losers is a sequence because a row can be in it more than once, and     *)
(* is_effective_unique_winner reads the first entry of a row but compares  *)
(* it with every entry of the others.                                      *)
(***************************************************************************)
EXTENDS Versions, Collections

NoClaim == [owner |-> "none", version |-> NoVersion, losers |-> <<>>]

Loser(row, version) == [row |-> row, version |-> version]

\* The claims of the rows in S.
ClaimOf(S) == [owner : S, version : Version,
               losers : Seq([row : S, version : Version])] \cup {NoClaim}

LoserRows(c) == {c.losers[i].row : i \in DOMAIN c.losers}

\* losers.retain(|l| l.row_id != row)
Without(losers, row) == Kept(losers, {l \in ToSet(losers) : l.row # row})

\* An entry is dropped when its row has one already.
AddIfNew(losers, l) ==
  IF \E i \in DOMAIN losers : losers[i].row = l.row THEN losers
  ELSE Append(losers, l)

AddAll(losers, new) == FoldLeft(AddIfNew, losers, new)

-----------------------------------------------------------------------------
\* UniquenessRegistry::claim: a row claims the value at a version.  A row
\* that takes the value from another is not looked up among its losers.
claim(c, row, version) ==
  CASE c = NoClaim ->
         [owner |-> row, version |-> version, losers |-> <<>>]
    [] c # NoClaim /\ c.owner = row ->
         [owner   |-> row,
          version |-> IF VLess(c.version, version) THEN version ELSE c.version,
          losers  |-> Without(c.losers, row)]
    [] c # NoClaim /\ c.owner # row /\ VLess(c.version, version) ->
         [owner   |-> row,
          version |-> version,
          losers  |-> Append(c.losers, Loser(c.owner, c.version))]
    [] OTHER ->
         [c EXCEPT !.losers = Append(@, Loser(row, version))]

\* Mutant of merge: the claim that is there is kept.
MergeKeepsIncumbent(mine, theirs) == IF mine = NoClaim THEN theirs ELSE mine

\* Mutant of merge: the losers of the older claim are dropped with it.
MergeTakesLatest(mine, theirs) ==
  IF VLess(mine.version, theirs.version) THEN theirs ELSE mine

\* UniquenessRegistry::merge, for one key.  The losers' sort by row id is left
\* out: it decides only in which order enforcement ticks for them.
merge(mine, theirs) ==
  LET owner(c) == Loser(c.owner, c.version)
  IN  CASE theirs = NoClaim -> mine
        [] theirs # NoClaim /\ mine = NoClaim -> theirs
        [] theirs # NoClaim /\ mine # NoClaim
             /\ VLess(mine.version, theirs.version) ->
             [theirs EXCEPT !.losers =
                Without(AddAll(<<>>, mine.losers \o theirs.losers \o <<owner(mine)>>),
                        theirs.owner)]
        [] OTHER ->
             [mine EXCEPT !.losers =
                AddAll(@, Without(<<owner(theirs)>> \o theirs.losers, mine.owner))]

\* The claim c after the rows of a loser list have claimed the value again.
Reclaimed(c, losers) == FoldLeft(LAMBDA b, l : claim(b, l.row, l.version), c, losers)

\* apply_delta rebuilds the registry of a delta by claiming for the owner and
\* then for every loser.
rebuilt(c) ==
  IF c = NoClaim THEN NoClaim
  ELSE Reclaimed(claim(NoClaim, c.owner, c.version), c.losers)

-----------------------------------------------------------------------------
\* Mutant of is_effective_unique_winner: the owner may be alive.
IsLatestLoser(c, alive, row) ==
  \/ c = NoClaim
  \/ c.owner = row
  \/ \E i \in DOMAIN c.losers :
       /\ c.losers[i].row = row
       /\ \A j \in DOMAIN c.losers :
            c.losers[j].row \in alive => ~VLess(c.losers[i].version, c.losers[j].version)

\* is_effective_unique_winner: the owner, or when the owner is not alive a
\* loser that no other live loser's entry is newer than.
is_effective_unique_winner(c, alive, row) ==
  \/ c = NoClaim
  \/ c.owner = row
  \/ /\ c.owner \notin alive
     /\ \E i \in DOMAIN c.losers :
          /\ c.losers[i].row = row
          /\ \A j \in 1..(i - 1) : c.losers[j].row # row
          /\ \A j \in DOMAIN c.losers :
               c.losers[j].row \in alive \ {row} =>
                 ~VLess(c.losers[i].version, c.losers[j].version)
=============================================================================
