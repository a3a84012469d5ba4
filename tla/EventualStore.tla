--------------------------- MODULE EventualStore ----------------------------
(***************************************************************************)
(* What replication promises, without replicas, deltas or clocks: every    *)
(* peer has seen a growing part of one common history, and what it shows   *)
(* is determined by that part alone.  A cell shows the newest seen write   *)
(* of its key and column; a key is deleted as soon as any seen delete      *)
(* names it, and the newest of them is remembered.                         *)
(***************************************************************************)
EXTENDS Versions

CONSTANTS Keys, Cols,
          NoCell        \* what a cell nobody wrote shows

VARIABLES writes,       \* every write: [key, col, cell]
          deletes,      \* every delete: [key, version]
          seenWrites,   \* peer -> the writes it has seen
          seenDeletes,  \* peer -> the deletes it has seen
          shown         \* peer -> key -> [cells, deleted, delVersion]

esvars == <<writes, deletes, seenWrites, seenDeletes, shown>>

\* v is the newest of the versions in vs, NoVersion when there is none.
IsNewest(v, vs) ==
  IF vs = {} THEN v = NoVersion ELSE v \in vs /\ \A w \in vs : VLeq(w, v)

\* What a peer shows is the newest of what it has seen.
IsView(view, sw, sd) ==
  \A k \in Keys :
    /\ \A c \in Cols :
         LET here == {w \in sw : w.key = k /\ w.col = c}
         IN  /\ IsNewest(view[k].cells[c].version,
                         {w.cell.version : w \in here})
             /\ view[k].cells[c] \in {NoCell} \cup {w.cell : w \in here}
    /\ LET here == {x \in sd : x.key = k}
       IN  /\ IsNewest(view[k].delVersion, {x.version : x \in here})
           /\ view[k].deleted <=> here # {}

Init == /\ writes = {}
        /\ deletes = {}
        /\ seenWrites = [p \in Peers |-> {}]
        /\ seenDeletes = [p \in Peers |-> {}]
        /\ \A p \in Peers : IsView(shown[p], {}, {})

\* New writes and deletes carry a version of their peer p, newer than
\* everything p has seen, and p sees them at once.
NewAt(p, v) ==
  /\ v.peer = p
  /\ \A w \in seenWrites[p] : VLess(w.cell.version, v)
  /\ \A x \in seenDeletes[p] : VLess(x.version, v)

\* p changes one row: it writes cells or deletes it, never both, and writes
\* only a row it does not show as deleted.
Change(p) ==
  /\ \E k \in Keys :
       /\ ~shown[p][k].deleted
       /\ \/ /\ deletes' = deletes
             /\ \A w \in writes' \ writes : w.key = k /\ NewAt(p, w.cell.version)
          \/ /\ writes' = writes
             /\ \A x \in deletes' \ deletes : x.key = k /\ NewAt(p, x.version)
  /\ writes \subseteq writes'
  /\ deletes \subseteq deletes'
  /\ seenWrites' = [seenWrites EXCEPT ![p] = @ \cup (writes' \ writes)]
  /\ seenDeletes' = [seenDeletes EXCEPT ![p] = @ \cup (deletes' \ deletes)]

\* Peers learn more of the history that exists; nothing is unseen again.
Learn ==
  /\ UNCHANGED <<writes, deletes>>
  /\ \A p \in Peers :
       /\ seenWrites[p] \subseteq seenWrites'[p]
       /\ seenWrites'[p] \subseteq writes
       /\ seenDeletes[p] \subseteq seenDeletes'[p]
       /\ seenDeletes'[p] \subseteq deletes

Next ==
  /\ (\E p \in Peers : Change(p)) \/ Learn
  /\ \A p \in Peers : IsView(shown'[p], seenWrites'[p], seenDeletes'[p])

Spec == Init /\ [][Next]_esvars
=============================================================================
