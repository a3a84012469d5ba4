--------------------------- MODULE MCEngineHost -----------------------------
(***************************************************************************)
(* Schemas on which EngineHost is model-checked.                           *)
(***************************************************************************)
EXTENDS EngineHost

\* Rows, columns and values.
CONSTANTS k1, k2, k3, k4, c1, c2, v1, v2

Table(columns) ==
  [columns |-> columns, notNull |-> {}, defaults |-> <<>>, foreignKeys |-> <<>>,
   unique |-> {}, indexes |-> {}]

ForeignKey(table, column, ref_table, on_delete) ==
  [table |-> table, column |-> column, ref_table |-> ref_table, on_delete |-> on_delete]

\* The clocks that statements stop at.
UpTo2 == [p \in Peers |-> 2]
UpTo3 == [p \in Peers |-> 3]
UpTo6 == [p \in Peers |-> 6]
Uneven == [p \in Peers |-> IF p = 1 THEN 3 ELSE 2]

OneTable == <<"t">>
AllInOne == [k \in Keys |-> "t"]

\* One unique column; two columns with a constraint over both.
UniqueColumn ==
  [t \in {"t"} |-> [Table(c1 :> Values) EXCEPT !.unique = {{c1}}]]
UniquePair ==
  [t \in {"t"} |-> [Table(c1 :> Values @@ c2 :> Values) EXCEPT !.unique = {{c1, c2}}]]

\* A unique c1, and c2 NOT NULL DEFAULT v1 with an index.
IndexedSchema ==
  "t" :> [Table(c1 :> {v1, Null} @@ c2 :> {v1, Null}) EXCEPT
            !.notNull = {c2}, !.defaults = c2 :> v1,
            !.unique = {{c1}}, !.indexes = {{c2}}]

\* teams(k1); members(k2, k3) with a unique c1, and with c2 REFERENCES teams
\* ON DELETE CASCADE; notes(k4) with c2 REFERENCES members ON DELETE SET NULL.
\* The children come before their parents in the order of the names.
Club == <<"members", "notes", "teams">>
ClubTables == [k \in Keys |-> IF k = k1 THEN "teams" ELSE IF k = k4 THEN "notes" ELSE "members"]
ClubSchemas ==
  "teams" :> Table(c1 :> {v1}) @@
  "members" :> [Table(c1 :> {v1} @@ c2 :> {k1}) EXCEPT
                  !.notNull = {c1},
                  !.unique = {{c1}},
                  !.foreignKeys = <<ForeignKey("members", c2, "teams", "Cascade")>>] @@
  "notes" :> [Table(c2 :> {k2}) EXCEPT
                !.foreignKeys = <<ForeignKey("notes", c2, "members", "Orphan")>>]

IndexedClub == [ClubSchemas EXCEPT !["members"].indexes = {{c2}}]

Symmetry == Permutations(Keys)
=============================================================================
