---------------------------- MODULE Collections -----------------------------
(***************************************************************************)
(* Two operations on sequences and functions that the executor's modules   *)
(* share.                                                                  *)
(***************************************************************************)
EXTENDS SequencesExt

\* The elements of s that are in S, in their order.
AppendIfIn(S, t, x) == IF x \in S THEN Append(t, x) ELSE t

Kept(s, S) == FoldLeft(LAMBDA t, x : AppendIfIn(S, t, x), <<>>, s)

\* f, with the entries of g where f has none.
Over(f, g) ==
  [x \in DOMAIN f \cup DOMAIN g |-> IF x \in DOMAIN f THEN f[x] ELSE g[x]]
=============================================================================
