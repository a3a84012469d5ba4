---------------------------- MODULE MCDeltaSync -----------------------------
(***************************************************************************)
(* Model checking DeltaSync: peers are integers, keys, columns and values  *)
(* are model values.  Keys, columns and values are interchangeable, and    *)
(* every property is an invariant or speaks of single steps, so the runs   *)
(* use symmetry.                                                           *)
(***************************************************************************)
EXTENDS DeltaSync, TLC

Symmetry == Permutations(Keys) \cup Permutations(Cols) \cup Permutations(Values)
=============================================================================
