------------------------------- MODULE MCGc ---------------------------------
(***************************************************************************)
(* Model checking Gc on one row of one column.                             *)
(***************************************************************************)
EXTENDS Gc
=============================================================================
