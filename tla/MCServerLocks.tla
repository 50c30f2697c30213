--------------------------- MODULE MCServerLocks ---------------------------
(***************************************************************************)
(* ServerLocks for TLC.  The slots are interchangeable; symmetry is used   *)
(* only where no liveness property is checked.                             *)
(***************************************************************************)
EXTENDS ServerLocks, TLC

Symmetry == Permutations(Requests)
=============================================================================
