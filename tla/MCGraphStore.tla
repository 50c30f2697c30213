---------------------------- MODULE MCGraphStore ----------------------------
(***************************************************************************)
(* GraphStore for TLC.  Two nodes are enough for a link between different  *)
(* nodes, a self-link, a link with a missing end, and a turn beside an     *)
(* entity.                                                                 *)
(***************************************************************************)
EXTENDS GraphStore, TLC

Symmetry == Permutations(NodeIds) \cup Permutations(LinkIds)
=============================================================================
