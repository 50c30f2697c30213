----------------------------- MODULE MCRetrieval -----------------------------
(***************************************************************************)
(* Retrieval for TLC: all graphs on the nodes, all seeds.                  *)
(***************************************************************************)
EXTENDS Retrieval, TLC

Symmetry == Permutations(NodeIds)
=============================================================================
