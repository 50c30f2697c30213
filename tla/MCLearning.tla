----------------------------- MODULE MCLearning -----------------------------
(***************************************************************************)
(* Learning for TLC: two nodes and a link from one to the other.  Learning *)
(* handles each link by itself: the counters of one are not read for       *)
(* another.                                                                *)
(***************************************************************************)
EXTENDS Learning, TLC

CONSTANTS a, b, ab, RootA, RootB

Symmetry == Permutations(Requests)

Sources == ab :> a
Targets == ab :> b
Roots == (a :> RootA) @@ (b :> RootB)

\* What links are given.
Half == {[num |-> 1, den |-> 2]}
=============================================================================
