----------------------------- MODULE SearchIndex -----------------------------
(***************************************************************************)
(* The search index of ilo/src/search.rs: a third copy of the entities     *)
(* beside the database and node_cache.  It is a value, built anew by every *)
(* merge from the records it holds and those that are merged, one list     *)
(* after the other: what is in both is indexed twice, and what is only in  *)
(* the first stays.                                                        *)
(*                                                                         *)
(* Data abstraction.  An entity is listed under its label as a whole, for  *)
(* all terms of the label.  A vector is named by the label it was computed *)
(* from.  Scores are left out, and the limit of 10 results that comes with *)
(* them; total_docs and df count listings.                                 *)
(***************************************************************************)
EXTENDS GraphTables

\* What the index keeps of a NodeRecord.
Doc == [label : Labels, vector : Labels \cup {Absent}]
Docs == [NodeIds -> Doc \cup {Absent}]

ASSUME DocAssumption == Absent \notin Doc

\* The postings of an entity hold it at most twice.
Index ==
  [nodes : Docs, listed : [NodeIds \X Labels -> 0..2],
   vectors : [NodeIds -> Labels \cup {Absent}]]

NoDocs == [n \in NodeIds |-> Absent]

Listings(docs, n, label) == IF docs[n] # Absent /\ docs[n].label = label THEN 1 ELSE 0
Vector(docs, n) == IF docs[n] = Absent THEN Absent ELSE docs[n].vector

\* SearchIndex::build of the records of `first`, then those of `then`.  A map keeps
\* the last record; a record without a vector leaves the vector there is.
build(first, then) ==
  [nodes |-> [n \in NodeIds |-> IF then[n] # Absent THEN then[n] ELSE first[n]],
   listed |-> [e \in NodeIds \X Labels |-> Listings(first, e[1], e[2]) + Listings(then, e[1], e[2])],
   vectors |-> [n \in NodeIds |->
                  IF Vector(then, n) # Absent THEN Vector(then, n) ELSE Vector(first, n)]]

\* Mutants: nothing is merged; listings are added to those there are.
mergeNothing(index, docs) == index
mergeAppending(index, docs) ==
  [build(index.nodes, docs) EXCEPT
     !.listed = [e \in DOMAIN @ |-> index.listed[e] + Listings(docs, e[1], e[2])]]

merge(index, docs) == build(index.nodes, docs)

\* search_fts for the words of a label.
search_fts(index, label) == {n \in NodeIds : index.listed[<<n, label>>] > 0}
=============================================================================
