----------------------------- MODULE MCHandlers -----------------------------
(***************************************************************************)
(* Handlers for TLC.  Label "x" is a substring of "xy", so a request for   *)
(* "x" may be led to an entity labelled "xy".                              *)
(***************************************************************************)
EXTENDS Handlers, TLC

Symmetry == Permutations(Requests)

Blank ==
  [endpoint |-> "entities", turn |-> Absent, entities |-> << >>, unembedded |-> Labels,
   claim |-> Absent, extra |-> {}, ends |-> << >>, type |-> "relates", raw |-> FALSE]

Substrings == {<<"x", "x">>, <<"xy", "xy">>, <<"x", "xy">>}

Stored(nodes, links) ==
  [node |-> [n \in NodeIds |-> IF n \in DOMAIN nodes THEN [type |-> nodes[n], label |-> "xy", tags |-> {}]
                                                     ELSE Absent],
   link |-> [l \in LinkIds |-> IF l \in DOMAIN links THEN links[l] ELSE Absent],
   prop |-> {}]

\* Nothing, or a claim about an entity.
StartingPoints ==
  {EmptyTables,
   Stored(1 :> "claim" @@ 2 :> "entity",
          11 :> [from |-> 1, to |-> 2, type |-> "relates", weight |-> TurnWeight])}

\* One request of each endpoint, remember with a response and without.
OneOfEach ==
  {[Blank EXCEPT !.endpoint = "remember", !.entities = <<"x", "xy">>, !.unembedded = {"x"}],
   [Blank EXCEPT !.endpoint = "remember", !.turn = 9, !.entities = <<"x">>, !.claim = {"x"}, !.extra = {"xy"}],
   [Blank EXCEPT !.endpoint = "ingest", !.entities = <<"x">>, !.claim = {"x"}],
   [Blank EXCEPT !.endpoint = "entities", !.entities = <<"x", "xy">>, !.unembedded = {}],
   [Blank EXCEPT !.endpoint = "entities", !.entities = <<"x", "xy">>, !.unembedded = {"x"}],
   [Blank EXCEPT !.endpoint = "claims", !.claim = {"x"}],
   [Blank EXCEPT !.endpoint = "batch", !.turn = 9, !.claim = {}, !.entities = <<"x">>, !.raw = TRUE],
   [Blank EXCEPT !.endpoint = "link", !.ends = <<"x", "xy">>],
   [Blank EXCEPT !.endpoint = "connect", !.ends = <<"x", "xy">>, !.type = "references"],
   [Blank EXCEPT !.endpoint = "update", !.ends = <<"x">>]}
=============================================================================
