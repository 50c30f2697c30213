---------------------------- MODULE AtomicGraph ----------------------------
(***************************************************************************)
(* What the store promises about the durable graph, with no transactions,  *)
(* maps or phases: a write is a batch, and the graph changes by the whole  *)
(* batch at once or not at all, whatever fails or dies in between.  Column *)
(* updates outside a batch neither add nor remove a node or link nor move  *)
(* a link.  The graph is lost only after a crash has torn the log.         *)
(***************************************************************************)
EXTENDS GraphTables, SequencesExt

VARIABLES
  graph,        \* the committed tables
  batch,        \* the operations of the write in progress
  stage,        \* "down", "idle", "applying", "sync": decided, not yet acknowledged
  log           \* the write-ahead log: "clean", "dirty", "corrupt"

avars == <<graph, batch, stage, log>>

Effect(d, m) == IF m.op = "CreateTurn" THEN ApplyTurn(d, m) ELSE Apply(d, m)

\* The graph d after the operations ops, one after the other.
Run(d, ops) ==
  LET after[i \in 0..Len(ops)] == IF i = 0 THEN d ELSE Effect(after[i - 1], ops[i])
  IN after[Len(ops)]

\* The graph after the whole batch.
Result == Run(graph, batch)

AInit == graph = EmptyTables /\ batch = << >> /\ stage = "down" /\ log = "clean"

\* Starting finds the graph as it was, unless the log is torn.
Start ==
  /\ stage = "down" /\ stage' = "idle"
  /\ IF log = "corrupt" THEN graph' = EmptyTables ELSE graph' = graph
  /\ log' \in {"clean", log}
  /\ UNCHANGED batch

Stop ==
  /\ stage # "down" /\ stage' = "down"
  /\ batch' = << >>
  /\ log' \in IF log = "dirty" THEN {"clean", "dirty", "corrupt"} ELSE {log}
  /\ UNCHANGED graph

Request ==
  /\ stage = "idle" /\ stage' = "applying"
  /\ \/ UNCHANGED batch
     \/ /\ Len(batch') = 1
        /\ Head(batch') \in TurnOp /\ TurnApplicable(graph, Head(batch').id)
  /\ UNCHANGED <<graph, log>>

Extend ==
  /\ stage = "applying"
  /\ batch' # << >> /\ Front(batch') = batch
  /\ Last(batch') \in Mutations /\ Applicable(Result, Last(batch'))
  /\ UNCHANGED <<graph, stage, log>>

Refuse ==
  /\ stage = "applying" /\ stage' = "idle"
  /\ batch' = << >>
  /\ UNCHANGED <<graph, log>>

Decide ==
  /\ stage = "applying" /\ stage' = "sync"
  /\ graph' = Result
  /\ log' = "dirty"
  /\ UNCHANGED batch

Acknowledge ==
  /\ stage = "sync" /\ stage' = "idle"
  /\ batch' = << >>
  /\ UNCHANGED <<graph, log>>

SameStructure(d, e) ==
  /\ \A n \in NodeIds :
       /\ HasNode(d, n) <=> HasNode(e, n)
       /\ HasNode(d, n) => d.node[n].type = e.node[n].type
  /\ \A l \in LinkIds :
       /\ HasLink(d, l) <=> HasLink(e, l)
       /\ HasLink(d, l) => [d.link[l] EXCEPT !.type = e.link[l].type] = e.link[l]
  /\ d.prop = e.prop

Rewrite ==
  /\ stage = "idle"
  /\ graph' \in Tables
  /\ SameStructure(graph, graph')
  /\ log' = "dirty"
  /\ UNCHANGED <<batch, stage>>

ANext ==
  \/ Start \/ Stop \/ Request \/ Extend \/ Refuse \/ Decide \/ Acknowledge
  \/ Rewrite

ASpec == AInit /\ [][ANext]_avars
=============================================================================
