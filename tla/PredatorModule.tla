---------------------------- MODULE PredatorModule ----------------------------
(* What the engine is given to run: the pipeline and a workflow of
   src/modules/cipher-tube.predator/predator.yml, with the steps that differ only in
   their names left out, and the shapes the code has a branch for and that file does not use. *)
EXTENDS Integers, Sequences

CONSTANTS NoName, Blocked

Plain(use, own, from, into) ==
  [use |-> use, own |-> own, from |-> from, many |-> Len(from) > 1, into |-> into,
   foreach |-> NoName, parallel |-> FALSE, branches |-> <<>>]

Each(use, list) == [Plain(use, TRUE, <<>>, NoName) EXCEPT !.foreach = list]

Branches(from, uses) ==
  [Plain("none", FALSE, from, NoName) EXCEPT !.parallel = TRUE, !.branches = uses]

(* predatorcontrolgraph_engine. *)
ControlGraph == <<
  Plain("compliance.loadframework", TRUE, <<>>, "fedramp_controls"),
  Plain("graph.collect", TRUE, <<>>, "attackgraphinputs"),
  Plain("graph.build", TRUE, <<"attackgraphinputs">>, "attack_graph"),
  Plain("compliance.validatecontrolset", TRUE, <<"fedramp_controls", "attack_graph">>, "control_results"),
  Plain("compliance.findfailedcontrols", FALSE, <<"control_results">>, "drift"),
  Branches(<<>>, <<[use |-> "remediation.breakattackpath", own |-> TRUE],
                   [use |-> "config.enforce_baseline", own |-> FALSE]>>),
  Plain("audit.record", FALSE, <<"control_results", "drift">>, NoName)>>

(* predatorcontrolgraphenginelarge and two steps of federalpredatorautopilot. *)
LargeGraph == <<
  Plain("asset.shard", TRUE, <<>>, "shards"),
  Each("workflow.invoke_async", "shards"),
  Plain("workflow.invoke", TRUE, <<>>, NoName),
  Plain("compliance.generate_summary", TRUE, <<>>, NoName)>>

(* A name written twice, a name that is refused, an action nobody registered, a stage
   without branches, branches with the input of their stage. *)
Shapes == <<
  Plain("graph.collect", FALSE, <<>>, "g"),
  Plain("graph.prune", FALSE, <<"g">>, "pruned"),
  Branches(<<"g", "pruned">>, <<[use |-> "graph.build", own |-> FALSE],
                                [use |-> "graph.prune", own |-> FALSE],
                                [use |-> "risk.score", own |-> FALSE]>>),
  Plain("risk.score", FALSE, <<"pruned", "g">>, "g"),
  Branches(<<>>, <<>>),
  Plain("risk.score", FALSE, <<"g">>, Blocked),
  Each("workflow.invoke", "pruned"),
  Plain("audit.record", FALSE, <<"g">>, NoName)>>

Definitions ==
  [n \in {"predatorcontrolgraph_engine", "predatorcontrolgraphenginelarge", "shapes"} |->
     CASE n = "predatorcontrolgraph_engine" -> ControlGraph
       [] n = "predatorcontrolgraphenginelarge" -> LargeGraph
       [] OTHER -> Shapes]

Registered == {
  "compliance.loadframework", "compliance.validatecontrolset",
  "compliance.findfailedcontrols", "compliance.generate_summary", "graph.collect",
  "graph.build", "remediation.breakattackpath", "config.enforce_baseline",
  "audit.record", "asset.shard", "workflow.invoke_async", "risk.score"}
=============================================================================
