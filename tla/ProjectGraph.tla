---------------------------- MODULE ProjectGraph ----------------------------
(***************************************************************************)
(* The graph a processor runs, and the two policies that read it without   *)
(* changing anything: readiness (NodeExecutionPlanner.ts) and exclusion    *)
(* (NodeExclusionPolicy.ts).                                               *)
(*                                                                         *)
(* A connection is a pair <<output node, input node>>: a pair of nodes is  *)
(* joined by at most one connection here, so a port is named by its        *)
(* connection.  This module covers acyclic graphs without loop controllers *)
(* and races, the shape both schedulers of the processor support.          *)
(***************************************************************************)
EXTENDS Naturals, FiniteSets

CONSTANTS
  Node,             \* the nodes of the graph
  Connection,       \* pairs <<output node, input node>>
  IfPort,           \* the connections that end in an `if` port ($if)
  Conditional,      \* nodes with isConditional
  Disabled,         \* nodes with disabled
  MissingRequired,  \* nodes with a required input port that is not connected
  MergeNode,        \* if, ifElse, coalesce, graphOutput: may consume exclusion
  RunTo             \* runToNodeIds; {} stands for undefined

InputNodesTo(n)    == {m \in Node : <<m, n>> \in Connection}
OutputNodesFrom(n) == {m \in Node : <<n, m>> \in Connection}

ASSUME GraphAssumption ==
  /\ IsFiniteSet(Node)
  /\ Connection \subseteq Node \X Node
  /\ IfPort \subseteq Connection
  /\ Conditional \subseteq Node
  /\ Disabled \subseteq Node
  /\ MissingRequired \subseteq Node
  /\ MergeNode \subseteq Node
  /\ RunTo \subseteq Node

(* Every non-empty set of nodes has a member none of whose inputs is in it. *)
ASSUME AcyclicAssumption ==
  \A S \in SUBSET Node :
    S # {} => \E n \in S : InputNodesTo(n) \cap S = {}

(* Where a run begins pulling: the requested nodes, or every node nobody reads. *)
StartNodes ==
  IF RunTo # {} THEN RunTo ELSE {n \in Node : OutputNodesFrom(n) = {}}

(* A set of nodes that contains the inputs of its members. *)
ClosedUpstream(S) == \A c \in Connection : c[2] \in S => c[1] \in S

(* getDependencyNodesDeep: n and everything upstream of it. *)
DependencyNodesDeep ==
  [n \in Node |->
     {m \in Node : \A S \in SUBSET Node : n \in S /\ ClosedUpstream(S) => m \in S}]

(* A node behind another requested node is not run. *)
BehindRunTo(n) == \E r \in RunTo \ {n} : r \in DependencyNodesDeep[n]

-----------------------------------------------------------------------------
(***************************************************************************)
(* What a connection carries.  The policies tell apart an excluded value   *)
(* and, on an `if` port, a value that coerces to false; an output the node *)
(* left undefined is falsy.                                                *)
(***************************************************************************)
PortValue == {"truthy", "falsy", "excluded"}

(* What a node may put on its outputs: "truthy" is any ordinary value where
   nobody asks whether it is true. *)
OutputsOf(n) ==
  {out \in [{c \in Connection : c[1] = n} -> PortValue] :
     \A c \in DOMAIN out : out[c] = "falsy" => c \in IfPort}

(* The values of the connections with those that leave n replaced by out. *)
WithOutputs(values, n, out) ==
  [c \in Connection |-> IF c[1] = n THEN out[c] ELSE values[c]]

ExcludedOutputs == [c \in Connection |-> "excluded"]

HasErroredInputNode(errored, n) == InputNodesTo(n) \cap errored # {}

WaitingForInputNode(visited, n) == ~ (InputNodesTo(n) \subseteq visited)

(* coerceTypeOptional makes an absent and an excluded value false. *)
IfPortIsFalse(values, n) ==
  /\ n \in Conditional
  /\ \A m \in Node : <<m, n>> \in IfPort => values[<<m, n>>] # "truthy"

HasExcludedInput(values, n) ==
  \E m \in InputNodesTo(n) : values[<<m, n>>] = "excluded"

(* The reasons to exclude a node whose inputs are all there. *)
ExcludedByInputs(values, n) ==
  \/ IfPortIsFalse(values, n)
  \/ HasExcludedInput(values, n) /\ n \notin MergeNode
  \/ n \in MissingRequired
=============================================================================
