-------------------------- MODULE GraphPreprocessing --------------------------
(***************************************************************************)
(* What a processor finds out about a graph before it runs it: the         *)
(* connections that lead from a port that exists to a port that exists,    *)
(* the strongly connected components of the nodes, and the execution plan  *)
(* made of both.  The code is sequential; an action is a turn of one of    *)
(* its loops, or a call or a return of strongConnect.                      *)
(*                                                                         *)
(* A node is its position in graph.nodes.  A connection is a record        *)
(* [from, out, to, in]; ports are numbered.  The connections of a node are *)
(* a list in the code: they are a set here, in which a connection of a     *)
(* node to itself is listed once, as all its copies are removed together.  *)
(***************************************************************************)
EXTENDS Integers, FiniteSets, Sequences, SequencesExt, FiniteSetsExt

CONSTANTS
  NodeCount,    \* how many nodes a graph has
  Passthrough,  \* the nodes whose ports follow from what is connected to them
  Required,     \* the nodes whose first input is required
  Graphs        \* the sets of connections a graph may have

Node == 1 .. NodeCount

ASSUME GraphPreprocessingAssumption ==
  /\ NodeCount \in Nat
  /\ Passthrough \subseteq Node /\ Required \subseteq Node
  /\ \A g \in Graphs :
       /\ IsFiniteSet(g)
       /\ \A c \in g : {c.from, c.to, c.out, c.in} \subseteq Nat \ {0}

VARIABLES
  graph,        \* graph.connections
  connections,  \* the connections listed under each node
  definitions,  \* how many inputs and outputs each node has, once it was asked
  indices,      \* the order in which the nodes were visited
  lowLinks,     \* the least index each node reaches
  stack,        \* the visited nodes without a component
  onStack,      \* the same as a set
  calls,        \* the calls of strongConnect under way: a node, and what it has not looked at
  components    \* stronglyConnectedComponents

search == <<indices, lowLinks, stack, onStack, calls, components>>
vars == <<graph, connections, definitions, search>>

(* The dangling connections are listed nowhere. *)
Listed(n, g) ==
  {c \in g : n \in {c.from, c.to} /\ {c.from, c.to} \subseteq Node}

Init ==
  /\ graph \in Graphs
  /\ connections = [n \in Node |-> Listed(n, graph)]
  /\ definitions = <<>>
  /\ indices = <<>> /\ lowLinks = <<>>
  /\ stack = <<>> /\ onStack = {}
  /\ calls = <<>> /\ components = <<>>

-----------------------------------------------------------------------------
(* The definitions of the ports, node by node. *)

HighestInput(n) == Max({c.in : c \in {d \in connections[n] : d.to = n}} \cup {0})

(* A passthrough has inputs up to one beyond the highest that is connected,
   and an output for each of those below; the rest have one of both.  The
   code asks a node while connections of later nodes may still turn out
   invalid. *)
DefinitionOf(n) ==
  IF n \in Passthrough
    THEN [inputs |-> HighestInput(n) + 1, outputs |-> HighestInput(n)]
    ELSE [inputs |-> 1, outputs |-> 1]

(* A connection of a node with itself is looked at as an input only. *)
InvalidAt(n, definition) ==
  {c \in connections[n] : IF c.to = n THEN c.in > definition.inputs
                                      ELSE c.out > definition.outputs}

WithoutInvalid_OwnList(n, invalid) ==   \* mutant: the other end keeps them
  [connections EXCEPT ![n] = @ \ invalid]
WithoutInvalid(n, invalid) == [m \in Node |-> connections[m] \ invalid]

DefineNode ==
  LET n == Len(definitions) + 1
      definition == DefinitionOf(n)
  IN  /\ n \in Node
      /\ definitions' = Append(definitions, definition)
      /\ connections' = WithoutInvalid(n, InvalidAt(n, definition))
      /\ UNCHANGED <<graph, search>>

-----------------------------------------------------------------------------
(* findStronglyConnectedComponents, with strongConnect on a stack of calls. *)

Defined == Len(definitions) = NodeCount
AdjacentNodes(n) == {c.to : c \in {d \in connections[n] : d.from = n}}

Current == Last(calls)
Lowered(n, by) == [lowLinks EXCEPT ![n] = Min({@, by})]
With(f, n, value) == [m \in DOMAIN f \cup {n} |-> IF m = n THEN value ELSE f[m]]

(* strongConnect(n) up to its loop; below is the stack of calls it is made from. *)
StrongConnect(n, below) ==
  LET index == Cardinality(DOMAIN indices) IN
  /\ indices' = With(indices, n, index)
  /\ lowLinks' = With(lowLinks, n, index)
  /\ stack' = Append(stack, n)
  /\ onStack' = onStack \cup {n}
  /\ calls' = Append(below, [node |-> n, left |-> AdjacentNodes(n)])
  /\ UNCHANGED <<graph, connections, definitions, components>>

LookedAt(adjacent) ==
  Append(Front(calls), [Current EXCEPT !.left = @ \ {adjacent}])

(* The loop over the nodes: the first one without an index. *)
NextRoot ==
  /\ Defined /\ calls = <<>>
  /\ \E n \in Node \ DOMAIN indices :
       (\A m \in 1 .. n - 1 : m \in DOMAIN indices) /\ StrongConnect(n, <<>>)

Descend ==
  /\ calls # <<>>
  /\ \E adjacent \in Current.left \ DOMAIN indices :
       StrongConnect(adjacent, LookedAt(adjacent))

SeeVisited_AnyVisited(adjacent) ==   \* mutant: the edge counts in any case
  lowLinks' = Lowered(Current.node, indices[adjacent])

(* An edge to a node of a component that is done says nothing of this one. *)
SeeVisited(adjacent) ==
  lowLinks' = IF adjacent \in onStack THEN Lowered(Current.node, indices[adjacent])
                                      ELSE lowLinks

LookAtVisited ==
  /\ calls # <<>>
  /\ \E adjacent \in Current.left \cap DOMAIN indices :
       SeeVisited(adjacent) /\ calls' = LookedAt(adjacent)
  /\ UNCHANGED <<graph, connections, definitions, indices, stack, onStack, components>>

PopComponent(n) ==
  LET at == CHOOSE i \in DOMAIN stack : stack[i] = n
      component == {stack[i] : i \in at .. Len(stack)}
  IN  /\ components' = Append(components, component)
      /\ stack' = SubSeq(stack, 1, at - 1)
      /\ onStack' = onStack \ component

(* The end of strongConnect, and what its caller takes from it. *)
Return ==
  /\ calls # <<>> /\ Current.left = {}
  /\ LET n == Current.node IN
       /\ IF lowLinks[n] = indices[n] THEN PopComponent(n)
                                      ELSE UNCHANGED <<components, stack, onStack>>
       /\ lowLinks' = IF Len(calls) = 1 THEN lowLinks
                        ELSE Lowered(Last(Front(calls)).node, lowLinks[n])
  /\ calls' = Front(calls)
  /\ UNCHANGED <<graph, connections, definitions, indices>>

Searched == Defined /\ calls = <<>> /\ DOMAIN indices = Node

-----------------------------------------------------------------------------
(* The execution plan, read off the final state. *)

InputConnections(n) ==
  {c \in connections[n] : c.to = n /\ c.in <= definitions[n].inputs}
OutputConnections(n) ==
  {c \in connections[n] : c.from = n /\ c.out <= definitions[n].outputs}

InputNodesTo(n) == {c.from : c \in InputConnections(n)}
OutputNodesFrom(n) == {c.to : c \in OutputConnections(n)}
StartNodes == {n \in Node : OutputNodesFrom(n) = {}}
MissingRequiredInput(n) == n \in Required /\ \A c \in InputConnections(n) : c.in # 1
InSameCycle(a, b) == \E i \in DOMAIN components : {a, b} \subseteq components[i]

(* The lookups of a processor without a plan, where they differ. *)
UnplannedDependencies(n) == {c.from : c \in {d \in connections[n] : d.to = n}}
UnplannedMissingInput(n) ==
  n \in Required /\ ~ \E c \in connections[n] : c.to = n /\ c.in = 1

(* The fast scheduler is chosen for these graphs, if nothing else is against it. *)
NodesNotInCycle == {n \in Node : \E i \in DOMAIN components : components[i] = {n}}

CanUseFastAcyclicScheduler_ByComponents == NodesNotInCycle = Node   \* mutant
CanUseFastAcyclicScheduler ==
  /\ NodesNotInCycle = Node
  /\ \A c \in graph : c.from # c.to

-----------------------------------------------------------------------------
Done == Searched /\ UNCHANGED vars

Next == DefineNode \/ NextRoot \/ Descend \/ LookAtVisited \/ Return \/ Done

Spec == Init /\ [][Next]_vars

-----------------------------------------------------------------------------
(* The reference: a node reaches what is in every set that holds its
   readers and their readers. *)
Reaches(a, b) ==
  \A S \in SUBSET Node :
    AdjacentNodes(a) \subseteq S /\ (\A n \in S : AdjacentNodes(n) \subseteq S) => b \in S

(* The search finds the strongly connected components, whatever the order of
   nodes and connections: each one, from the moment it is found, is a node
   with all those it reaches and is reached by, and in the end every node is
   in one.  Loops are cleared and started by them. *)
ComponentsAreCycles ==
  /\ \A i \in DOMAIN components : \A a \in components[i], b \in Node :
       b \in components[i] <=> a = b \/ (Reaches(a, b) /\ Reaches(b, a))
  /\ Searched => \A n \in Node : InSameCycle(n, n)

(* Whoever waits for a node is woken by it: a connection is dropped from both
   its ends or from neither, also when a port is found missing after the node
   at the other end was defined.  Without a plan a processor sees the same
   inputs and misses the same ones. *)
NeighboursAgree ==
  Searched => \A a, b \in Node :
    /\ a # b => (a \in InputNodesTo(b) <=> b \in OutputNodesFrom(a))
    /\ InputNodesTo(b) = UnplannedDependencies(b)
    /\ MissingRequiredInput(b) <=> UnplannedMissingInput(b)

(* The fast scheduler is never chosen where nodes wait for each other: it
   counts inputs down and would leave them out without a word.  Where it is,
   every node leads to a start node, so the walk from those finds it. *)
FastNodesNeverWaitInACircle ==
  Searched /\ CanUseFastAcyclicScheduler =>
    /\ \A S \in (SUBSET Node) \ {{}} : \E n \in S : InputNodesTo(n) \cap S = {}
    /\ \A n \in Node : \E s \in StartNodes : s = n \/ Reaches(n, s)
=============================================================================
