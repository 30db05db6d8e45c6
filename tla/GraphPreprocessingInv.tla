------------------------ MODULE GraphPreprocessingInv ------------------------
(***************************************************************************)
(* The inductive invariant behind the properties of GraphPreprocessing.    *)
(***************************************************************************)
EXTENDS GraphPreprocessing

TypeInv ==
  /\ graph \in Graphs
  /\ connections \in [Node -> SUBSET graph]
  /\ definitions \in Seq([inputs : Nat, outputs : Nat])
  /\ Len(definitions) <= NodeCount
  /\ DOMAIN indices \subseteq Node
  /\ indices \in [DOMAIN indices -> Nat]
  /\ lowLinks \in [DOMAIN indices -> Nat]
  /\ stack \in Seq(Node)
  /\ onStack \subseteq DOMAIN indices
  /\ calls \in Seq([node : Node, left : SUBSET Node])
  /\ components \in Seq(SUBSET Node)

(* A connection is listed under both its ends, which are nodes, or nowhere. *)
ListInv ==
  \A n \in Node : \A c \in connections[n] :
    /\ c.from \in Node /\ c.to \in Node
    /\ n \in {c.from, c.to}
    /\ c \in connections[c.from] /\ c \in connections[c.to]

(* The nodes that were asked have no connection without a port. *)
PortInv ==
  \A n \in 1 .. Len(definitions) : \A c \in connections[n] :
    /\ c.to = n => c.in <= definitions[n].inputs
    /\ c.from = n /\ c.to # n => c.out <= definitions[n].outputs

(* The search waits for the last node to be asked. *)
PhaseInv ==
  ~ Defined => /\ DOMAIN indices = {}
               /\ calls = <<>> /\ stack = <<>> /\ components = <<>>

-----------------------------------------------------------------------------
(* The search.  A call is under way for each node of a path; its nodes are
   on the stack, in the order of the path, each before what it has led to. *)
IndexInv ==
  \A n \in DOMAIN indices : indices[n] < Cardinality(DOMAIN indices)

StackInv ==
  /\ onStack = {stack[i] : i \in DOMAIN stack}
  /\ \A i, j \in DOMAIN stack : i < j => indices[stack[i]] < indices[stack[j]]

Caller(k) == calls[k].node

CallInv ==
  /\ \A k \in DOMAIN calls :
       Caller(k) \in onStack /\ calls[k].left \subseteq AdjacentNodes(Caller(k))
  /\ \A k, l \in DOMAIN calls : k < l => indices[Caller(k)] < indices[Caller(l)]

(* What the search has looked at from a node. *)
Seen(n) ==
  {m \in AdjacentNodes(n) : \A k \in DOMAIN calls : Caller(k) = n => m \notin calls[k].left}
SeenInv == \A n \in DOMAIN indices : Seen(n) \subseteq DOMAIN indices

Leads(a, b) == a = b \/ Reaches(a, b)

(* A caller reaches all that came after it, and from every node on the stack
   there is a way back to a caller that came before it, or to itself. *)
DownInv ==
  \A k \in DOMAIN calls : \A n \in onStack :
    indices[Caller(k)] < indices[n] => Reaches(Caller(k), n)
UpInv ==
  \A n \in onStack : \E k \in DOMAIN calls :
    indices[Caller(k)] <= indices[n] /\ Leads(n, Caller(k))

(* The low link of a caller is the index of a node on the stack that it can
   get to, ... *)
LowInv ==
  \A k \in DOMAIN calls :
    /\ lowLinks[Caller(k)] <= indices[Caller(k)]
    /\ \E n \in onStack : indices[n] = lowLinks[Caller(k)] /\ Leads(Caller(k), n)

(* ... and nothing seen from the caller, or from the nodes between it and the
   next one, lies below it. *)
BoundInv ==
  \A k \in DOMAIN calls : \A n \in onStack :
    /\ indices[Caller(k)] <= indices[n]
    /\ k < Len(calls) => indices[n] < indices[Caller(k + 1)]
    => \A m \in Seen(n) \cap onStack : lowLinks[Caller(k)] <= indices[m]

(* The components found so far are those of the visited nodes that are not
   on the stack: disjoint, connected in both directions, and with no way out
   but to earlier ones. *)
ComponentInv ==
  /\ DOMAIN indices \ onStack = UNION {components[i] : i \in DOMAIN components}
  /\ \A i, j \in DOMAIN components : i # j => components[i] \cap components[j] = {}
  /\ \A i \in DOMAIN components : \A a, b \in components[i] : Leads(a, b)
  /\ \A i \in DOMAIN components : \A a \in components[i] : \A b \in AdjacentNodes(a) :
       \E j \in 1 .. i : b \in components[j]

IInv ==
  /\ TypeInv
  /\ ListInv
  /\ PortInv
  /\ PhaseInv
  /\ IndexInv
  /\ StackInv
  /\ CallInv
  /\ SeenInv
  /\ DownInv
  /\ UpInv
  /\ LowInv
  /\ BoundInv
  /\ ComponentInv
=============================================================================
