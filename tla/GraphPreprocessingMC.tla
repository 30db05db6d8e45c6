-------------------------- MODULE GraphPreprocessingMC --------------------------
EXTENDS GraphPreprocessing

Wire(a, b) == [from |-> a, out |-> 1, to |-> b, in |-> 1]

(* All graphs of four nodes, by one port each. *)
Plain == {Wire(a, b) : a, b \in 1 .. 4} \ {Wire(a, a) : a \in 1 .. 4}

(* Node 2 is a passthrough and node 5 is not in the graph: connections from
   and to ports that may not exist, parallel ones and a node with itself. *)
Faulty ==
  {Wire(1, 2), Wire(2, 3), Wire(3, 1), Wire(3, 4), Wire(4, 2), Wire(3, 3), Wire(1, 5),
   [from |-> 1, out |-> 1, to |-> 2, in |-> 2],
   [from |-> 2, out |-> 2, to |-> 4, in |-> 1],
   [from |-> 4, out |-> 2, to |-> 2, in |-> 1],
   [from |-> 4, out |-> 1, to |-> 3, in |-> 2]}

AllGraphs == (SUBSET Plain) \cup (SUBSET Faulty)
=============================================================================
