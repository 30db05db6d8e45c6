---------------------- MODULE FastAcyclicSchedulerInv ----------------------
(***************************************************************************)
(* The inductive invariant behind the properties of FastAcyclicScheduler.  *)
(***************************************************************************)
EXTENDS FastAcyclicScheduler

Processing == {"starting", "paused", "resumed", "running"}
Through    == {"leaving", "done"}
Begun      == runPhase = "draining"

(* Where a node stands says which events it has had.  A node is let go
   without any only behind an error. *)
PlaceOK(n) ==
  /\ activity[n] \in {"waiting", "ready"} => lifecycle[n] = "none"
  /\ activity[n] \in Processing => lifecycle[n] = "started"
  /\ activity[n] = "settling" => lifecycle[n] \in {"finished", "errored"}
  /\ activity[n] = "stopping" =>
       aborted /\ lifecycle[n] \in {"finished", "errored", "excluded"}
  /\ activity[n] = "returned" => lifecycle[n] \in {"finished", "errored", "excluded"}
  /\ activity[n] \in Through => lifecycle[n] # "started"
  /\ activity[n] \in Through /\ lifecycle[n] = "none" =>
       HasErroredInputNode(erroredNodes, n)
  /\ n \in currentlyProcessing <=> activity[n] \in Holding

PlaceInv == \A n \in Node : PlaceOK(n)

(* The inputs that have not told the node that they are through: those
   without an outcome, and those that have still to count it down. *)
Pending(n) ==
  {m \in InputNodesTo(n) : m \notin visitedNodes \/ activity[m] \notin Through}

(* The counts are right, until an abort lets nodes go without telling. *)
CountInv ==
  Begun =>
    \A n \in Node :
      /\ Cardinality(Pending(n)) <= remainingInputs[n]
      /\ ~ aborted /\ n \in RelevantNodes => remainingInputs[n] = Cardinality(Pending(n))

(* A node leaves the waiting ones exactly when its count comes to zero. *)
ReadyInv ==
  /\ \A n \in Node : activity[n] # "waiting" => Pending(n) = {}
  /\ Begun => \A n \in RelevantNodes : activity[n] = "waiting" => remainingInputs[n] > 0

(* Nodes are active only while the graph is being processed. *)
PhaseInv ==
  /\ runPhase \in {"starting", "paused", "resumed"} => \A n \in Node : activity[n] = "waiting"
  /\ ~ Begun => AllSettled /\ ~ pumping
  /\ abortSuccessfully => aborted

IInv ==
  /\ TypeOK
  /\ LifeInv
  /\ PlaceInv
  /\ CountInv
  /\ ReadyInv
  /\ PhaseInv
  /\ DecisionsStand
=============================================================================
