---------------------------- MODULE NodeLifecycle ----------------------------
(***************************************************************************)
(* What a run promises its observers, whichever scheduler runs it: the     *)
(* lifecycle events of the nodes, in an order the graph explains, and an   *)
(* outcome the events explain.  There are no queues, jobs or pauses here.  *)
(***************************************************************************)
EXTENDS ProjectGraph

CONSTANT Preloaded

VARIABLES
  lifecycle,   \* the last event of each node
  portValue,   \* what each connection carries
  stop,        \* "none", or how the run was aborted
  outcome      \* "running", or how it ended

lifecycleVars == <<lifecycle, portValue, stop, outcome>>

Event == {"none", "started", "finished", "errored", "excluded"}

NodesThat(event) == {n \in Node : lifecycle[n] = event}
Settled == NodesThat("finished") \cup NodesThat("excluded")

(* Nothing upstream is missing or errored. *)
Ready(n) == InputNodesTo(n) \subseteq Settled

(* Every node the run was asked for has come to its end. *)
Complete == \A n \in StartNodes : n \in Settled \/ BehindRunTo(n)

Happens(n, event) == lifecycle' = [lifecycle EXCEPT ![n] = event]

-----------------------------------------------------------------------------
Init ==
  /\ lifecycle = [n \in Node |-> IF n \in Preloaded THEN "finished" ELSE "none"]
  /\ portValue \in [Connection -> PortValue]
  /\ stop = "none"
  /\ outcome = "running"

Start(n) ==
  /\ lifecycle[n] = "none"
  /\ stop = "none"
  /\ Ready(n)
  /\ n \notin Disabled
  /\ ~ ExcludedByInputs(portValue, n)
  /\ Happens(n, "started")
  /\ UNCHANGED <<portValue, stop, outcome>>

Finish(n) ==
  /\ lifecycle[n] = "started"
  /\ Happens(n, "finished")
  /\ \E out \in OutputsOf(n) : portValue' = WithOutputs(portValue, n, out)
  /\ UNCHANGED <<stop, outcome>>

Fail(n) ==
  /\ lifecycle[n] = "started"
  /\ Happens(n, "errored")
  /\ UNCHANGED <<portValue, stop, outcome>>

Exclude(n) ==
  /\ lifecycle[n] = "none"
  /\ \/ n \in Disabled /\ ~ HasErroredInputNode(NodesThat("errored"), n)
     \/ Ready(n) /\ ExcludedByInputs(portValue, n)
  /\ Happens(n, "excluded")
  /\ portValue' = WithOutputs(portValue, n, ExcludedOutputs)
  /\ UNCHANGED <<stop, outcome>>

(* An aborted run gives up the nodes it has started and those it would start. *)
Cancel(n) ==
  /\ \/ lifecycle[n] = "started" /\ stop = "success"
     \/ lifecycle[n] = "none" /\ stop # "none" /\ Ready(n)
  /\ IF stop = "success"
     THEN /\ Happens(n, "excluded")
          /\ portValue' = WithOutputs(portValue, n, ExcludedOutputs)
     ELSE /\ Happens(n, "errored")
          /\ UNCHANGED portValue
  /\ UNCHANGED <<stop, outcome>>

Stop ==
  /\ stop = "none"
  /\ stop' \in {"success", "failure"}
  /\ UNCHANGED <<lifecycle, portValue, outcome>>

Resolve ==
  /\ NodesThat("errored") = {} \/ stop = "success"
  /\ stop = "none" => Complete
  /\ outcome' = "resolved"

(* Also a run aborted before its first node. *)
Reject ==
  /\ \/ NodesThat("errored") # {} /\ stop # "success"
     \/ stop # "none" /\ NodesThat("none") \cup Preloaded = Node
  /\ outcome' = "rejected"

Conclude ==
  /\ NodesThat("started") = {}
  /\ Resolve \/ Reject
  /\ UNCHANGED <<lifecycle, portValue, stop>>

NodeEvent(n) == Start(n) \/ Finish(n) \/ Fail(n) \/ Exclude(n) \/ Cancel(n)

Next ==
  \/ outcome = "running" /\ (Conclude \/ \E n \in Node : NodeEvent(n))
  \/ Stop

Spec == Init /\ [][Next]_lifecycleVars

-----------------------------------------------------------------------------
(* What the caller of run() learns is true of the nodes: when it settles, none
   is at work any more; when it resolves, every node it was asked for has come
   to its end (Complete), unless it was aborted, and none has failed, unless the
   abort counts as a success; when it is rejected, a node has failed or it was aborted. *)
OutcomeIsEarned ==
  /\ outcome # "running" => NodesThat("started") = {}
  /\ outcome = "resolved" =>
       /\ NodesThat("errored") = {} \/ stop = "success"
       /\ stop = "none" => Complete
  /\ outcome = "rejected" => NodesThat("errored") # {} \/ stop # "none"
=============================================================================
