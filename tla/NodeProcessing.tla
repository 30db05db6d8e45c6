--------------------------- MODULE NodeProcessing ---------------------------
(***************************************************************************)
(* What a GraphProcessor keeps about the nodes of a run, and the pieces of *)
(* code both schedulers go through for each of them: the checks before a   *)
(* node is processed, and the ways it comes to an end.                     *)
(***************************************************************************)
EXTENDS ProjectGraph

CONSTANTS
  NodeConcurrency,  \* concurrency of the processing queue
  Frozen,           \* nodes whose frozen outputs are replayed
  Preloaded,        \* nodes given results by preloadNodeData before the run
  HostControls      \* which of "pause" and "abort" the host uses

ASSUME ProcessorAssumption ==
  /\ NodeConcurrency \in Nat \ {0}
  /\ Frozen \subseteq Node
  /\ Preloaded \subseteq Node
  /\ HostControls \subseteq {"pause", "abort"}

VARIABLES
  runPhase,            \* where processGraph() stands
  isPaused, aborted, abortSuccessfully,
  currentlyProcessing, visitedNodes, erroredNodes,
  nodeResults,         \* the keys of nodeResults ...
  portValue,           \* ... and the value each connection reads from it
  lifecycle            \* the last lifecycle event emitted for each node

runVars  == <<runPhase, isPaused, aborted, abortSuccessfully>>
dataVars == <<visitedNodes, erroredNodes, nodeResults, portValue, lifecycle>>

Running == runPhase \in {"starting", "paused", "resumed", "draining", "erroring"}
Ended   == runPhase \in {"resolved", "rejected"}

Emit(n, event) == lifecycle' = [lifecycle EXCEPT ![n] = event]

-----------------------------------------------------------------------------
(***************************************************************************)
(* The checks of processNodeIfAllInputsAvailable.                          *)
(***************************************************************************)
ShouldSkipNodeProcessing_NoInFlightCheck(n) ==   \* mutant
  \/ BehindRunTo(n)
  \/ n \in visitedNodes \cup erroredNodes
  \/ HasErroredInputNode(erroredNodes, n)

ShouldSkipNodeProcessing(n) ==
  \/ BehindRunTo(n)
  \/ n \in currentlyProcessing
  \/ n \in visitedNodes
  \/ n \in erroredNodes
  \/ HasErroredInputNode(erroredNodes, n)

(* Mutants: one input is enough; a merging node runs with what it has. *)
MustWait_AnyInput(n) ==
  /\ n \notin Disabled /\ InputNodesTo(n) # {}
  /\ InputNodesTo(n) \cap visitedNodes = {}

(* A disabled node is excluded without waiting for its inputs. *)
MustWait(n) == n \notin Disabled /\ WaitingForInputNode(visitedNodes, n)
MustExclude(n) == n \in Disabled \/ ExcludedByInputs(portValue, n)

-----------------------------------------------------------------------------
(* excludeNode, but for its outputs. *)
StoreExclusion(n) ==
  /\ visitedNodes' = visitedNodes \cup {n}
  /\ nodeResults' = nodeResults \cup {n}
  /\ portValue' = WithOutputs(portValue, n, ExcludedOutputs)
  /\ Emit(n, "excluded")
  /\ currentlyProcessing' = currentlyProcessing \ {n}

(* The node's outputs are stored, and nodeFinish is emitted. *)
StoreOutputs(n) ==
  /\ nodeResults' = nodeResults \cup {n}
  /\ \E out \in OutputsOf(n) : portValue' = WithOutputs(portValue, n, out)
  /\ visitedNodes' = visitedNodes \cup {n}
  /\ Emit(n, "finished")

(***************************************************************************)
(* nodeErrored: an error that a successful abort explains excludes the     *)
(* node, any other makes it errored.                                       *)
(***************************************************************************)
NodeErrored(n, explained) ==
  IF abortSuccessfully /\ explained
  THEN /\ nodeResults' = nodeResults \cup {n}
       /\ portValue' = WithOutputs(portValue, n, ExcludedOutputs)
       /\ Emit(n, "excluded")
       /\ UNCHANGED erroredNodes
  ELSE /\ erroredNodes' = erroredNodes \cup {n}
       /\ Emit(n, "errored")
       /\ UNCHANGED <<nodeResults, portValue>>

(* throwIfGraphErrored: what the run comes to when its nodes are through. *)
RunResult ==
  IF erroredNodes # {} /\ ~ abortSuccessfully THEN "erroring" ELSE "resolved"

-----------------------------------------------------------------------------
(* A decision about a node is never contradicted by what is stored later: a
   node that started did so with all its inputs there, none errored and none
   that should have excluded it, and those inputs do not change while it is
   awaited or afterwards; a node was excluded for a reason that still holds.
   So whichever way the queue schedules a run that ends normally, the fate of
   a node depends only on what its inputs put out. *)
DecisionsStand ==
  \A n \in Node \ Preloaded :
    /\ lifecycle[n] \in {"started", "finished"} =>
         /\ InputNodesTo(n) \subseteq visitedNodes
         /\ ~ HasErroredInputNode(erroredNodes, n)
         /\ ~ MustExclude(n)
    /\ lifecycle[n] = "excluded" /\ ~ aborted => MustExclude(n) /\ ~ MustWait(n)

(* The sets the code keeps agree with the events it has emitted. *)
LifeOK(n) ==
  /\ lifecycle[n] = "none" =>
       n \notin visitedNodes \cup erroredNodes \cup nodeResults \cup currentlyProcessing
  /\ lifecycle[n] = "started" =>
       n \in currentlyProcessing /\ n \notin visitedNodes \cup erroredNodes \cup nodeResults
  /\ lifecycle[n] = "finished" =>
       n \in visitedNodes /\ n \in nodeResults /\ n \notin erroredNodes
  /\ lifecycle[n] = "excluded" =>
       /\ n \in visitedNodes \cup currentlyProcessing
       /\ n \in nodeResults
       /\ n \notin erroredNodes
  /\ lifecycle[n] = "errored" =>
       /\ n \in visitedNodes \cup currentlyProcessing
       /\ n \in erroredNodes
       /\ n \notin nodeResults

LifeInv == \A n \in Node : LifeOK(n)

(***************************************************************************)
(* A scheduler implements the abstract run: every event it emits is one    *)
(* the graph explains at that moment, each node has at most one last       *)
(* event, nothing starts after an abort, and the run resolves or rejects   *)
(* as its events say.                                                      *)
(***************************************************************************)
Lifecycle ==
  INSTANCE NodeLifecycle WITH
    stop    <- IF ~ aborted THEN "none"
               ELSE IF abortSuccessfully THEN "success" ELSE "failure",
    outcome <- IF runPhase \in {"erroring", "rejected"} THEN "rejected"
               ELSE IF runPhase = "resolved" THEN "resolved" ELSE "running"

ImplementsLifecycle == Lifecycle!Spec
=============================================================================
